----------------------------- MODULE HeapProofs -----------------------------
(* Proofs about the allocator under the calls of the shell, for every line,  *)
(* every number of executables and every size of the first heap.  An         *)
(* induction along the list is an argument about the last block at which a   *)
(* statement fails.                                                          *)
EXTENDS ShellHeap, CommonProofs

-----------------------------------------------------------------------------
(* Numbers and functions.                                                    *)

LEMMA AlignUp ==
    ASSUME NEW s \in Nat
    PROVE  /\ align(s) \in Nat /\ (align(s) % MACHINE_ALIGNMENT) = 0
           /\ s <= align(s) /\ align(s) < s + MACHINE_ALIGNMENT
BY DEF align, MACHINE_ALIGNMENT

LEMMA AlignedSum ==
    ASSUME NEW s \in Int, NEW t \in Int,
           (s % MACHINE_ALIGNMENT) = 0, (t % MACHINE_ALIGNMENT) = 0
    PROVE  /\ ((s + t) % MACHINE_ALIGNMENT) = 0
           /\ ((s - t) % MACHINE_ALIGNMENT) = 0
BY DEF MACHINE_ALIGNMENT

LEMMA PutShape ==
    ASSUME NEW f, NEW x, NEW v
    PROVE  /\ DOMAIN Put(f, x, v) = DOMAIN f \cup {x}
           /\ Put(f, x, v)[x] = v
           /\ \A y \in DOMAIN f : y # x => Put(f, x, v)[y] = f[y]
BY DEF Put

-----------------------------------------------------------------------------
(* A list that tiles the heap.                                             *)

Sizes == {n \in Nat : (n % MACHINE_ALIGNMENT) = 0}

Block(a) == [size : Sizes, free : BOOLEAN, next : Nat \cup {NULL},
             prev : {p \in Nat : p < a} \cup {NULL}]

EndOf(b, a) == a + HeaderSize + b[a].size

\* The headers and their fields, whatever the links.
Headers(b) ==
    /\ heap_start \in DOMAIN b /\ DOMAIN b \subseteq Sizes
    /\ \A a \in DOMAIN b : b[a] \in Block(a)

\* Every block ends where the next one on the list starts, the last one at e.
Joined(b, e) ==
    \A a \in DOMAIN b : IF b[a].next = NULL THEN EndOf(b, a) = e
                        ELSE b[a].next \in DOMAIN b /\ EndOf(b, a) = b[a].next

\* No block reaches into a later one, or past e.
Disjoint(b, e) ==
    \A a \in DOMAIN b : /\ EndOf(b, a) <= e
                        /\ \A c \in DOMAIN b : a < c => EndOf(b, a) <= c

Tiled(b, e) == e \in Sizes /\ Headers(b) /\ Joined(b, e) /\ Disjoint(b, e)

LEMMA ConstantsAligned == HeaderSize \in Sizes /\ InitSize \in Sizes
                          /\ HeaderSize >= 8 /\ InitSize - HeaderSize >= 8
BY HeapSizesAssumption DEF Sizes, MACHINE_ALIGNMENT

LEMMA SumsAligned ==
    ASSUME NEW m \in Sizes, NEW n \in Sizes
    PROVE  m + n \in Sizes /\ (n <= m => m - n \in Sizes)
BY AlignedSum DEF Sizes

LEMMA TiledShape ==
    ASSUME NEW b, NEW e, Tiled(b, e)
    PROVE  /\ e \in Nat
           /\ \A a \in DOMAIN b :
                 /\ a \in Nat /\ b[a].size \in Nat /\ b[a].free \in BOOLEAN
                 /\ b[a].next = NULL \/ b[a].next \in DOMAIN b
                 /\ b[a].prev = NULL \/ (b[a].prev \in Nat /\ b[a].prev < a)
                 /\ EndOf(b, a) \in Sizes /\ a + HeaderSize <= e
                 /\ a < EndOf(b, a)
<1>1. e \in Nat
  BY DEF Tiled, Sizes
<1>2. ASSUME NEW a \in DOMAIN b
      PROVE  /\ a \in Nat /\ b[a].size \in Nat /\ b[a].free \in BOOLEAN
             /\ b[a].next = NULL \/ b[a].next \in DOMAIN b
             /\ b[a].prev = NULL \/ (b[a].prev \in Nat /\ b[a].prev < a)
             /\ EndOf(b, a) \in Sizes /\ a + HeaderSize <= e
             /\ a < EndOf(b, a)
  <2>1. a \in Sizes /\ b[a] \in Block(a)
    BY DEF Tiled, Headers
  <2>2. b[a].size \in Sizes
    BY <2>1 DEF Block
  <2>3. EndOf(b, a) \in Sizes
    BY <2>1, <2>2, SumsAligned, ConstantsAligned DEF EndOf
  <2>4. EndOf(b, a) <= e
    BY DEF Tiled, Disjoint
  <2>5. a \in Nat /\ b[a].size \in Nat /\ HeaderSize \in Nat /\ HeaderSize >= 8
    BY <2>1, <2>2, ConstantsAligned DEF Sizes
  <2>6. a + HeaderSize <= e /\ a < EndOf(b, a)
    BY <2>4, <2>5, <1>1 DEF EndOf
  <2>7. b[a].next = NULL \/ b[a].next \in DOMAIN b
    BY DEF Tiled, Joined
  <2>8. b[a].free \in BOOLEAN /\ (b[a].prev = NULL \/ (b[a].prev \in Nat /\ b[a].prev < a))
    BY <2>1 DEF Block
  <2> QED
    BY <2>3, <2>5, <2>6, <2>7, <2>8
<1> QED
  BY <1>1, <1>2

\* The next block is the nearest one after, and only the last one has none.
LEMMA NextIsNearest ==
    ASSUME NEW b, NEW e, Tiled(b, e), NEW a \in DOMAIN b
    PROVE  /\ b[a].next = NULL => \A x \in DOMAIN b : x <= a
           /\ b[a].next # NULL => /\ b[a].next \in DOMAIN b /\ a < b[a].next
                                  /\ \A x \in DOMAIN b : a < x => b[a].next <= x
<1>1. \A x \in DOMAIN b : x \in Nat /\ x + HeaderSize <= e
  BY TiledShape
<1>2. \A x \in DOMAIN b : a < x => EndOf(b, a) <= x
  BY DEF Tiled, Disjoint
<1>3. IF b[a].next = NULL THEN EndOf(b, a) = e
                          ELSE b[a].next \in DOMAIN b /\ EndOf(b, a) = b[a].next
  BY DEF Tiled, Joined
<1>4. a \in Nat /\ e \in Nat /\ a < EndOf(b, a)
  BY TiledShape
<1>5. HeaderSize \in Nat /\ HeaderSize >= 8
  BY ConstantsAligned DEF Sizes
<1>6. CASE b[a].next = NULL
  BY <1>1, <1>2, <1>3, <1>4, <1>5, <1>6
<1>7. CASE b[a].next # NULL
  BY <1>2, <1>3, <1>4, <1>7
<1> QED
  BY <1>6, <1>7

-----------------------------------------------------------------------------
(* Walks along the list.                                                   *)

LEMMA NullIsNoBlock ==
    ASSUME NEW b, NEW e, Tiled(b, e)
    PROVE  NULL \notin DOMAIN b
BY TiledShape DEF NULL

\* What holds of a block whenever it holds of the one after, holds of all.
LEMMA WalkBack ==
    ASSUME NEW b, NEW e, Tiled(b, e),
           NEW Bad, Bad \subseteq DOMAIN b, Bad # {}
    PROVE  \E a \in Bad : b[a].next \notin Bad
<1>1. Bad \in SUBSET Nat /\ e \in Nat /\ \A a \in Bad : a <= e
  <2>1. \A a \in DOMAIN b : a \in Nat /\ a + HeaderSize <= e
    BY TiledShape
  <2>2. e \in Nat /\ HeaderSize \in Nat
    BY TiledShape, HeapSizesAssumption
  <2> QED
    BY <2>1, <2>2
<1>2. PICK a \in Bad : \A c \in Bad : c <= a
  BY <1>1, GreatestNumber
<1>3. b[a].next # NULL => a < b[a].next
  BY NextIsNearest
<1>4. b[a].next \notin Bad
  <2>1. NULL \notin Bad
    BY NullIsNoBlock
  <2> QED
    BY <1>1, <1>2, <1>3, <2>1
<1> QED
  BY <1>4

\* The blocks from a on are a and those from the next one on.
LEMMA FromHere ==
    ASSUME NEW b, NEW e, Tiled(b, e), NEW a \in DOMAIN b, NEW x \in DOMAIN b
    PROVE  a <= x <=> x = a \/ (b[a].next # NULL /\ b[a].next <= x)
<1>1. a \in Nat /\ x \in Nat /\ (b[a].next # NULL => b[a].next \in Nat)
  BY TiledShape
<1>2. CASE b[a].next = NULL
  <2>1. x <= a
    BY <1>2, NextIsNearest
  <2> QED
    BY <1>1, <1>2, <2>1
<1>3. CASE b[a].next # NULL
  <2>1. a < b[a].next /\ (a < x => b[a].next <= x)
    BY <1>3, NextIsNearest
  <2> QED
    BY <1>1, <1>3, <2>1
<1> QED
  BY <1>2, <1>3

LEMMA FirstFitWalks ==
    ASSUME NEW b, NEW e, Tiled(b, e), NEW size
    PROVE  \/ /\ FirstFit(b, size) = NULL
              /\ \A x \in DOMAIN b : ~Fits(b, x, size)
           \/ FirstFit(b, size) \in DOMAIN b /\ Fits(b, FirstFit(b, size), size)
<1> DEFINE D == DOMAIN b \cup {NULL}
           From(a) == {x \in DOMAIN b : a <= x /\ Fits(b, x, size)}
           Lowest(S) == CHOOSE x \in S : \A y \in S : x <= y
           First(a) == Lowest(From(a))
           Walk(f) == [a \in D |-> IF a = NULL \/ Fits(b, a, size)
                                   THEN a ELSE f[b[a].next]]
           search == CHOOSE f : f = Walk(f)
           Answer(a) == IF a = NULL \/ From(a) = {} THEN NULL ELSE First(a)
           answer == [a \in D |-> Answer(a)]
<1>1. ASSUME NEW a \in DOMAIN b, From(a) # {}
      PROVE  First(a) \in From(a) /\ \A y \in From(a) : First(a) <= y
  <2>1. From(a) \in SUBSET Nat
    BY TiledShape
  <2> HIDE DEF From
  <2>2. \E x \in From(a) : \A y \in From(a) : x <= y
    BY <1>1, <2>1, LeastNumber
  <2> QED
    BY <2>2
<1>2. ASSUME NEW a \in DOMAIN b, Fits(b, a, size)
      PROVE  Answer(a) = a
  <2>1. a \in From(a) /\ a # NULL
    BY <1>2, TiledShape, NullIsNoBlock
  <2>2. First(a) \in From(a) /\ First(a) <= a
    BY <1>1, <2>1
  <2>3. First(a) \in Nat /\ a \in Nat /\ a <= First(a)
    <3> HIDE DEF First
    <3> QED
      BY <2>2, TiledShape
  <2>4. First(a) = a
    <3> HIDE DEF First
    <3> QED
      BY <2>2, <2>3
  <2> HIDE DEF First
  <2> QED
    BY <2>1, <2>4
<1>3. ASSUME NEW a \in DOMAIN b, ~Fits(b, a, size)
      PROVE  Answer(a) = Answer(b[a].next)
  <2>1. From(a) = IF b[a].next = NULL THEN {} ELSE From(b[a].next)
    <3>1. \A x \in DOMAIN b : a <= x <=> x = a \/ (b[a].next # NULL /\ b[a].next <= x)
      BY FromHere
    <3> QED
      BY <1>3, <3>1
  <2>2. a # NULL
    BY NullIsNoBlock
  <2> HIDE DEF From, Lowest
  <2>3. CASE b[a].next = NULL
    BY <2>1, <2>2, <2>3
  <2>4. CASE b[a].next # NULL
    <3>1. From(a) = From(b[a].next)
      BY <2>1, <2>4
    <3> QED
      BY <2>2, <2>4, <3>1
  <2> QED
    BY <2>3, <2>4
<1>4. \A a \in DOMAIN b : b[a].next \in D
  BY TiledShape
<1>5. answer = Walk(answer)
  <2>1. Answer(NULL) = NULL
    OBVIOUS
  <2> HIDE DEF Answer
  <2>2. ASSUME NEW a \in D
        PROVE  Answer(a) = IF a = NULL \/ Fits(b, a, size) THEN a
                           ELSE answer[b[a].next]
    BY <1>2, <1>3, <1>4, <2>1
  <2> QED
    BY <2>2
<1>6. search = Walk(search)
  <2> HIDE DEF Walk, answer
  <2> QED
    BY <1>5
<1>7. \A a \in D : search[a] = IF a = NULL \/ Fits(b, a, size)
                               THEN a ELSE search[b[a].next]
  <2> HIDE DEF search
  <2> QED
    BY <1>6
<1>8. FirstFit(b, size) = search[heap_start]
  BY DEF FirstFit
<1> HIDE DEF search, Answer
<1> DEFINE Bad == {a \in DOMAIN b : search[a] # Answer(a)}
<1>9. Bad = {}
  <2>1. SUFFICES ASSUME Bad # {} PROVE FALSE
    OBVIOUS
  <2>2. PICK a \in Bad : b[a].next \notin Bad
    <3>1. Bad \subseteq DOMAIN b
      OBVIOUS
    <3> HIDE DEF Bad
    <3> QED
      BY <2>1, <3>1, WalkBack
  <2>3. search[NULL] = NULL /\ Answer(NULL) = NULL
    BY <1>7 DEF Answer
  <2>4. search[b[a].next] = Answer(b[a].next)
    BY <1>4, <2>2, <2>3
  <2> QED
    BY <1>2, <1>3, <1>7, <2>2, <2>4, NullIsNoBlock
<1>10. heap_start \in DOMAIN b /\ search[heap_start] = Answer(heap_start)
  BY <1>9 DEF Tiled, Headers
<1>11. \A x \in DOMAIN b : heap_start <= x
  BY TiledShape DEF heap_start
<1>12. CASE From(heap_start) = {}
  BY <1>8, <1>10, <1>11, <1>12 DEF Answer
<1>13. CASE From(heap_start) # {}
  <2>1. First(heap_start) \in From(heap_start) /\ heap_start # NULL
    BY <1>1, <1>10, <1>13, NullIsNoBlock
  <2> HIDE DEF First
  <2> QED
    BY <1>8, <1>10, <1>13, <2>1 DEF Answer
<1> QED
  BY <1>12, <1>13

\* The last block is the one that ends at e.
LEMMA LastBlockWalks ==
    ASSUME NEW b, NEW e, Tiled(b, e)
    PROVE  /\ LastBlock(b) \in DOMAIN b /\ b[LastBlock(b)].next = NULL
           /\ EndOf(b, LastBlock(b)) = e
<1> DEFINE Walk(f) == [a \in DOMAIN b |-> IF b[a].next = NULL THEN a ELSE f[b[a].next]]
           last_of == CHOOSE f : f = Walk(f)
<1>1. PICK z \in DOMAIN b : b[z].next \notin DOMAIN b
  BY WalkBack DEF Tiled, Headers
<1>2. b[z].next = NULL
  BY <1>1, TiledShape
<1>3. \A a \in DOMAIN b : b[a].next = NULL => a = z
  <2>1. ASSUME NEW a \in DOMAIN b, b[a].next = NULL
        PROVE  a = z
    <3>1. a <= z /\ z <= a /\ a \in Nat /\ z \in Nat
      BY <1>2, <2>1, NextIsNearest, TiledShape
    <3> QED
      BY <3>1
  <2> QED
    BY <2>1
<1> DEFINE answer == [a \in DOMAIN b |-> z]
<1>4. \A a \in DOMAIN b : b[a].next # NULL => b[a].next \in DOMAIN b
  BY TiledShape
<1>5. answer = Walk(answer)
  BY <1>2, <1>3, <1>4
<1>6. last_of = Walk(last_of)
  <2> HIDE DEF Walk, answer
  <2> QED
    BY <1>5
<1>7. \A a \in DOMAIN b : last_of[a] = IF b[a].next = NULL THEN a ELSE last_of[b[a].next]
  <2> HIDE DEF last_of
  <2> QED
    BY <1>6
<1>8. LastBlock(b) = last_of[heap_start]
  BY DEF LastBlock
<1> HIDE DEF last_of
<1> DEFINE Bad == {a \in DOMAIN b : last_of[a] # z}
<1>9. Bad = {}
  <2>1. SUFFICES ASSUME Bad # {} PROVE FALSE
    OBVIOUS
  <2>2. PICK a \in Bad : b[a].next \notin Bad
    <3>1. Bad \subseteq DOMAIN b
      OBVIOUS
    <3> HIDE DEF Bad
    <3> QED
      BY <2>1, <3>1, WalkBack
  <2> QED
    BY <1>3, <1>4, <1>7, <2>2
<1>10. LastBlock(b) = z
  BY <1>8, <1>9 DEF Tiled, Headers
<1>11. EndOf(b, z) = e
  BY <1>2 DEF Tiled, Joined
<1> QED
  BY <1>2, <1>10, <1>11

\* The list reaches every block.
LEMMA ListedWalks ==
    ASSUME NEW e, Tiled(blk, e)
    PROVE  Listed = DOMAIN blk
<1> DEFINE D == DOMAIN blk \cup {NULL}
           Walk(f) == [a \in D |-> IF a = NULL THEN {} ELSE {a} \cup f[blk[a].next]]
           from == CHOOSE f : f = Walk(f)
           Answer(a) == IF a = NULL THEN {} ELSE {x \in DOMAIN blk : a <= x}
           answer == [a \in D |-> Answer(a)]
<1>1. \A a \in DOMAIN blk : a # NULL /\ blk[a].next \in D
  BY TiledShape, NullIsNoBlock
<1>2. ASSUME NEW a \in DOMAIN blk
      PROVE  Answer(a) = {a} \cup Answer(blk[a].next)
  <2>1. \A x \in DOMAIN blk : a <= x <=> x = a \/ (blk[a].next # NULL /\ blk[a].next <= x)
    BY FromHere
  <2> QED
    BY <1>1, <2>1
<1>3. answer = Walk(answer)
  <2>1. Answer(NULL) = {}
    OBVIOUS
  <2> HIDE DEF Answer
  <2> QED
    BY <1>1, <1>2, <2>1
<1>4. from = Walk(from)
  <2> HIDE DEF Walk, answer
  <2> QED
    BY <1>3
<1>5. \A a \in D : from[a] = IF a = NULL THEN {} ELSE {a} \cup from[blk[a].next]
  <2> HIDE DEF from
  <2> QED
    BY <1>4
<1>6. Listed = from[heap_start]
  BY DEF Listed
<1> HIDE DEF from, Answer
<1> DEFINE Bad == {a \in DOMAIN blk : from[a] # Answer(a)}
<1>7. Bad = {}
  <2>1. SUFFICES ASSUME Bad # {} PROVE FALSE
    OBVIOUS
  <2>2. PICK a \in Bad : blk[a].next \notin Bad
    <3>1. Bad \subseteq DOMAIN blk
      OBVIOUS
    <3> HIDE DEF Bad
    <3> QED
      BY <2>1, <3>1, WalkBack
  <2>3. from[NULL] = {} /\ Answer(NULL) = {}
    BY <1>5 DEF Answer
  <2>4. from[blk[a].next] = Answer(blk[a].next)
    BY <1>1, <2>2, <2>3
  <2>5. from[a] = {a} \cup from[blk[a].next]
    BY <1>1, <1>5, <2>2
  <2> QED
    BY <1>2, <2>2, <2>4, <2>5
<1>8. Listed = Answer(heap_start)
  BY <1>6, <1>7 DEF Tiled, Headers
<1>9. heap_start # NULL /\ \A x \in DOMAIN blk : heap_start <= x
  BY TiledShape DEF heap_start, NULL
<1> QED
  BY <1>8, <1>9 DEF Answer

-----------------------------------------------------------------------------
(* What the operations do to the list.                                     *)

\* A block may be marked free or in use.
Marked(b, a, f) == [b EXCEPT ![a].free = f]

LEMMA MarkShape ==
    ASSUME NEW b, NEW e, Tiled(b, e), NEW a \in DOMAIN b, NEW f \in BOOLEAN,
           NEW m, m = Marked(b, a, f)
    PROVE  /\ Tiled(m, e) /\ DOMAIN m = DOMAIN b
           /\ m[a].free = f /\ m[a].size = b[a].size
           /\ m[a].next = b[a].next /\ m[a].prev = b[a].prev
           /\ \A x \in DOMAIN b : x # a => m[x] = b[x]
<1>1. DOMAIN m = DOMAIN b /\ \A x \in DOMAIN b : x # a => m[x] = b[x]
  BY DEF Marked
<1>2. b[a] \in Block(a)
  BY DEF Tiled, Headers
<1>3. m[a] = [b[a] EXCEPT !.free = f]
  BY DEF Marked
<1>4. /\ m[a].free = f /\ m[a].size = b[a].size
      /\ m[a].next = b[a].next /\ m[a].prev = b[a].prev
      /\ m[a] \in Block(a)
  BY <1>2, <1>3 DEF Block
<1>5. \A x \in DOMAIN b : /\ m[x].size = b[x].size /\ m[x].next = b[x].next
                          /\ EndOf(m, x) = EndOf(b, x)
  BY <1>1, <1>4 DEF EndOf
<1>6. Headers(m)
  BY <1>1, <1>4 DEF Tiled, Headers
<1>7. Joined(m, e)
  <2>1. \A x \in DOMAIN b : IF b[x].next = NULL THEN EndOf(b, x) = e
                            ELSE b[x].next \in DOMAIN b /\ EndOf(b, x) = b[x].next
    BY DEF Tiled, Joined
  <2>2. \A x \in DOMAIN m : IF m[x].next = NULL THEN EndOf(m, x) = e
                            ELSE m[x].next \in DOMAIN m /\ EndOf(m, x) = m[x].next
    BY <1>1, <1>5, <2>1
  <2> QED
    BY <2>2 DEF Joined
<1>8. Disjoint(m, e)
  BY <1>1, <1>5 DEF Tiled, Disjoint
<1> QED
  BY <1>1, <1>4, <1>6, <1>7, <1>8 DEF Tiled

\* What split_block leaves: the block cut to size, and a free one behind it.
LEMMA SplitShape ==
    ASSUME NEW b, NEW e, Tiled(b, e), NEW a \in DOMAIN b,
           NEW size \in Sizes, b[a].size > size + HeaderSize,
           NEW s, s = split_block(b, a, size)
    PROVE  LET new == a + HeaderSize + size
           IN  /\ Tiled(s, e) /\ DOMAIN s = DOMAIN b \cup {new} /\ new \notin DOMAIN b
               /\ s[a].size = size /\ s[a].free = b[a].free /\ s[new].free
               /\ \A x \in DOMAIN b : x # a => s[x] = b[x]
<1> DEFINE new == a + HeaderSize + size
           header == [size |-> b[a].size - (size + HeaderSize), free |-> TRUE,
                      next |-> b[a].next, prev |-> a]
           cut == [b EXCEPT ![a].next = new, ![a].size = size]
<1>1. /\ b[a] \in Block(a) /\ a \in Sizes /\ b[a].size \in Sizes
      /\ a \in Nat /\ b[a].size \in Nat /\ size \in Nat /\ e \in Nat
      /\ HeaderSize \in Nat /\ HeaderSize >= 8
  <2>1. b[a] \in Block(a) /\ a \in Sizes
    BY DEF Tiled, Headers
  <2>2. b[a].size \in Sizes
    BY <2>1 DEF Block
  <2> QED
    BY <2>1, <2>2, ConstantsAligned DEF Sizes, Tiled
<1>2. new \in Sizes /\ new \in Nat /\ a < new
  <2>1. new \in Sizes
    BY <1>1, SumsAligned, ConstantsAligned
  <2> QED
    BY <2>1, <1>1
<1>3. b[a].size - (size + HeaderSize) \in Sizes
  <2>1. size + HeaderSize \in Sizes
    BY SumsAligned, ConstantsAligned
  <2>2. size + HeaderSize <= b[a].size
    BY <1>1
  <2> QED
    BY <2>1, <2>2, <1>1, SumsAligned
<1>4. header \in Block(new)
  <2>1. b[a].next \in Nat \cup {NULL}
    BY <1>1 DEF Block
  <2> QED
    BY <1>1, <1>2, <1>3, <2>1 DEF Block
<1>5. EndOf(b, a) \in Nat /\ new < EndOf(b, a) /\ EndOf(b, a) <= e
  <2>1. EndOf(b, a) <= e
    BY DEF Tiled, Disjoint
  <2> QED
    BY <2>1, <1>1 DEF EndOf
<1>6. \A x \in DOMAIN b : x \in Nat /\ (a < x => EndOf(b, a) <= x)
  BY TiledShape DEF Tiled, Disjoint
<1>7. new \notin DOMAIN b /\ new # NULL
  BY <1>2, <1>5, <1>6 DEF NULL
<1>8. s = Put(cut, new, header)
  <2>1. a + (size + HeaderSize) = new
    BY <1>1
  <2> QED
    BY <2>1 DEF split_block
<1>9. cut[a] = [b[a] EXCEPT !.next = new, !.size = size]
  OBVIOUS
<1>10. /\ cut[a].next = new /\ cut[a].size = size /\ cut[a].free = b[a].free
       /\ cut[a] \in Block(a)
  BY <1>1, <1>2, <1>9 DEF Block
<1>11. DOMAIN cut = DOMAIN b /\ \A x \in DOMAIN b : x # a => cut[x] = b[x]
  OBVIOUS
<1> HIDE DEF cut, header
<1>12. /\ DOMAIN s = DOMAIN b \cup {new} /\ s[new] = header /\ s[a] = cut[a]
       /\ \A x \in DOMAIN b : x # a => s[x] = b[x]
  <2>1. a \in DOMAIN cut /\ a # new
    BY <1>7, <1>11
  <2> HIDE DEF new
  <2>2. /\ DOMAIN s = DOMAIN cut \cup {new} /\ s[new] = header
        /\ \A x \in DOMAIN cut : x # new => s[x] = cut[x]
    BY <1>8 DEF Put
  <2> QED
    BY <1>7, <1>11, <2>1, <2>2
<1>13. Headers(s)
  BY <1>2, <1>4, <1>10, <1>12 DEF Tiled, Headers
<1>14. EndOf(s, a) = new /\ EndOf(s, new) = EndOf(b, a)
  BY <1>1, <1>2, <1>10, <1>12 DEF EndOf, header
<1>15. \A x \in DOMAIN b : x # a => EndOf(s, x) = EndOf(b, x)
  BY <1>12 DEF EndOf
<1> HIDE DEF new
<1>16. Joined(s, e)
  <2>1. s[a].next = new /\ s[new].next = b[a].next
    BY <1>10, <1>12 DEF header
  <2>2. \A x \in DOMAIN b : IF b[x].next = NULL THEN EndOf(b, x) = e
                            ELSE b[x].next \in DOMAIN b /\ EndOf(b, x) = b[x].next
    BY DEF Tiled, Joined
  <2> QED
    BY <1>7, <1>12, <1>14, <1>15, <2>1, <2>2 DEF Joined
<1>17. Disjoint(s, e)
  <2>1. \A x \in DOMAIN b : EndOf(b, x) <= e /\ EndOf(b, x) \in Nat /\ x < EndOf(b, x)
    BY TiledShape DEF Tiled, Disjoint, Sizes
  <2>2. \A x, y \in DOMAIN b : x < y => EndOf(b, x) <= y
    BY DEF Tiled, Disjoint
  <2>3. ASSUME NEW x \in DOMAIN b, x # a
        PROVE  EndOf(s, x) <= e /\ \A c \in DOMAIN s : x < c => EndOf(s, x) <= c
    <3>1. x < new => EndOf(b, x) <= new
      <4>1. CASE x < a
        BY <1>1, <1>2, <1>6, <2>1, <2>2, <4>1
      <4>2. CASE a < x
        BY <1>2, <1>5, <1>6, <4>2
      <4> QED
        BY <1>1, <1>6, <2>3, <4>1, <4>2
    <3> QED
      BY <1>12, <1>15, <2>1, <2>2, <2>3, <3>1
  <2>4. EndOf(s, a) <= e /\ \A c \in DOMAIN s : a < c => EndOf(s, a) <= c
    BY <1>1, <1>2, <1>5, <1>6, <1>12, <1>14
  <2>5. EndOf(s, new) <= e /\ \A c \in DOMAIN s : new < c => EndOf(s, new) <= c
    BY <1>1, <1>2, <1>5, <1>6, <1>12, <1>14
  <2> QED
    BY <1>12, <2>3, <2>4, <2>5 DEF Disjoint
<1>18. s[a].size = size /\ s[a].free = b[a].free /\ s[new].free
  BY <1>10, <1>12 DEF header
<1> QED
  BY <1>7, <1>12, <1>13, <1>16, <1>17, <1>18 DEF Tiled, new

\* What the end of find_free leaves: block a in use, with room for size bytes,
\* and at most one new block, which is free.
LEMMA TakeShape ==
    ASSUME NEW b, NEW e, Tiled(b, e), NEW a \in DOMAIN b,
           NEW size \in Sizes, Fits(b, a, size),
           NEW t, t = Take(b, a, size)
    PROVE  /\ Tiled(t, e) /\ DOMAIN b \subseteq DOMAIN t
           /\ ~t[a].free /\ t[a].size >= size
           /\ \A x \in DOMAIN b : x # a => t[x] = b[x]
           /\ \A x \in DOMAIN t : x \notin DOMAIN b => t[x].free
<1>1. b[a].free /\ b[a].size >= size /\ b[a].size \in Nat /\ size \in Nat
  BY TiledShape DEF Fits, Sizes
<1>2. CASE b[a].size > size + HeaderSize
  <2> DEFINE s == split_block(b, a, size)
             new == a + HeaderSize + size
  <2>1. /\ Tiled(s, e) /\ DOMAIN s = DOMAIN b \cup {new} /\ new \notin DOMAIN b
        /\ s[a].size = size /\ s[new].free
        /\ \A x \in DOMAIN b : x # a => s[x] = b[x]
    BY <1>2, SplitShape
  <2>2. t = Marked(s, a, FALSE)
    BY <1>2 DEF Take, Marked
  <2> HIDE DEF s, new
  <2>3. /\ Tiled(t, e) /\ DOMAIN t = DOMAIN s /\ ~t[a].free /\ t[a].size = s[a].size
        /\ \A x \in DOMAIN s : x # a => t[x] = s[x]
    <3>1. Tiled(s, e) /\ a \in DOMAIN s
      BY <2>1
    <3>2. PICK f \in BOOLEAN : f = FALSE
      OBVIOUS
    <3>3. t = Marked(s, a, f)
      BY <2>2, <3>2
    <3>4. /\ Tiled(t, e) /\ DOMAIN t = DOMAIN s /\ t[a].free = f /\ t[a].size = s[a].size
          /\ \A x \in DOMAIN s : x # a => t[x] = s[x]
      BY <3>1, <3>3, MarkShape
    <3> QED
      BY <3>2, <3>4
  <2>4. \A x \in DOMAIN t : x \notin DOMAIN b => x = new /\ x # a
    BY <2>1, <2>3
  <2>5. size >= size
    BY <1>1
  <2>6. \A x \in DOMAIN b : x # a => t[x] = b[x]
    BY <2>1, <2>3
  <2>7. \A x \in DOMAIN t : x \notin DOMAIN b => t[x].free
    BY <2>1, <2>3, <2>4
  <2>8. DOMAIN b \subseteq DOMAIN t
    BY <2>1, <2>3
  <2>9. t[a].size >= size
    BY <2>1, <2>3, <2>5
  <2> QED
    BY <2>3, <2>6, <2>7, <2>8, <2>9
<1>3. CASE ~(b[a].size > size + HeaderSize)
  <2>1. t = Marked(b, a, FALSE)
    BY <1>3 DEF Take, Marked
  <2>2. /\ Tiled(t, e) /\ DOMAIN t = DOMAIN b /\ ~t[a].free /\ t[a].size = b[a].size
        /\ \A x \in DOMAIN b : x # a => t[x] = b[x]
    <3>1. PICK f \in BOOLEAN : f = FALSE
      OBVIOUS
    <3>2. t = Marked(b, a, f)
      BY <2>1, <3>1
    <3>3. /\ Tiled(t, e) /\ DOMAIN t = DOMAIN b /\ t[a].free = f /\ t[a].size = b[a].size
          /\ \A x \in DOMAIN b : x # a => t[x] = b[x]
      BY <3>2, MarkShape
    <3> QED
      BY <3>1, <3>3
  <2> QED
    BY <1>1, <2>2
<1> QED
  BY <1>2, <1>3

\* A grown heap: its last block has taken the new bytes, or they are a block of
\* their own.
LEMMA ExtendShape ==
    ASSUME Tiled(blk, heap_end), NEW size \in Sizes, size >= HeaderSize,
           NEW x, x = extend_heap(blk, size)
    PROVE  /\ Tiled(x, heap_end + size)
           /\ \A a \in DOMAIN blk : /\ a \in DOMAIN x /\ x[a].free = blk[a].free
                                    /\ x[a].size >= blk[a].size
           /\ \A a \in DOMAIN x : a \notin DOMAIN blk => x[a].free
           /\ \E a \in DOMAIN x : x[a].free /\ x[a].size >= size - HeaderSize
<1> DEFINE s == LastBlock(blk)
           header == [size |-> size - HeaderSize, free |-> TRUE,
                      next |-> NULL, prev |-> s]
           longer == [blk EXCEPT ![s].size = @ + size]
           linked == [blk EXCEPT ![s].next = heap_end]
<1>1. s \in DOMAIN blk /\ blk[s].next = NULL /\ EndOf(blk, s) = heap_end
  BY LastBlockWalks
<1>2. /\ heap_end \in Sizes /\ heap_end \in Nat /\ size \in Nat
      /\ heap_end + size \in Sizes /\ HeaderSize \in Nat /\ HeaderSize >= 8
      /\ size - HeaderSize \in Sizes /\ size - HeaderSize \in Nat
  <2>1. heap_end \in Sizes /\ HeaderSize \in Sizes /\ HeaderSize >= 8
    BY ConstantsAligned DEF Tiled
  <2>2. heap_end + size \in Sizes /\ size - HeaderSize \in Sizes
    BY <2>1, SumsAligned
  <2> QED
    BY <2>1, <2>2 DEF Sizes
<1>3. \A a \in DOMAIN blk : /\ a \in Nat /\ blk[a].size \in Nat /\ blk[a] \in Block(a)
                            /\ EndOf(blk, a) \in Nat /\ EndOf(blk, a) <= heap_end
                            /\ a < EndOf(blk, a)
  BY TiledShape DEF Tiled, Headers, Disjoint, Sizes
<1>4. \A a \in DOMAIN blk : /\ a <= s /\ a < heap_end
                            /\ a # s => a < s /\ EndOf(blk, a) <= s
  <2>1. \A a \in DOMAIN blk : a <= s
    BY <1>1, NextIsNearest
  <2>2. \A a, c \in DOMAIN blk : a < c => EndOf(blk, a) <= c
    BY DEF Tiled, Disjoint
  <2> HIDE DEF s
  <2> QED
    BY <1>1, <1>2, <1>3, <2>1, <2>2
<1>5. \A a \in DOMAIN blk : IF blk[a].next = NULL THEN EndOf(blk, a) = heap_end
                            ELSE blk[a].next \in DOMAIN blk /\ EndOf(blk, a) = blk[a].next
  BY DEF Tiled, Joined
<1>6. \A a, c \in DOMAIN blk : a < c => EndOf(blk, a) <= c
  BY DEF Tiled, Disjoint
<1>7. heap_start \in DOMAIN blk /\ DOMAIN blk \subseteq Sizes
  BY DEF Tiled, Headers
<1>8. x = IF blk[s].free THEN longer ELSE Put(linked, heap_end, header)
  BY DEF extend_heap
<1>9. \A a \in DOMAIN blk : a # s => blk[a].next # NULL
  <2> HIDE DEF s
  <2> QED
    BY <1>1, <1>3, <1>4, <1>5
<1>10. CASE blk[s].free
  <2>1. x = longer
    BY <1>8, <1>10
  <2>2. DOMAIN x = DOMAIN blk /\ \A a \in DOMAIN blk : a # s => x[a] = blk[a]
    BY <2>1
  <2>3. x[s] = [blk[s] EXCEPT !.size = @ + size]
    BY <1>1, <2>1
  <2> HIDE DEF s, longer
  <2>4. /\ x[s].size = blk[s].size + size /\ x[s].free /\ x[s].next = NULL
        /\ x[s] \in Block(s)
    <3>1. blk[s].size + size \in Sizes
      <4>1. blk[s].size \in Sizes
        BY <1>1, <1>3 DEF Block
      <4> QED
        BY <4>1, SumsAligned
    <3> QED
      BY <1>1, <1>3, <1>10, <2>3, <3>1 DEF Block
  <2>5. EndOf(x, s) = heap_end + size
    BY <1>1, <1>2, <1>3, <2>4 DEF EndOf
  <2>6. \A a \in DOMAIN blk : a # s => EndOf(x, a) = EndOf(blk, a)
    BY <2>2 DEF EndOf
  <2>7. Headers(x)
    BY <1>3, <1>7, <2>2, <2>4 DEF Headers
  <2>8. Joined(x, heap_end + size)
    BY <1>1, <1>5, <1>9, <2>2, <2>4, <2>5, <2>6 DEF Joined
  <2>9. Disjoint(x, heap_end + size)
    BY <1>1, <1>2, <1>3, <1>4, <1>6, <2>2, <2>5, <2>6 DEF Disjoint
  <2>10. \A a \in DOMAIN blk : x[a].free = blk[a].free /\ x[a].size >= blk[a].size
    <3>1. x[s].free = blk[s].free
      BY <1>10, <2>3, <1>1, <1>3 DEF Block
    <3>2. x[s].size >= blk[s].size
      BY <1>1, <1>2, <1>3, <2>4
    <3>3. \A a \in DOMAIN blk : blk[a].size >= blk[a].size
      BY <1>3
    <3> QED
      BY <2>2, <3>1, <3>2, <3>3
  <2>11. x[s].size >= size - HeaderSize
    BY <1>1, <1>2, <1>3, <2>4
  <2> QED
    BY <1>1, <1>2, <2>2, <2>4, <2>7, <2>8, <2>9, <2>10, <2>11 DEF Tiled
<1>11. CASE ~blk[s].free
  <2>1. x = Put(linked, heap_end, header)
    BY <1>8, <1>11
  <2>2. DOMAIN linked = DOMAIN blk /\ \A a \in DOMAIN blk : a # s => linked[a] = blk[a]
    OBVIOUS
  <2>3. linked[s] = [blk[s] EXCEPT !.next = heap_end]
    BY <1>1
  <2>4. heap_end \notin DOMAIN blk /\ heap_end # NULL
    BY <1>2, <1>4 DEF NULL
  <2> HIDE DEF linked, header, s
  <2>5. /\ DOMAIN x = DOMAIN blk \cup {heap_end} /\ x[heap_end] = header
        /\ x[s] = linked[s] /\ \A a \in DOMAIN blk : a # s => x[a] = blk[a]
    BY <1>1, <2>1, <2>2, <2>4 DEF Put
  <2>6. /\ x[s].size = blk[s].size /\ x[s].free = blk[s].free
        /\ x[s].next = heap_end /\ x[s] \in Block(s)
    BY <1>1, <1>2, <1>3, <2>3, <2>5 DEF Block
  <2>7. header \in Block(heap_end) /\ header.free /\ header.next = NULL
        /\ header.size = size - HeaderSize
    BY <1>1, <1>2, <1>3, <1>4 DEF Block, header
  <2>8. EndOf(x, heap_end) = heap_end + size
    BY <1>2, <2>5, <2>7 DEF EndOf
  <2>9. \A a \in DOMAIN blk : EndOf(x, a) = EndOf(blk, a)
    BY <2>5, <2>6 DEF EndOf
  <2>10. Headers(x)
    BY <1>2, <1>3, <1>7, <2>5, <2>6, <2>7 DEF Headers
  <2>11. Joined(x, heap_end + size)
    BY <1>1, <1>5, <1>9, <2>4, <2>5, <2>6, <2>7, <2>8, <2>9 DEF Joined
  <2>12. Disjoint(x, heap_end + size)
    BY <1>2, <1>3, <1>4, <1>6, <2>5, <2>8, <2>9 DEF Disjoint
  <2>13. \A a \in DOMAIN blk : x[a].free = blk[a].free /\ x[a].size >= blk[a].size
    BY <1>1, <1>3, <2>5, <2>6
  <2>14. x[heap_end].size >= size - HeaderSize
    BY <1>2, <2>5, <2>7
  <2> QED
    BY <1>2, <2>5, <2>7, <2>10, <2>11, <2>12, <2>13, <2>14 DEF Tiled
<1> QED
  BY <1>10, <1>11

\* Block p, with what followed it.
LEMMA MergeShape ==
    ASSUME NEW b, NEW e, Tiled(b, e), NEW p \in DOMAIN b, NEW c \in DOMAIN b,
           b[p].next = c, NEW m, m = Merge(b, p, c)
    PROVE  /\ Tiled(m, e) /\ DOMAIN m = DOMAIN b \ {c} /\ p # c
           /\ m[p].next = b[c].next
           /\ \A x \in DOMAIN m : m[x].free = b[x].free /\ m[x].size >= b[x].size
<1> DEFINE after == b[c].next
           grown == [b EXCEPT ![p].size = @ + b[c].size + HeaderSize,
                              ![p].next = after]
           linked == IF after = NULL THEN grown ELSE [grown EXCEPT ![after].prev = p]
<1>1. m = [x \in DOMAIN b \ {c} |-> linked[x]]
  BY DEF Merge, Restrict
<1>2. \A x \in DOMAIN b : /\ x \in Sizes /\ x \in Nat /\ b[x] \in Block(x)
                          /\ b[x].size \in Sizes /\ b[x].size \in Nat
                          /\ EndOf(b, x) \in Nat /\ EndOf(b, x) <= e /\ x < EndOf(b, x)
  BY TiledShape DEF Tiled, Headers, Disjoint, Sizes, Block
<1>3. \A x, y \in DOMAIN b : x < y => EndOf(b, x) <= y
  BY DEF Tiled, Disjoint
<1>4. \A x \in DOMAIN b : IF b[x].next = NULL THEN EndOf(b, x) = e
                          ELSE b[x].next \in DOMAIN b /\ EndOf(b, x) = b[x].next
  BY DEF Tiled, Joined
<1>5. c # NULL /\ p # NULL
  BY NullIsNoBlock
<1>6. EndOf(b, p) = c /\ p < c
  BY <1>2, <1>4, <1>5
<1>7. HeaderSize \in Nat /\ HeaderSize \in Sizes
  BY HeapSizesAssumption, ConstantsAligned
<1>8. after # NULL => after \in DOMAIN b /\ EndOf(b, c) = after /\ c < after
  BY <1>2, <1>4
<1>9. DOMAIN grown = DOMAIN b /\ \A x \in DOMAIN b : x # p => grown[x] = b[x]
  OBVIOUS
<1>10. grown[p] = [b[p] EXCEPT !.size = @ + b[c].size + HeaderSize, !.next = after]
  OBVIOUS
<1> HIDE DEF grown
<1>11. b[p].size + b[c].size + HeaderSize \in Sizes
  BY <1>2, <1>7, SumsAligned
<1>12. /\ grown[p].size = b[p].size + b[c].size + HeaderSize
       /\ grown[p].free = b[p].free /\ grown[p].next = after
       /\ grown[p] \in Block(p)
  <2>1. after \in Nat \cup {NULL}
    BY <1>2, <1>8
  <2> HIDE DEF after
  <2> QED
    BY <1>2, <1>10, <1>11, <2>1 DEF Block
<1>13. DOMAIN linked = DOMAIN b
       /\ \A x \in DOMAIN b : x # after => linked[x] = grown[x]
  BY <1>9
<1>14. after # NULL => linked[after] = [b[after] EXCEPT !.prev = p]
  <2>1. after # NULL => after # p
    BY <1>2, <1>6, <1>8
  <2> QED
    BY <1>8, <1>9, <2>1
<1> HIDE DEF linked
<1>15. after # NULL => /\ linked[after].size = b[after].size
                       /\ linked[after].free = b[after].free
                       /\ linked[after].next = b[after].next
                       /\ linked[after] \in Block(after)
  <2>1. after # NULL => p < after /\ p \in Nat
    BY <1>2, <1>6, <1>8
  <2> HIDE DEF after
  <2> QED
    BY <1>2, <1>8, <1>14, <2>1 DEF Block
<1>16. p # after /\ c # after
  <2>1. CASE after = NULL
    BY <1>5, <2>1
  <2>2. CASE after # NULL
    BY <1>2, <1>6, <1>8, <2>2
  <2> QED
    BY <2>1, <2>2
<1> HIDE DEF after
<1>17. DOMAIN m = DOMAIN b \ {c} /\ p # c /\ \A x \in DOMAIN m : m[x] = linked[x]
  BY <1>1, <1>2, <1>6
<1>18. /\ p \in DOMAIN m /\ m[p].size = b[p].size + b[c].size + HeaderSize
       /\ m[p].free = b[p].free /\ m[p].next = after /\ m[p] \in Block(p)
  BY <1>12, <1>13, <1>16, <1>17
<1>19. \A x \in DOMAIN m : x # p => /\ m[x].size = b[x].size /\ m[x].free = b[x].free
                                    /\ m[x].next = b[x].next /\ m[x] \in Block(x)
  <2>1. ASSUME NEW x \in DOMAIN m, x # p
        PROVE  /\ m[x].size = b[x].size /\ m[x].free = b[x].free
               /\ m[x].next = b[x].next /\ m[x] \in Block(x)
    <3>1. CASE x = after
      BY <1>5, <1>15, <1>17, <2>1, <3>1, NullIsNoBlock
    <3>2. CASE x # after
      BY <1>2, <1>9, <1>13, <1>17, <2>1, <3>2
    <3> QED
      BY <3>1, <3>2
  <2> QED
    BY <2>1
<1>20. Headers(m)
  <2>1. heap_start \in DOMAIN b /\ c # heap_start
    BY <1>2, <1>6 DEF Tiled, Headers, heap_start
  <2> QED
    BY <1>2, <1>17, <1>18, <1>19, <2>1 DEF Headers
<1>21. EndOf(m, p) = EndOf(b, c)
  <2>1. p + HeaderSize + b[p].size = c
    BY <1>6 DEF EndOf
  <2> QED
    BY <1>2, <1>7, <1>18, <2>1 DEF EndOf
<1>22. \A x \in DOMAIN m : x # p => EndOf(m, x) = EndOf(b, x)
  BY <1>19 DEF EndOf
<1>23. Joined(m, e)
  <2>1. ASSUME NEW x \in DOMAIN m
        PROVE  IF m[x].next = NULL THEN EndOf(m, x) = e
               ELSE m[x].next \in DOMAIN m /\ EndOf(m, x) = m[x].next
    <3>1. CASE x = p
      BY <1>4, <1>8, <1>16, <1>17, <1>18, <1>21, <3>1 DEF after
    <3>2. CASE x # p
      <4>1. b[x].next # c
        <5>1. x \in DOMAIN b /\ (b[x].next = c => EndOf(b, x) = EndOf(b, p))
          BY <1>4, <1>5, <1>6, <1>17
        <5>2. EndOf(b, x) # EndOf(b, p)
          <6>1. x < p \/ p < x
            BY <1>2, <3>2, <5>1
          <6> QED
            BY <1>2, <1>3, <5>1, <6>1
        <5> QED
          BY <5>1, <5>2
      <4> QED
        BY <1>4, <1>17, <1>19, <1>22, <3>2, <4>1
    <3> QED
      BY <3>1, <3>2
  <2> QED
    BY <2>1 DEF Joined
<1>24. Disjoint(m, e)
  <2>1. ASSUME NEW x \in DOMAIN m
        PROVE  EndOf(m, x) <= e /\ \A y \in DOMAIN m : x < y => EndOf(m, x) <= y
    <3>1. CASE x = p
      <4>1. \A y \in DOMAIN b : p < y /\ y # c => c < y
        BY <1>2, <1>3, <1>6
      <4> QED
        BY <1>2, <1>3, <1>17, <1>21, <3>1, <4>1
    <3>2. CASE x # p
      BY <1>2, <1>3, <1>17, <1>22, <3>2
    <3> QED
      BY <3>1, <3>2
  <2> QED
    BY <2>1 DEF Disjoint
<1>25. \A x \in DOMAIN m : m[x].free = b[x].free /\ m[x].size >= b[x].size
  BY <1>2, <1>7, <1>17, <1>18, <1>19
<1> QED
  BY <1>17, <1>18, <1>20, <1>23, <1>24, <1>25 DEF Tiled, after

\* What coalesce leaves of a list in which c has just become free, when the prev
\* of c does not lead it astray: no block in use is touched.
LEMMA CoalesceShape ==
    ASSUME NEW b, NEW e, Tiled(b, e), NEW c \in DOMAIN b, b[c].free,
           ~Astray(b, c), NEW k, k = coalesce(b, c)
    PROVE  /\ Tiled(k, e) /\ DOMAIN k \subseteq DOMAIN b
           /\ \A x \in DOMAIN k : k[x].free = b[x].free /\ k[x].size >= b[x].size
           /\ \A x \in DOMAIN b : x \notin DOMAIN k => b[x].free
<1> DEFINE p == b[c].prev
           back == FreeBlock(b, p)
           b1 == IF back THEN Merge(b, p, c) ELSE b
           c1 == IF back THEN p ELSE c
           n == b1[c1].next
<1>1. k = IF FreeBlock(b1, n) THEN Merge(b1, c1, n) ELSE b1
  BY DEF coalesce
<1>2. back => p \in DOMAIN b /\ b[p].free /\ b[p].next = c
  BY DEF Astray, FreeBlock
<1> HIDE DEF p
<1>3. \A x \in DOMAIN b : b[x].size \in Nat
  BY TiledShape
<1>4. /\ Tiled(b1, e) /\ c1 \in DOMAIN b1 /\ DOMAIN b1 \subseteq DOMAIN b
      /\ \A x \in DOMAIN b1 : b1[x].free = b[x].free /\ b1[x].size >= b[x].size
      /\ \A x \in DOMAIN b : x \notin DOMAIN b1 => b[x].free
  <2>1. CASE back
    <3>1. b1 = Merge(b, p, c) /\ c1 = p
      BY <2>1
    <3> HIDE DEF b1, c1, back
    <3>2. p \in DOMAIN b /\ b[p].next = c
      BY <1>2, <2>1
    <3>3. /\ Tiled(b1, e) /\ DOMAIN b1 = DOMAIN b \ {c} /\ p # c
          /\ \A x \in DOMAIN b1 : b1[x].free = b[x].free /\ b1[x].size >= b[x].size
      BY <3>1, <3>2, MergeShape
    <3> QED
      BY <3>1, <3>2, <3>3
  <2>2. CASE ~back
    <3>1. b1 = b /\ c1 = c
      BY <2>2
    <3> HIDE DEF b1, c1, back
    <3>2. \A x \in DOMAIN b : b[x].size >= b[x].size
      BY <1>3
    <3> QED
      BY <3>1, <3>2
  <2> QED
    BY <2>1, <2>2
<1> HIDE DEF b1, c1
<1>5. CASE FreeBlock(b1, n)
  <2>1. n \in DOMAIN b1 /\ b1[n].free /\ k = Merge(b1, c1, n)
    BY <1>1, <1>4, <1>5, TiledShape DEF FreeBlock
  <2>2. b1[c1].next = n
    OBVIOUS
  <2> HIDE DEF n
  <2>3. /\ Tiled(k, e) /\ DOMAIN k = DOMAIN b1 \ {n}
        /\ \A x \in DOMAIN k : k[x].free = b1[x].free /\ k[x].size >= b1[x].size
    <3>1. Tiled(b1, e) /\ c1 \in DOMAIN b1
      BY <1>4
    <3> QED
      BY <2>1, <2>2, <3>1, MergeShape
  <2>4. \A x \in DOMAIN k : k[x].size \in Nat
    BY <2>3, TiledShape
  <2>5. \A x \in DOMAIN b1 : b1[x].size \in Nat
    BY <1>4, TiledShape
  <2>6. \A x \in DOMAIN k : k[x].free = b[x].free /\ k[x].size >= b[x].size
    BY <1>3, <1>4, <2>3, <2>4, <2>5
  <2> QED
    BY <1>4, <2>1, <2>3, <2>6
<1>6. CASE ~FreeBlock(b1, n)
  BY <1>1, <1>4, <1>6
<1> QED
  BY <1>5, <1>6

-----------------------------------------------------------------------------
(* The inductive invariant.                                                *)

\* An object of the shell is a block of list b in use that is large enough for it.
Lives(b, o) ==
    /\ o.at \in DOMAIN b /\ ~b[o.at].free
    /\ o.bytes \in Nat /\ o.bytes <= b[o.at].size

\* The objects of f have blocks of their own.
Separate(f) == \A m, n \in DOMAIN f : f[m].at = f[n].at => m = n

\* Block a belongs to an object of f.
Serves(f, a) == \E n \in DOMAIN f : f[n].at = a

\* The objects of f, with a pointer, and of g, without one, have blocks of their
\* own, and nothing else is in use.
HeldBy(b, f, g) ==
    /\ \A n \in DOMAIN f : Lives(b, f[n])
    /\ \A n \in DOMAIN g : Lives(b, g[n])
    /\ Separate(f) /\ Separate(g)
    /\ \A n \in DOMAIN f : ~Serves(g, f[n].at)
    /\ \A a \in DOMAIN b : ~b[a].free => Serves(f, a) \/ Serves(g, a)

Held == HeldBy(blk, owned, lost)

HeapSound == Tiled(blk, heap_end) /\ Held

LEMMA HeapSoundInit == Init => HeapSound
<1> SUFFICES ASSUME Init PROVE HeapSound
  OBVIOUS
<1> DEFINE header == [size |-> InitSize - HeaderSize, free |-> TRUE,
                      next |-> NULL, prev |-> NULL]
<1>1. /\ DOMAIN blk = {heap_start} /\ blk[heap_start] = header
      /\ heap_end = InitSize /\ DOMAIN owned = {} /\ DOMAIN lost = {}
  BY DEF Init, HeapInit
<1>2. /\ heap_start \in Sizes /\ InitSize \in Sizes /\ InitSize \in Nat
      /\ HeaderSize \in Nat /\ InitSize - HeaderSize \in Sizes
  <2>1. heap_start \in Sizes
    BY DEF heap_start, Sizes, MACHINE_ALIGNMENT
  <2>2. HeaderSize \in Nat /\ InitSize \in Nat /\ InitSize > HeaderSize
    BY HeapSizesAssumption
  <2> QED
    BY <2>1, <2>2, ConstantsAligned, SumsAligned
<1>3. header \in Block(heap_start)
  BY <1>2 DEF Block
<1> HIDE DEF header
<1>4. Headers(blk)
  BY <1>1, <1>2, <1>3 DEF Headers
<1>5. EndOf(blk, heap_start) = heap_end /\ blk[heap_start].next = NULL /\ blk[heap_start].free
  BY <1>1, <1>2 DEF EndOf, header, heap_start
<1>6. Joined(blk, heap_end) /\ Disjoint(blk, heap_end)
  BY <1>1, <1>2, <1>5 DEF Joined, Disjoint, heap_start
<1>7. Held
  BY <1>1, <1>5 DEF Held, HeldBy, Separate
<1> QED
  BY <1>1, <1>2, <1>4, <1>6, <1>7 DEF HeapSound, Tiled

-----------------------------------------------------------------------------
(* The calls.                                                              *)

\* my_malloc gives out a block that was free or that did not exist, and leaves
\* the blocks in use as they are.
LEMMA MallocShape ==
    ASSUME Tiled(blk, heap_end), NEW bytes \in Nat, NEW a, Malloc(bytes, a)
    PROVE  /\ Tiled(blk', heap_end')
           /\ a \in DOMAIN blk' /\ ~blk'[a].free /\ bytes <= blk'[a].size
           /\ a \in DOMAIN blk => blk[a].free
           /\ \A x \in DOMAIN blk : ~blk[x].free =>
                 x \in DOMAIN blk' /\ ~blk'[x].free /\ blk'[x].size >= blk[x].size
           /\ \A x \in DOMAIN blk' : x # a /\ ~blk'[x].free =>
                 x \in DOMAIN blk /\ ~blk[x].free
<1> DEFINE size == align(bytes)
           grow == align(bytes + InitSize)
           longer == extend_heap(blk, grow)
<1>1. size \in Sizes /\ size \in Nat /\ bytes <= size /\ size < bytes + 8
  BY AlignUp DEF Sizes, MACHINE_ALIGNMENT
<1>2. /\ grow \in Sizes /\ grow >= HeaderSize /\ grow - HeaderSize >= size
  <2>1. InitSize \in Nat /\ HeaderSize \in Nat /\ InitSize - HeaderSize >= 8
    BY HeapSizesAssumption, ConstantsAligned
  <2>2. bytes + InitSize \in Nat
    BY <2>1
  <2>3. grow \in Nat /\ grow \in Sizes /\ bytes + InitSize <= grow
    BY <2>2, AlignUp DEF Sizes
  <2> HIDE DEF grow, size
  <2> QED
    BY <1>1, <2>1, <2>3
<1>3. \/ /\ FirstFit(blk, size) # NULL /\ a = FirstFit(blk, size)
         /\ blk' = Take(blk, a, size) /\ heap_end' = heap_end
      \/ /\ FirstFit(blk, size) = NULL /\ a = FirstFit(longer, size)
         /\ blk' = Take(longer, a, size) /\ heap_end' = heap_end + grow
  BY DEF Malloc
<1> HIDE DEF size, grow, longer
<1>4. \A x \in DOMAIN blk : blk[x].size \in Nat
  BY TiledShape
<1>5. PICK b, e : /\ Tiled(b, e) /\ a \in DOMAIN b /\ Fits(b, a, size)
                  /\ blk' = Take(b, a, size) /\ heap_end' = e
                  /\ \A x \in DOMAIN blk : /\ x \in DOMAIN b /\ b[x].free = blk[x].free
                                           /\ b[x].size >= blk[x].size
                  /\ \A x \in DOMAIN b : x \notin DOMAIN blk => b[x].free
  <2>1. CASE FirstFit(blk, size) # NULL
    <3>1. a = FirstFit(blk, size) /\ blk' = Take(blk, a, size) /\ heap_end' = heap_end
      BY <1>3, <2>1
    <3>2. a \in DOMAIN blk /\ Fits(blk, a, size)
      BY <2>1, <3>1, FirstFitWalks
    <3>3. \A x \in DOMAIN blk : blk[x].size >= blk[x].size
      BY <1>4
    <3> QED
      BY <3>1, <3>2, <3>3
  <2>2. CASE FirstFit(blk, size) = NULL
    <3>1. a = FirstFit(longer, size) /\ blk' = Take(longer, a, size)
          /\ heap_end' = heap_end + grow
      BY <1>3, <2>2
    <3>2. /\ Tiled(longer, heap_end + grow)
          /\ \A x \in DOMAIN blk : /\ x \in DOMAIN longer /\ longer[x].free = blk[x].free
                                   /\ longer[x].size >= blk[x].size
          /\ \A x \in DOMAIN longer : x \notin DOMAIN blk => longer[x].free
          /\ \E x \in DOMAIN longer : longer[x].free /\ longer[x].size >= grow - HeaderSize
      BY <1>2, ExtendShape DEF longer
    <3>3. PICK x \in DOMAIN longer : longer[x].free /\ longer[x].size >= grow - HeaderSize
      BY <3>2
    <3>4. Fits(longer, x, size)
      <4>1. longer[x].size \in Nat /\ grow \in Nat /\ HeaderSize \in Nat
        BY <1>2, <3>2, TiledShape, HeapSizesAssumption DEF Sizes
      <4> QED
        BY <1>1, <1>2, <3>3, <4>1 DEF Fits
    <3>5. a \in DOMAIN longer /\ Fits(longer, a, size)
      BY <3>1, <3>2, <3>3, <3>4, FirstFitWalks
    <3> QED
      BY <3>1, <3>2, <3>5
  <2> QED
    BY <2>1, <2>2
<1>6. /\ Tiled(blk', e) /\ DOMAIN b \subseteq DOMAIN blk'
      /\ ~blk'[a].free /\ blk'[a].size >= size
      /\ \A x \in DOMAIN b : x # a => blk'[x] = b[x]
      /\ \A x \in DOMAIN blk' : x \notin DOMAIN b => blk'[x].free
  BY <1>1, <1>5, TakeShape
<1>7. a \in DOMAIN blk' /\ bytes <= blk'[a].size
  <2>1. a \in DOMAIN blk'
    BY <1>5, <1>6
  <2>2. blk'[a].size \in Nat
    BY <1>6, <2>1, TiledShape
  <2> QED
    BY <1>1, <1>6, <2>1, <2>2
<1>8. a \in DOMAIN blk => blk[a].free
  BY <1>5 DEF Fits
<1>9. \A x \in DOMAIN blk : ~blk[x].free =>
         x \in DOMAIN blk' /\ ~blk'[x].free /\ blk'[x].size >= blk[x].size
  BY <1>5, <1>6, <1>8
<1>10. \A x \in DOMAIN blk' : x # a /\ ~blk'[x].free =>
          x \in DOMAIN blk /\ ~blk[x].free
  BY <1>5, <1>6
<1> QED
  BY <1>5, <1>6, <1>7, <1>8, <1>9, <1>10

\* my_free takes block a from those in use, and leaves the others as they are.
LEMMA FreeShape ==
    ASSUME Tiled(blk, heap_end), NEW a \in DOMAIN blk, ~blk[a].free,
           ~Astray(blk, a), Free(a)
    PROVE  /\ Tiled(blk', heap_end')
           /\ \A x \in DOMAIN blk : x # a /\ ~blk[x].free =>
                 x \in DOMAIN blk' /\ ~blk'[x].free /\ blk'[x].size >= blk[x].size
           /\ \A x \in DOMAIN blk' : ~blk'[x].free =>
                 x # a /\ x \in DOMAIN blk /\ ~blk[x].free
<1>1. PICK t \in BOOLEAN : t = TRUE
  OBVIOUS
<1> DEFINE m == Marked(blk, a, t)
<1>2. blk' = coalesce(m, a) /\ heap_end' = heap_end
  BY <1>1 DEF Free, Marked
<1>3. /\ Tiled(m, heap_end) /\ DOMAIN m = DOMAIN blk
      /\ m[a].free = t /\ m[a].size = blk[a].size
      /\ m[a].next = blk[a].next /\ m[a].prev = blk[a].prev
      /\ \A x \in DOMAIN blk : x # a => m[x] = blk[x]
  BY MarkShape
<1> HIDE DEF m
<1>4. ~Astray(m, a)
  <2>1. blk[a].prev # a
    BY TiledShape DEF NULL
  <2> QED
    BY <1>3, <2>1 DEF Astray
<1>5. /\ Tiled(blk', heap_end) /\ DOMAIN blk' \subseteq DOMAIN m
      /\ \A x \in DOMAIN blk' : blk'[x].free = m[x].free /\ blk'[x].size >= m[x].size
      /\ \A x \in DOMAIN m : x \notin DOMAIN blk' => m[x].free
  <2>1. m[a].free /\ a \in DOMAIN m
    BY <1>1, <1>3
  <2> QED
    BY <1>2, <1>3, <1>4, <2>1, CoalesceShape
<1>6. \A x \in DOMAIN blk : x # a /\ ~blk[x].free =>
         x \in DOMAIN blk' /\ ~blk'[x].free /\ blk'[x].size >= blk[x].size
  BY <1>3, <1>5
<1>7. \A x \in DOMAIN blk' : ~blk'[x].free =>
         x # a /\ x \in DOMAIN blk /\ ~blk[x].free
  BY <1>1, <1>3, <1>5
<1> QED
  BY <1>2, <1>5, <1>6, <1>7

\* The list changes from b to c, and the blocks in use of b but block a stay in
\* use and do not shrink.
Keeps(b, c, a) ==
    \A x \in DOMAIN b : x # a /\ ~b[x].free =>
        x \in DOMAIN c /\ ~c[x].free /\ c[x].size >= b[x].size

LEMMA LivesOn ==
    ASSUME NEW b, NEW d, Tiled(b, d), NEW c, NEW e, Tiled(c, e), NEW a, Keeps(b, c, a),
           NEW o, Lives(b, o), o.at # a
    PROVE  Lives(c, o)
<1>1. o.at \in DOMAIN b /\ o.bytes \in Nat /\ o.bytes <= b[o.at].size
  BY DEF Lives
<1>2. o.at \in DOMAIN c /\ ~c[o.at].free /\ c[o.at].size >= b[o.at].size
  BY <1>1 DEF Lives, Keeps
<1>3. b[o.at].size \in Nat /\ c[o.at].size \in Nat
  BY <1>1, <1>2, TiledShape
<1>4. o.bytes <= c[o.at].size
  BY <1>1, <1>2, <1>3
<1> QED
  BY <1>1, <1>2, <1>4 DEF Lives

\* The pointer name is overwritten: what it led to is still the shell's.
LEMMA HeldAfterLoss ==
    ASSUME NEW b, NEW f, NEW g, HeldBy(b, f, g), NEW name \in DOMAIN f,
           NEW k, k \notin DOMAIN g
    PROVE  HeldBy(b, Restrict(f, DOMAIN f \ {name}), Put(g, k, f[name]))
<1> DEFINE p == Restrict(f, DOMAIN f \ {name})
           q == Put(g, k, f[name])
<1>1. /\ DOMAIN p = DOMAIN f \ {name}
      /\ \A n \in DOMAIN p : p[n] = f[n] /\ n \in DOMAIN f /\ n # name
  BY DEF Restrict
<1>2. /\ DOMAIN q = DOMAIN g \cup {k} /\ q[k] = f[name]
      /\ \A n \in DOMAIN g : q[n] = g[n] /\ n # k
  BY DEF Put
<1> HIDE DEF p, q
<1>3. (\A n \in DOMAIN p : Lives(b, p[n])) /\ (\A n \in DOMAIN q : Lives(b, q[n]))
  BY <1>1, <1>2 DEF HeldBy
<1>4. Separate(p)
  BY <1>1 DEF HeldBy, Separate
<1>5. Separate(q)
  BY <1>2 DEF HeldBy, Separate, Serves
<1>6. \A n \in DOMAIN p : ~Serves(q, p[n].at)
  BY <1>1, <1>2 DEF HeldBy, Separate, Serves
<1>7. \A a \in DOMAIN b : ~b[a].free => Serves(p, a) \/ Serves(q, a)
  BY <1>1, <1>2 DEF HeldBy, Serves
<1> QED
  BY <1>3, <1>4, <1>5, <1>6, <1>7 DEF HeldBy, p, q

LEMMA HeldAfterMalloc ==
    ASSUME Tiled(blk, heap_end), NEW f, NEW g, HeldBy(blk, f, g), NEW name,
           name \notin DOMAIN f, NEW bytes \in Nat, NEW a, Malloc(bytes, a)
    PROVE  /\ Tiled(blk', heap_end')
           /\ HeldBy(blk', Put(f, name, [at |-> a, bytes |-> bytes]), g)
<1> DEFINE p == Put(f, name, [at |-> a, bytes |-> bytes])
<1>1. /\ Tiled(blk', heap_end')
      /\ a \in DOMAIN blk' /\ ~blk'[a].free /\ bytes <= blk'[a].size
      /\ a \in DOMAIN blk => blk[a].free
      /\ \A x \in DOMAIN blk : ~blk[x].free =>
            x \in DOMAIN blk' /\ ~blk'[x].free /\ blk'[x].size >= blk[x].size
      /\ \A x \in DOMAIN blk' : x # a /\ ~blk'[x].free =>
            x \in DOMAIN blk /\ ~blk[x].free
  BY MallocShape
<1>2. /\ DOMAIN p = DOMAIN f \cup {name}
      /\ p[name].at = a /\ p[name].bytes = bytes
      /\ \A n \in DOMAIN f : p[n] = f[n] /\ n # name
  BY DEF Put
<1> HIDE DEF p
<1>3. Keeps(blk, blk', a)
  BY <1>1 DEF Keeps
<1>4. /\ \A n \in DOMAIN f : Lives(blk, f[n]) /\ f[n].at # a
      /\ \A n \in DOMAIN g : Lives(blk, g[n]) /\ g[n].at # a
  BY <1>1 DEF HeldBy, Lives
<1>5. /\ \A n \in DOMAIN f : Lives(blk', f[n])
      /\ \A n \in DOMAIN g : Lives(blk', g[n])
  BY <1>1, <1>3, <1>4, LivesOn
<1>6. Lives(blk', p[name])
  BY <1>1, <1>2 DEF Lives
<1>7. \A n \in DOMAIN p : Lives(blk', p[n])
  BY <1>2, <1>5, <1>6
<1>8. Separate(p) /\ Separate(g)
  BY <1>2, <1>4 DEF HeldBy, Separate
<1>9. \A n \in DOMAIN p : ~Serves(g, p[n].at)
  BY <1>2, <1>4 DEF HeldBy, Serves
<1>10. \A x \in DOMAIN blk' : ~blk'[x].free => Serves(p, x) \/ Serves(g, x)
  <2> SUFFICES ASSUME NEW x \in DOMAIN blk', ~blk'[x].free
               PROVE  Serves(p, x) \/ Serves(g, x)
    OBVIOUS
  <2>1. CASE x = a
    BY <1>2, <2>1 DEF Serves
  <2>2. CASE x # a
    <3>1. Serves(f, x) \/ Serves(g, x)
      BY <1>1, <2>2 DEF HeldBy
    <3>2. Serves(f, x) => Serves(p, x)
      BY <1>2 DEF Serves
    <3> QED
      BY <3>1, <3>2
  <2> QED
    BY <2>1, <2>2
<1>11. HeldBy(blk', p, g)
  BY <1>5, <1>7, <1>8, <1>9, <1>10 DEF HeldBy
<1> QED
  BY <1>1, <1>11 DEF p

LEMMA HeldAfterFree ==
    ASSUME Tiled(blk, heap_end), NEW f, NEW g, HeldBy(blk, f, g),
           NEW name \in DOMAIN f, ~Astray(blk, f[name].at), Free(f[name].at)
    PROVE  /\ Tiled(blk', heap_end')
           /\ HeldBy(blk', Restrict(f, DOMAIN f \ {name}), g)
<1> DEFINE a == f[name].at
           p == Restrict(f, DOMAIN f \ {name})
<1>1. a \in DOMAIN blk /\ ~blk[a].free
  BY DEF HeldBy, Lives
<1>2. ~Astray(blk, a) /\ Free(a)
  OBVIOUS
<1>3. /\ DOMAIN p = DOMAIN f \ {name}
      /\ \A n \in DOMAIN p : p[n] = f[n] /\ n \in DOMAIN f
  BY DEF Restrict
<1>4. /\ \A n \in DOMAIN f : f[n].at = a => n = name
      /\ \A n \in DOMAIN g : g[n].at # a
  BY DEF HeldBy, Separate, Serves
<1> HIDE DEF a, p
<1>5. /\ Tiled(blk', heap_end')
      /\ \A x \in DOMAIN blk : x # a /\ ~blk[x].free =>
            x \in DOMAIN blk' /\ ~blk'[x].free /\ blk'[x].size >= blk[x].size
      /\ \A x \in DOMAIN blk' : ~blk'[x].free =>
            x # a /\ x \in DOMAIN blk /\ ~blk[x].free
  BY <1>1, <1>2, FreeShape
<1>6. Keeps(blk, blk', a)
  BY <1>5 DEF Keeps
<1>7. /\ \A n \in DOMAIN p : Lives(blk, f[n]) /\ f[n].at # a
      /\ \A n \in DOMAIN g : Lives(blk, g[n]) /\ g[n].at # a
  BY <1>3, <1>4 DEF HeldBy
<1>8. /\ \A n \in DOMAIN p : Lives(blk', f[n])
      /\ \A n \in DOMAIN g : Lives(blk', g[n])
  BY <1>5, <1>6, <1>7, LivesOn
<1>9. \A n \in DOMAIN p : Lives(blk', p[n])
  BY <1>3, <1>8
<1>10. Separate(p) /\ Separate(g)
  BY <1>3 DEF HeldBy, Separate
<1>11. \A n \in DOMAIN p : ~Serves(g, p[n].at)
  BY <1>3 DEF HeldBy
<1>12. \A x \in DOMAIN blk' : ~blk'[x].free => Serves(p, x) \/ Serves(g, x)
  <2> SUFFICES ASSUME NEW x \in DOMAIN blk', ~blk'[x].free
               PROVE  Serves(p, x) \/ Serves(g, x)
    OBVIOUS
  <2>1. x # a /\ x \in DOMAIN blk /\ ~blk[x].free
    BY <1>5
  <2>2. Serves(f, x) \/ Serves(g, x)
    BY <2>1 DEF HeldBy
  <2>3. Serves(f, x) => Serves(p, x)
    BY <1>3, <2>1 DEF Serves, a
  <2> QED
    BY <2>2, <2>3
<1>13. HeldBy(blk', p, g)
  BY <1>8, <1>9, <1>10, <1>11, <1>12 DEF HeldBy
<1> QED
  BY <1>5, <1>13 DEF p

\* An overwritten pointer's place among the lost ones is free.
LossFits ==
    todo # <<>> /\ Head(todo).op = "malloc" /\ Head(todo).name \in DOMAIN owned
        => next_num - 1 - HistorySize \notin DOMAIN lost

LEMMA HeapSoundStep ==
    ASSUME HeapSound, CallsLegal, LossFits, FreeSound, [Next]_vars
    PROVE  HeapSound'
<1>1. CASE CallMalloc
  <2> DEFINE call == Head(todo)
             name == call.name
             k == next_num - 1 - HistorySize
  <2>1. todo # <<>> /\ call.op = "malloc"
    BY <1>1 DEF CallMalloc
  <2>2. call.bytes \in Nat
    BY <2>1 DEF CallsLegal
  <2>3. PICK a : /\ Malloc(call.bytes, a)
                 /\ owned' = Put(owned, name, [at |-> a, bytes |-> call.bytes])
    BY <1>1 DEF CallMalloc
  <2>4. lost' = IF name \in DOMAIN owned THEN Put(lost, k, owned[name]) ELSE lost
    BY <1>1 DEF CallMalloc
  <2>5. name \in DOMAIN owned => k \notin DOMAIN lost
    BY <2>1 DEF LossFits
  <2>6. Tiled(blk, heap_end) /\ HeldBy(blk, owned, lost)
    BY DEF HeapSound, Held
  <2>7. PICK bytes \in Nat : bytes = call.bytes
    BY <2>2
  <2>8. PICK o : o = [at |-> a, bytes |-> bytes]
    OBVIOUS
  <2> HIDE DEF call, name, k
  <2>9. CASE name \notin DOMAIN owned
    <3>1. Tiled(blk', heap_end') /\ HeldBy(blk', Put(owned, name, [at |-> a, bytes |-> bytes]), lost)
      BY <2>3, <2>6, <2>7, <2>9, HeldAfterMalloc
    <3> QED
      BY <2>3, <2>4, <2>7, <2>9, <3>1 DEF HeapSound, Held
  <2>10. CASE name \in DOMAIN owned
    <3> DEFINE f == Restrict(owned, DOMAIN owned \ {name})
               g == Put(lost, k, owned[name])
    <3>1. HeldBy(blk, f, g)
      BY <2>5, <2>6, <2>10, HeldAfterLoss
    <3>2. name \notin DOMAIN f
      BY DEF Restrict
    <3>3. Put(f, name, o) = Put(owned, name, o)
      <4>1. DOMAIN f \cup {name} = DOMAIN owned \cup {name}
        BY DEF Restrict
      <4>2. \A y \in DOMAIN owned \cup {name} : y # name => f[y] = owned[y]
        BY DEF Restrict
      <4> HIDE DEF f
      <4> QED
        BY <4>1, <4>2 DEF Put
    <3> HIDE DEF f, g
    <3>4. Tiled(blk', heap_end') /\ HeldBy(blk', Put(f, name, [at |-> a, bytes |-> bytes]), g)
      BY <2>3, <2>6, <2>7, <3>1, <3>2, HeldAfterMalloc
    <3>5. lost' = g
      BY <2>4, <2>10 DEF g
    <3> QED
      BY <2>3, <2>7, <2>8, <3>3, <3>4, <3>5 DEF HeapSound, Held
  <2> QED
    BY <2>9, <2>10
<1>2. CASE CallFree
  <2> DEFINE call == Head(todo)
  <2>1. todo # <<>> /\ call.op = "free"
    BY <1>2 DEF CallFree
  <2>2. call.name \in DOMAIN owned
    <3>1. "free" # "malloc"
      OBVIOUS
    <3> QED
      BY <2>1, <3>1 DEF CallsLegal
  <2>3. ~Astray(blk, owned[call.name].at)
    BY <2>1 DEF FreeSound
  <2>4. /\ Free(owned[call.name].at) /\ lost' = lost
        /\ owned' = Restrict(owned, DOMAIN owned \ {call.name})
    BY <1>2 DEF CallFree
  <2>5. Tiled(blk, heap_end) /\ HeldBy(blk, owned, lost)
    BY DEF HeapSound, Held
  <2> HIDE DEF call
  <2>6. /\ Tiled(blk', heap_end')
        /\ HeldBy(blk', Restrict(owned, DOMAIN owned \ {call.name}), lost)
    BY <2>2, <2>3, <2>4, <2>5, HeldAfterFree
  <2> QED
    BY <2>4, <2>6 DEF HeapSound, Held
<1>3. ASSUME UNCHANGED <<heap, owned, lost>> PROVE HeapSound'
  BY <1>3 DEF HeapSound, Held, heap
<1>4. CASE \/ NextVariable \/ LoadDir \/ EndVariable \/ Builtins
           \/ \E l \in Lines : EnterLine(l)
  BY <1>3, <1>4 DEF NextVariable, LoadDir, EndVariable, Builtins, EnterLine, Computes
<1>5. CASE UNCHANGED vars
  BY <1>3, <1>5 DEF vars
<1> QED
  BY <1>1, <1>2, <1>4, <1>5 DEF Next

-----------------------------------------------------------------------------
(* Legal sequences of calls.                                               *)

Kinds == {"hash", "table", "pair", "path", "dirents", "full_path", "tokens",
          "history", "buf", "lexeme", "list", "pipeline", "cmds", "command",
          "argv", "redir"}

Names == {<<s>> : s \in Kinds} \cup (Kinds \X Nat)
         \cup (Kinds \X Nat \X Nat) \cup (Kinds \X Nat \X Nat \X Nat)

Calls == [op : {"malloc", "free"}, name : Names, bytes : Nat]

\* A call that the shell may make when it holds the objects of A leaves it with
\* those of B.
Step(A, call, B) ==
    /\ call.op = "malloc" => call.name \notin A /\ B = A \cup {call.name}
    /\ call.op = "free" => call.name \in A /\ B = A \ {call.name}

\* g has what the shell holds between the calls of s.
Holds(g, s) == \A i \in 1..Len(s) : Step(g[i - 1], s[i], g[i])

\* The calls s lead from A to B.
Legal(A, s, B) ==
    s \in Seq(Calls) /\ \E g : g[0] = A /\ g[Len(s)] = B /\ Holds(g, s)

LEMMA NamesShape ==
    /\ <<"path">> \in Names /\ <<"tokens">> \in Names /\ <<"buf">> \in Names
    /\ <<"dirents">> \in Names /\ <<"full_path">> \in Names
    /\ \A i \in Nat :
          /\ <<"hash", i>> \in Names /\ <<"table", i>> \in Names
          /\ <<"pair", i>> \in Names /\ <<"history", i>> \in Names
          /\ <<"lexeme", i>> \in Names /\ <<"list", i>> \in Names
          /\ <<"pipeline", i>> \in Names
    /\ \A i, j \in Nat : <<"cmds", i, j>> \in Names /\ <<"command", i, j>> \in Names
    /\ \A i, j, k \in Nat : <<"argv", i, j, k>> \in Names
    /\ \A i, j, k \in Nat : <<"redir", i, j, k>> \in Names
<1>1. \A s \in Kinds, i, j, k \in Nat :
          <<s>> \in Names /\ <<s, i>> \in Names /\ <<s, i, j>> \in Names
              /\ <<s, i, j, k>> \in Names
  BY DEF Names
<1>2. "path" \in Kinds
  BY DEF Kinds
<1>3. "tokens" \in Kinds
  BY DEF Kinds
<1>4. "buf" \in Kinds
  BY DEF Kinds
<1>5. "hash" \in Kinds
  BY DEF Kinds
<1>6. "table" \in Kinds
  BY DEF Kinds
<1>7. "pair" \in Kinds
  BY DEF Kinds
<1>8. "dirents" \in Kinds
  BY DEF Kinds
<1>9. "full_path" \in Kinds
  BY DEF Kinds
<1>10. "history" \in Kinds
  BY DEF Kinds
<1>11. "lexeme" \in Kinds
  BY DEF Kinds
<1>12. "list" \in Kinds
  BY DEF Kinds
<1>13. "pipeline" \in Kinds
  BY DEF Kinds
<1>14. "cmds" \in Kinds
  BY DEF Kinds
<1>15. "command" \in Kinds
  BY DEF Kinds
<1>16. "argv" \in Kinds
  BY DEF Kinds
<1>17. "redir" \in Kinds
  BY DEF Kinds
<1> HIDE DEF Kinds
<1>20. 0 \in Nat
  OBVIOUS
<1>21. /\ <<"path">> \in Names /\ <<"tokens">> \in Names /\ <<"buf">> \in Names
       /\ <<"dirents">> \in Names /\ <<"full_path">> \in Names
  BY ONLY <1>1, <1>2, <1>3, <1>4, <1>8, <1>9, <1>20
<1>22. \A i \in Nat :
          /\ <<"hash", i>> \in Names /\ <<"table", i>> \in Names
          /\ <<"pair", i>> \in Names /\ <<"history", i>> \in Names
          /\ <<"lexeme", i>> \in Names /\ <<"list", i>> \in Names
          /\ <<"pipeline", i>> \in Names
  BY ONLY <1>1, <1>5, <1>6, <1>7, <1>10, <1>11, <1>12, <1>13, <1>20
<1>23. \A i, j \in Nat : <<"cmds", i, j>> \in Names /\ <<"command", i, j>> \in Names
  BY ONLY <1>1, <1>14, <1>15, <1>20
<1>24. \A i, j, k \in Nat : <<"argv", i, j, k>> \in Names
  BY ONLY <1>1, <1>16
<1>25. \A i, j, k \in Nat : <<"redir", i, j, k>> \in Names
  BY ONLY <1>1, <1>17
<1> QED
  BY ONLY <1>21, <1>22, <1>23, <1>24, <1>25

LEMMA CallShape ==
    /\ \A n, b : M(n, b).op = "malloc" /\ M(n, b).name = n /\ M(n, b).bytes = b
    /\ \A n : F(n).op = "free" /\ F(n).name = n /\ F(n).bytes = 0
    /\ \A n \in Names : F(n) \in Calls /\ \A b \in Nat : M(n, b) \in Calls
    /\ "malloc" # "free"
BY DEF M, F, Calls

LEMMA LegalEmpty == \A A : Legal(A, <<>>, A)
<1> SUFFICES ASSUME NEW A PROVE Legal(A, <<>>, A)
  OBVIOUS
<1>1. <<>> \in Seq(Calls) /\ Len(<<>>) = 0
  BY EmptySeq
<1> DEFINE g == [i \in {0} |-> A]
<1>2. g[0] = A /\ Holds(g, <<>>)
  BY <1>1 DEF Holds
<1> QED
  BY <1>1, <1>2 DEF Legal

LEMMA ConsShape ==
    ASSUME NEW c \in Calls, NEW s \in Seq(Calls)
    PROVE  Head(<<c>> \o s) = c /\ Tail(<<c>> \o s) = s /\ <<c>> \o s # <<>>
<1> DEFINE t == <<c>>
           u == t \o s
<1>1. t \in Seq(Calls) /\ Len(t) = 1 /\ t[1] = c
  OBVIOUS
<1> HIDE DEF t
<1>2. /\ u \in Seq(Calls) /\ Len(u) = 1 + Len(s) /\ Len(s) \in Nat
      /\ \A i \in 1..1 + Len(s) : u[i] = IF i <= 1 THEN t[i] ELSE s[i - 1]
  <2>1. /\ u \in Seq(Calls) /\ Len(u) = Len(t) + Len(s)
        /\ \A i \in 1..Len(t) + Len(s) : u[i] = IF i <= Len(t) THEN t[i] ELSE s[i - Len(t)]
    BY <1>1, ConcatProperties
  <2>2. Len(s) \in Nat
    BY LenProperties
  <2> HIDE DEF u
  <2> QED
    BY <1>1, <2>1, <2>2
<1> HIDE DEF u
<1>3. u # <<>>
  BY <1>2, EmptySeq
<1>4. Head(u) = c
  BY <1>1, <1>2, <1>3
<1>5. /\ Tail(u) \in Seq(Calls) /\ Len(Tail(u)) = Len(s)
      /\ \A i \in 1..Len(s) : Tail(u)[i] = s[i]
  <2>1. /\ Tail(u) \in Seq(Calls) /\ Len(Tail(u)) = Len(u) - 1
        /\ \A i \in 1..Len(Tail(u)) : Tail(u)[i] = u[i + 1]
    BY <1>2, <1>3, HeadTailProperties
  <2>2. \A i \in 1..Len(s) : i + 1 \in 1..1 + Len(s) /\ ~(i + 1 <= 1) /\ (i + 1) - 1 = i
    BY <1>2
  <2> QED
    BY <1>2, <2>1, <2>2
<1>6. Tail(u) = s
  BY <1>5, SeqEqual
<1> QED
  BY <1>3, <1>4, <1>6 DEF u, t

\* Calls made one by one.
LEMMA LegalMap ==
    ASSUME NEW n \in Nat, NEW s \in [1..n -> Calls], NEW g,
           \A i \in 1..n : Step(g[i - 1], s[i], g[i])
    PROVE  Legal(g[0], s, g[n])
<1>1. s \in Seq(Calls)
  BY FunctionIsSeq
<1>2. Len(s) = n
  BY FunctionIsSeq
<1>3. Holds(g, s)
  BY <1>2 DEF Holds
<1> QED
  BY <1>1, <1>2, <1>3 DEF Legal

\* The steps of my_malloc and my_free.
LEMMA StepMalloc ==
    ASSUME NEW A, NEW n \in Names, n \notin A, NEW b \in Nat
    PROVE  Step(A, M(n, b), A \cup {n}) /\ M(n, b) \in Calls
BY CallShape DEF Step

LEMMA StepFree ==
    ASSUME NEW A, NEW n \in Names, n \in A
    PROVE  Step(A, F(n), A \ {n}) /\ F(n) \in Calls
BY CallShape DEF Step

LEMMA LegalOne ==
    ASSUME NEW A, NEW B, NEW a \in Calls, Step(A, a, B)
    PROVE  Legal(A, <<a>>, B)
<1> DEFINE s == <<a>>
           g == [i \in 0..1 |-> IF i = 0 THEN A ELSE B]
<1>1. s \in [1..1 -> Calls] /\ s[1] = a /\ g[0] = A /\ g[1] = B
  OBVIOUS
<1> HIDE DEF s, g
<1>2. \A i \in 1..1 : Step(g[i - 1], s[i], g[i])
  BY <1>1
<1>3. Legal(g[0], s, g[1])
  BY <1>1, <1>2, LegalMap
<1> QED
  BY <1>1, <1>3 DEF s

LEMMA LegalCat ==
    ASSUME NEW A, NEW B, NEW C, NEW s, NEW t, Legal(A, s, B), Legal(B, t, C)
    PROVE  Legal(A, s \o t, C)
<1>1. PICK g : g[0] = A /\ g[Len(s)] = B /\ Holds(g, s)
  BY DEF Legal
<1>2. PICK h : h[0] = B /\ h[Len(t)] = C /\ Holds(h, t)
  BY DEF Legal
<1>3. /\ s \in Seq(Calls) /\ t \in Seq(Calls) /\ s \o t \in Seq(Calls)
      /\ Len(s) \in Nat /\ Len(t) \in Nat /\ Len(s \o t) = Len(s) + Len(t)
      /\ \A i \in 1..Len(s) + Len(t) :
            (s \o t)[i] = IF i <= Len(s) THEN s[i] ELSE t[i - Len(s)]
  <2>1. s \in Seq(Calls) /\ t \in Seq(Calls)
    BY DEF Legal
  <2> QED
    BY <2>1, ConcatProperties, LenProperties
<1> DEFINE m == Len(s)
           n == Len(t)
           u == s \o t
           f == [i \in 0..m + n |-> IF i <= m THEN g[i] ELSE h[i - m]]
<1>4. ASSUME NEW i \in 1..m + n PROVE Step(f[i - 1], u[i], f[i])
  <2>1. m \in Nat /\ n \in Nat /\ u[i] = IF i <= m THEN s[i] ELSE t[i - m]
    BY <1>3
  <2> HIDE DEF m, n, u
  <2>2. CASE i <= m
    <3>1. i \in 1..m /\ f[i - 1] = g[i - 1] /\ f[i] = g[i] /\ u[i] = s[i]
      BY <2>1, <2>2
    <3> HIDE DEF f
    <3> QED
      BY <1>1, <3>1 DEF Holds, m
  <2>3. CASE i = m + 1
    <3>1. /\ i - m = 1 /\ 1 \in 1..n /\ f[i] = h[1] /\ u[i] = t[1] /\ 1 - 1 = 0
          /\ f[i - 1] = g[m]
      BY <2>1, <2>3
    <3>2. Step(h[1 - 1], t[1], h[1])
      BY <1>2, <3>1 DEF Holds, n
    <3> HIDE DEF f
    <3> QED
      BY <1>1, <1>2, <3>1, <3>2 DEF m
  <2>4. CASE i > m + 1
    <3>1. /\ i - m \in 1..n /\ f[i] = h[i - m] /\ u[i] = t[i - m]
          /\ f[i - 1] = h[(i - m) - 1]
      BY <2>1, <2>4
    <3>2. Step(h[(i - m) - 1], t[i - m], h[i - m])
      BY <1>2, <3>1 DEF Holds, n
    <3> HIDE DEF f
    <3> QED
      BY <3>1, <3>2
  <2> QED
    BY <2>1, <2>2, <2>3, <2>4
<1>5. f[0] = A /\ f[m + n] = C
  <2>1. m \in Nat /\ n \in Nat
    BY <1>3
  <2>2. f[0] = g[0]
    BY <2>1
  <2>3. f[m + n] = IF n = 0 THEN g[m] ELSE h[n]
    BY <2>1
  <2> HIDE DEF f
  <2> QED
    BY <1>1, <1>2, <2>2, <2>3
<1> HIDE DEF f
<1>6. Holds(f, u) /\ Len(u) = m + n
  BY <1>3, <1>4 DEF Holds
<1> QED
  BY <1>3, <1>5, <1>6 DEF Legal

LEMMA LegalTwo ==
    ASSUME NEW A, NEW B, NEW C, NEW a \in Calls, NEW b \in Calls,
           Step(A, a, B), Step(B, b, C)
    PROVE  Legal(A, <<a, b>>, C)
<1> DEFINE s == <<a, b>>
           g == [i \in 0..2 |-> IF i = 0 THEN A ELSE IF i = 1 THEN B ELSE C]
<1>1. /\ s \in [1..2 -> Calls] /\ s[1] = a /\ s[2] = b
      /\ g[0] = A /\ g[1] = B /\ g[2] = C
  OBVIOUS
<1> HIDE DEF s, g
<1>2. \A i \in 1..2 : Step(g[i - 1], s[i], g[i])
  <2>1. \A i \in 1..2 : (i = 1 /\ i - 1 = 0) \/ (i = 2 /\ i - 1 = 1)
    OBVIOUS
  <2> QED
    BY <1>1, <2>1
<1>3. Legal(g[0], s, g[2])
  BY <1>1, <1>2, LegalMap
<1> QED
  BY <1>1, <1>3 DEF s

LEMMA LegalThree ==
    ASSUME NEW A, NEW B, NEW C, NEW D,
           NEW a \in Calls, NEW b \in Calls, NEW c \in Calls,
           Step(A, a, B), Step(B, b, C), Step(C, c, D)
    PROVE  Legal(A, <<a, b, c>>, D)
<1> DEFINE s == <<a, b, c>>
           g == [i \in 0..3 |-> IF i = 0 THEN A ELSE IF i = 1 THEN B
                                ELSE IF i = 2 THEN C ELSE D]
<1>1. /\ s \in [1..3 -> Calls] /\ s[1] = a /\ s[2] = b /\ s[3] = c
      /\ g[0] = A /\ g[1] = B /\ g[2] = C /\ g[3] = D
  OBVIOUS
<1> HIDE DEF s, g
<1>2. \A i \in 1..3 : Step(g[i - 1], s[i], g[i])
  <2>1. \A i \in 1..3 : (i = 1 /\ i - 1 = 0) \/ (i = 2 /\ i - 1 = 1)
                         \/ (i = 3 /\ i - 1 = 2)
    OBVIOUS
  <2> QED
    BY <1>1, <2>1
<1>3. Legal(g[0], s, g[3])
  BY <1>1, <1>2, LegalMap
<1> QED
  BY <1>1, <1>3 DEF s

LEMMA LegalFour ==
    ASSUME NEW A, NEW B, NEW C, NEW D, NEW E,
           NEW a \in Calls, NEW b \in Calls, NEW c \in Calls, NEW d \in Calls,
           Step(A, a, B), Step(B, b, C), Step(C, c, D), Step(D, d, E)
    PROVE  Legal(A, <<a, b, c, d>>, E)
<1> DEFINE s == <<a, b, c, d>>
           g == [i \in 0..4 |-> IF i = 0 THEN A ELSE IF i = 1 THEN B
                                ELSE IF i = 2 THEN C ELSE IF i = 3 THEN D ELSE E]
<1>1. /\ s \in [1..4 -> Calls] /\ s[1] = a /\ s[2] = b /\ s[3] = c /\ s[4] = d
      /\ g[0] = A /\ g[1] = B /\ g[2] = C /\ g[3] = D /\ g[4] = E
  OBVIOUS
<1> HIDE DEF s, g
<1>2. \A i \in 1..4 : Step(g[i - 1], s[i], g[i])
  <2>1. \A i \in 1..4 : (i = 1 /\ i - 1 = 0) \/ (i = 2 /\ i - 1 = 1)
                         \/ (i = 3 /\ i - 1 = 2) \/ (i = 4 /\ i - 1 = 3)
    OBVIOUS
  <2> QED
    BY <1>1, <2>1
<1>3. Legal(g[0], s, g[4])
  BY <1>1, <1>2, LegalMap
<1> QED
  BY <1>1, <1>3 DEF s

\* The first call is legal, and so are the others after it.
LEMMA LegalHead ==
    ASSUME NEW A, NEW B, NEW s, Legal(A, s, B), s # <<>>
    PROVE  /\ Head(s) \in Calls
           /\ \E C : Step(A, Head(s), C) /\ Legal(C, Tail(s), B)
<1>1. s \in Seq(Calls)
  BY DEF Legal
<1>2. PICK g : g[0] = A /\ g[Len(s)] = B /\ Holds(g, s)
  BY DEF Legal
<1>3. /\ Len(s) \in Nat /\ Len(s) # 0 /\ Head(s) = s[1] /\ Head(s) \in Calls
      /\ Tail(s) \in Seq(Calls) /\ Len(Tail(s)) = Len(s) - 1
      /\ \A i \in 1..Len(Tail(s)) : Tail(s)[i] = s[i + 1]
  BY <1>1, HeadTailProperties, LenProperties, EmptySeq
<1> DEFINE n == Len(s)
           h == [i \in 0..n - 1 |-> g[i + 1]]
<1>4. n \in Nat /\ n # 0 /\ Len(Tail(s)) = n - 1
  BY <1>3
<1>5. h[0] = g[1] /\ h[n - 1] = g[n]
  BY <1>4
<1>6. \A i \in 1..n : Step(g[i - 1], s[i], g[i])
  BY <1>2 DEF Holds
<1> HIDE DEF n
<1>7. ASSUME NEW i \in 1..n - 1 PROVE Step(h[i - 1], Tail(s)[i], h[i])
  <2>1. i + 1 \in 1..n /\ (i + 1) - 1 = i /\ Tail(s)[i] = s[i + 1]
    BY <1>3, <1>4
  <2>2. h[i - 1] = g[i] /\ h[i] = g[i + 1]
    BY <1>4
  <2> HIDE DEF h
  <2> QED
    BY <1>6, <2>1, <2>2
<1>8. Step(A, Head(s), g[1])
  <2>1. 1 \in 1..n /\ 1 - 1 = 0
    BY <1>4
  <2> QED
    BY <1>2, <1>3, <1>6, <2>1
<1> HIDE DEF h
<1>9. Legal(g[1], Tail(s), B)
  <2>1. Holds(h, Tail(s)) /\ h[Len(Tail(s))] = B
    BY <1>2, <1>4, <1>5, <1>7 DEF Holds, n
  <2> QED
    BY <1>3, <1>5, <2>1 DEF Legal
<1> QED
  BY <1>3, <1>8, <1>9

\* Sequences of calls made one by one.
LEMMA LegalFlatten ==
    ASSUME NEW n \in Nat, NEW ss, ss = [i \in 1..n |-> ss[i]], NEW h,
           \A i \in 1..n : Legal(h[i - 1], ss[i], h[i])
    PROVE  Legal(h[0], FlattenSeq(ss), h[n])
<1> DEFINE Part(m) == [i \in 1..m |-> ss[i]]
           Bad == {m \in 0..n : ~Legal(h[0], FlattenSeq(Part(m)), h[m])}
<1>1. ASSUME NEW m \in 0..n PROVE Part(m) \in Pieces(Calls, m)
  BY DEF Legal, Pieces
<1>2. ASSUME Bad # {} PROVE FALSE
  <2>1. PICK m \in Bad : \A k \in Bad : m <= k
    <3>1. Bad \in SUBSET Nat
      OBVIOUS
    <3> HIDE DEF Bad
    <3> QED
      BY <1>2, <3>1, LeastNumber
  <2>2. m \in 0..n /\ ~Legal(h[0], FlattenSeq(Part(m)), h[m])
    OBVIOUS
  <2>3. m # 0
    <3>1. ASSUME m = 0 PROVE FlattenSeq(Part(m)) = <<>>
      <4>1. Part(m) \in Pieces(Calls, m)
        BY <1>1, <2>2
      <4> HIDE DEF Part
      <4> QED
        BY <2>2, <3>1, <4>1, Joining DEF Pieces
    <3> HIDE DEF Part
    <3> QED
      BY <2>2, <3>1, LegalEmpty
  <2>4. m - 1 \in 0..n /\ m - 1 \in Nat /\ ~(m <= m - 1) /\ (m - 1) + 1 = m /\ m \in 1..n
    BY <2>2, <2>3
  <2>5. Legal(h[0], FlattenSeq(Part(m - 1)), h[m - 1])
    BY <2>1, <2>4
  <2>6. FlattenSeq(Part(m)) = FlattenSeq(Part(m - 1)) \o ss[m]
    <3>1. Part(m - 1) \in Pieces(Calls, m - 1) /\ Part(m) \in Pieces(Calls, m)
      BY <1>1, <2>2, <2>4
    <3>2. \A i \in 1..m - 1 : Part(m)[i] = Part(m - 1)[i]
      BY <2>4
    <3>3. Part(m)[m] = ss[m]
      BY <2>4
    <3>4. PICK p \in Nat : p = m - 1
      BY <2>4
    <3>5. PICK t : t = Part(m)
      OBVIOUS
    <3>6. PICK s : s = Part(p)
      OBVIOUS
    <3> HIDE DEF Part
    <3>7. m = p + 1 /\ 1..m = 1..p + 1
      BY <2>4, <3>4
    <3>8. /\ s \in Pieces(Calls, p) /\ t \in Pieces(Calls, p + 1)
          /\ \A i \in 1..p : t[i] = s[i]
      BY <3>1, <3>2, <3>4, <3>5, <3>6, <3>7
    <3>9. FlattenSeq(t) = FlattenSeq(s) \o t[p + 1]
      BY <3>8, JoinedGrows
    <3> QED
      BY <3>3, <3>4, <3>5, <3>6, <3>7, <3>9
  <2>7. Legal(h[m - 1], ss[m], h[m])
    BY <2>4
  <2> HIDE DEF Part
  <2>8. Legal(h[0], FlattenSeq(Part(m - 1)) \o ss[m], h[m])
    BY <2>5, <2>7, LegalCat
  <2> QED
    BY <2>2, <2>6, <2>8
<1>3. n \in 0..n /\ Part(n) = ss
  OBVIOUS
<1> HIDE DEF Part
<1> QED
  BY <1>2, <1>3

-----------------------------------------------------------------------------
(* Arrays and tables that grow.                                            *)

LEMMA ElementsShape == \A v \in Nat : Elements[v] \in Nat
<1> DEFINE Body(f) == [v \in Nat |-> IF v = 0 THEN 10 ELSE 2 * f[v - 1]]
           step == [n \in Nat |-> [x \in Nat |-> 2 * x]]
<1>1. PICK f : Recursive(f, Nat, 10, step)
  <2>1. step \in Steps(Nat) /\ 10 \in Nat
    BY DEF Steps
  <2> HIDE DEF step
  <2> QED
    BY <2>1, Recursion
<1>2. f = Body(f)
  <2>1. ASSUME NEW v \in Nat PROVE f[v] = IF v = 0 THEN 10 ELSE 2 * f[v - 1]
    <3>1. v # 0 => f[v - 1] \in Nat
      BY <1>1 DEF Recursive
    <3> QED
      BY <1>1, <3>1 DEF Recursive
  <2> HIDE DEF step
  <2> QED
    BY <1>1, <2>1 DEF Recursive
<1>3. Elements = CHOOSE g : g = Body(g)
  BY DEF Elements
<1>4. Elements = Body(Elements)
  <2> HIDE DEF Body
  <2> QED
    BY <1>2, <1>3
<1> DEFINE S == {v \in Nat : Elements[v] \in Nat}
<1>5. 0 \in S
  BY <1>4
<1>6. ASSUME NEW v \in S PROVE v + 1 \in S
  <2>1. v \in Nat /\ v + 1 \in Nat /\ v + 1 # 0 /\ (v + 1) - 1 = v /\ Elements[v] \in Nat
    OBVIOUS
  <2>2. Elements[v + 1] = 2 * Elements[v]
    BY <1>4, <2>1
  <2> QED
    BY <2>1, <2>2
<1> QED
  <2>1. S \in SUBSET Nat
    OBVIOUS
  <2> HIDE DEF S
  <2>2. \A v \in Nat : v \in S
    BY <1>5, <1>6, <2>1, Induction
  <2> QED
    BY <2>2 DEF S

\* An array is doubled by one element at most.
LEMMA GrownShape ==
    /\ Grown[0] = 0
    /\ \A n \in Nat : Grown[n] \in Nat
    /\ \A n \in Nat \ {0} : Grown[n] = Grown[n - 1] \/ Grown[n] = Grown[n - 1] + 1
<1> DEFINE Body(f) == [n \in Nat |->
                         IF n = 0 THEN 0
                         ELSE IF n > Elements[f[n - 1]] THEN f[n - 1] + 1 ELSE f[n - 1]]
           step == [n \in Nat |-> [x \in Nat |-> IF n > Elements[x] THEN x + 1 ELSE x]]
<1>1. PICK f : Recursive(f, Nat, 0, step)
  <2>1. step \in Steps(Nat) /\ 0 \in Nat
    BY DEF Steps
  <2> HIDE DEF step
  <2> QED
    BY <2>1, Recursion
<1>2. f = Body(f)
  <2>1. ASSUME NEW n \in Nat
        PROVE  f[n] = IF n = 0 THEN 0
                      ELSE IF n > Elements[f[n - 1]] THEN f[n - 1] + 1 ELSE f[n - 1]
    <3>1. n # 0 => f[n - 1] \in Nat
      BY <1>1 DEF Recursive
    <3> QED
      BY <1>1, <3>1 DEF Recursive
  <2> HIDE DEF step
  <2> QED
    BY <1>1, <2>1 DEF Recursive
<1>3. Grown = CHOOSE g : g = Body(g)
  BY DEF Grown
<1>4. Grown = Body(Grown)
  <2> HIDE DEF Body
  <2> QED
    BY <1>2, <1>3
<1>5. /\ Grown[0] = 0
      /\ \A n \in Nat \ {0} : Grown[n] = Grown[n - 1] \/ Grown[n] = Grown[n - 1] + 1
  BY <1>4
<1> DEFINE S == {n \in Nat : Grown[n] \in Nat}
<1> HIDE DEF Body
<1>6. ASSUME NEW n \in S PROVE n + 1 \in S
  <2>1. n + 1 \in Nat \ {0} /\ (n + 1) - 1 = n /\ Grown[n] \in Nat
    OBVIOUS
  <2> QED
    BY <1>5, <2>1
<1>7. \A n \in Nat : Grown[n] \in Nat
  <2>1. S \in SUBSET Nat /\ 0 \in S
    BY <1>5
  <2> HIDE DEF S
  <2>2. \A n \in Nat : n \in S
    BY <1>6, <2>1, Induction
  <2> QED
    BY <2>2 DEF S
<1> QED
  BY <1>5, <1>7

LEMMA TableSizeShape == \A v \in Nat : TableSize[v] \in Nat
<1> DEFINE Body(f) == [v \in Nat |-> IF v = 0 THEN getPrime[10] ELSE getPrime[2 * f[v - 1]]]
           step == [n \in Nat |-> [x \in Nat |-> getPrime[2 * x]]]
<1>1. PICK f : Recursive(f, Nat, getPrime[10], step)
  <2>1. step \in Steps(Nat) /\ getPrime[10] \in Nat
    BY PrimeFound DEF Steps
  <2> HIDE DEF step
  <2> QED
    BY <2>1, Recursion
<1>2. f = Body(f)
  <2>1. ASSUME NEW v \in Nat
        PROVE  f[v] = IF v = 0 THEN getPrime[10] ELSE getPrime[2 * f[v - 1]]
    <3>1. v # 0 => f[v - 1] \in Nat
      BY <1>1 DEF Recursive
    <3> QED
      BY <1>1, <3>1 DEF Recursive
  <2> HIDE DEF step
  <2> QED
    BY <1>1, <2>1 DEF Recursive
<1>3. TableSize = CHOOSE g : g = Body(g)
  BY DEF TableSize
<1>4. TableSize = Body(TableSize)
  <2> HIDE DEF Body
  <2> QED
    BY <1>2, <1>3
<1> DEFINE S == {v \in Nat : TableSize[v] \in Nat}
<1>5. 0 \in S
  BY <1>4, PrimeFound
<1>6. ASSUME NEW v \in S PROVE v + 1 \in S
  <2>1. v \in Nat /\ v + 1 \in Nat /\ v + 1 # 0 /\ (v + 1) - 1 = v /\ TableSize[v] \in Nat
    OBVIOUS
  <2>2. TableSize[v + 1] = getPrime[2 * TableSize[v]] /\ 2 * TableSize[v] \in Nat
    BY <1>4, <2>1
  <2> QED
    BY <2>1, <2>2, PrimeFound
<1> QED
  <2>1. S \in SUBSET Nat
    OBVIOUS
  <2> HIDE DEF S
  <2>2. \A v \in Nat : v \in S
    BY <1>5, <1>6, <2>1, Induction
  <2> QED
    BY <2>2 DEF S

\* An insertion makes one rehash at most.
LEMMA RehashesShape ==
    /\ Rehashes[0] = 0
    /\ \A k \in Nat : Rehashes[k] \in Nat
    /\ \A k \in Nat \ {0} : \/ Rehashes[k] = Rehashes[k - 1]
                            \/ Rehashes[k] = Rehashes[k - 1] + 1
<1> DEFINE Body(f) == [k \in Nat |->
                         IF k = 0 THEN 0
                         ELSE IF 10 * k > 7 * TableSize[f[k - 1]] THEN f[k - 1] + 1
                              ELSE f[k - 1]]
           step == [k \in Nat |-> [x \in Nat |->
                         IF 10 * k > 7 * TableSize[x] THEN x + 1 ELSE x]]
<1>1. PICK f : Recursive(f, Nat, 0, step)
  <2>1. step \in Steps(Nat) /\ 0 \in Nat
    BY DEF Steps
  <2> HIDE DEF step
  <2> QED
    BY <2>1, Recursion
<1>2. f = Body(f)
  <2>1. ASSUME NEW k \in Nat
        PROVE  f[k] = IF k = 0 THEN 0
                      ELSE IF 10 * k > 7 * TableSize[f[k - 1]] THEN f[k - 1] + 1
                           ELSE f[k - 1]
    <3>1. k # 0 => f[k - 1] \in Nat
      BY <1>1 DEF Recursive
    <3> QED
      BY <1>1, <3>1 DEF Recursive
  <2> HIDE DEF step
  <2> QED
    BY <1>1, <2>1 DEF Recursive
<1>3. Rehashes = CHOOSE g : g = Body(g)
  BY DEF Rehashes
<1>4. Rehashes = Body(Rehashes)
  <2> HIDE DEF Body
  <2> QED
    BY <1>2, <1>3
<1>5. /\ Rehashes[0] = 0
      /\ \A k \in Nat \ {0} : Rehashes[k] = Rehashes[k - 1] \/ Rehashes[k] = Rehashes[k - 1] + 1
  BY <1>4
<1> DEFINE S == {n \in Nat : Rehashes[n] \in Nat}
<1> HIDE DEF Body
<1>6. ASSUME NEW n \in S PROVE n + 1 \in S
  <2>1. n + 1 \in Nat \ {0} /\ (n + 1) - 1 = n /\ Rehashes[n] \in Nat
    OBVIOUS
  <2> QED
    BY <1>5, <2>1
<1>7. \A n \in Nat : Rehashes[n] \in Nat
  <2>1. S \in SUBSET Nat /\ 0 \in S
    BY <1>5
  <2> HIDE DEF S
  <2>2. \A n \in Nat : n \in S
    BY <1>6, <2>1, Induction
  <2> QED
    BY <2>2 DEF S
<1> QED
  BY <1>5, <1>7

-----------------------------------------------------------------------------
(* Several objects at once.                                                *)

\* Different names.
Distinct(x, n) ==
    /\ \A i \in 1..n : x[i] \in Names
    /\ \A i, j \in 1..n : x[i] = x[j] => i = j

Objects(x, n) == {x[i] : i \in 1..n}
Fresh(x, n, A) == \A i \in 1..n : x[i] \notin A
Bytes(b, n) == \A i \in 1..n : b[i] \in Nat

Mallocs(x, b, n) == [i \in 1..n |-> M(x[i], b[i])]
Frees(x, n) == [i \in 1..n |-> F(x[i])]

LEMMA LegalMallocs ==
    ASSUME NEW n \in Nat, NEW A, NEW x, Distinct(x, n), Fresh(x, n, A),
           NEW b, Bytes(b, n)
    PROVE  Legal(A, Mallocs(x, b, n), A \cup Objects(x, n))
<1> DEFINE s == Mallocs(x, b, n)
<1> DEFINE g == [i \in 0..n |-> A \cup {x[k] : k \in 1..i}]
<1>1. ASSUME NEW i \in 1..n
      PROVE  s[i] \in Calls /\ Step(g[i - 1], s[i], g[i])
  <2>1. g[i] = g[i - 1] \cup {x[i]}
    <3>1. i - 1 \in 0..n /\ i \in 0..n /\ 1..i = (1..i - 1) \cup {i}
      OBVIOUS
    <3> QED
      BY <3>1
  <2>2. x[i] \notin g[i - 1]
    <3>1. i - 1 \in 0..n /\ \A k \in 1..i - 1 : k \in 1..n /\ k # i
      OBVIOUS
    <3>2. \A k \in 1..i - 1 : x[k] # x[i]
      BY <3>1 DEF Distinct
    <3> QED
      BY <3>1, <3>2 DEF Fresh
  <2>3. x[i] \in Names /\ b[i] \in Nat /\ s[i] = M(x[i], b[i])
    BY DEF Distinct, Bytes, Mallocs
  <2> HIDE DEF g, s
  <2>4. M(x[i], b[i]) \in Calls /\ Step(g[i - 1], M(x[i], b[i]), g[i - 1] \cup {x[i]})
    BY ONLY <2>2, <2>3, StepMalloc
  <2> QED
    BY <2>1, <2>3, <2>4
<1>2. g[0] = A /\ g[n] = A \cup Objects(x, n)
  BY DEF Objects
<1>3. s \in [1..n -> Calls]
  BY <1>1 DEF Mallocs
<1> HIDE DEF g
<1>4. Legal(g[0], s, g[n])
  BY <1>1, <1>3, LegalMap
<1> QED
  BY <1>2, <1>4

LEMMA LegalFrees ==
    ASSUME NEW n \in Nat, NEW A, NEW x, Distinct(x, n), Fresh(x, n, A)
    PROVE  Legal(A \cup Objects(x, n), Frees(x, n), A)
<1> DEFINE s == Frees(x, n)
<1> DEFINE g == [i \in 0..n |-> A \cup {x[k] : k \in i + 1..n}]
<1>1. ASSUME NEW i \in 1..n
      PROVE  s[i] \in Calls /\ Step(g[i - 1], s[i], g[i])
  <2>1. g[i - 1] = g[i] \cup {x[i]}
    <3>1. i - 1 \in 0..n /\ i \in 0..n /\ (i - 1) + 1..n = (i + 1..n) \cup {i}
      OBVIOUS
    <3> QED
      BY <3>1
  <2>2. x[i] \notin g[i]
    <3>1. i \in 0..n /\ \A k \in i + 1..n : k \in 1..n /\ k # i
      OBVIOUS
    <3>2. \A k \in i + 1..n : x[k] # x[i]
      BY <3>1 DEF Distinct
    <3> QED
      BY <3>1, <3>2 DEF Fresh
  <2>3. x[i] \in Names /\ s[i] = F(x[i])
    BY DEF Distinct, Frees
  <2> HIDE DEF g, s
  <2>4. x[i] \in g[i - 1] /\ g[i] = g[i - 1] \ {x[i]}
    BY <2>1, <2>2
  <2>5. F(x[i]) \in Calls /\ Step(g[i - 1], F(x[i]), g[i - 1] \ {x[i]})
    BY ONLY <2>3, <2>4, StepFree
  <2> QED
    BY <2>3, <2>4, <2>5
<1>2. g[0] = A \cup Objects(x, n) /\ g[n] = A
  BY DEF Objects
<1>3. s \in [1..n -> Calls]
  BY <1>1 DEF Frees
<1> HIDE DEF g
<1>4. Legal(g[0], s, g[n])
  BY <1>1, <1>3, LegalMap
<1> QED
  BY <1>2, <1>4

-----------------------------------------------------------------------------
(* The tokens of a line.                                                   *)

LEMMA FlattenTyped ==
    ASSUME NEW S, NEW s \in Seq(Seq(S))
    PROVE  FlattenSeq(s) \in Seq(S)
<1>1. PICK n \in Nat : n = Len(s)
  BY LenProperties
<1>2. s \in [1..n -> Seq(S)]
  BY <1>1, LenProperties
<1> QED
  BY <1>2, Joining

Command == [words : Seq(Nat), redirs : Seq(Nat)]

LEMMA LineShape ==
    ASSUME NEW l \in Lines
    PROVE  /\ l.len \in Nat /\ l.list \in Seq(Seq(Command)) /\ Len(l.list) \in Nat \ {0}
           /\ l.trail \in BOOLEAN
           /\ \A j \in 1..Len(l.list) : l.list[j] \in Seq(Command)
<1>1. l \in Line /\ Len(l.list) > 0
  BY ShellHeapAssumption
<1>2. l.len \in 1..511 /\ l.list \in Seq(Seq(Command)) /\ l.trail \in BOOLEAN
  BY <1>1 DEF Line, Command
<1>3. Len(l.list) \in Nat
  BY <1>2, LenProperties
<1>4. \A j \in 1..Len(l.list) : l.list[j] \in Seq(Command)
  BY <1>2, ElementOfSeq
<1>5. l.len \in Nat
  <2>1. \A n \in 1..511 : n \in Nat
    OBVIOUS
  <2>2. l.len \in 1..511
    BY <1>2
  <2> QED
    BY ONLY <2>1, <2>2
<1>6. Len(l.list) # 0
  BY <1>1, <1>3
<1> QED
  BY <1>2, <1>3, <1>4, <1>5, <1>6

LEMMA LexemesShape ==
    ASSUME NEW l \in Lines
    PROVE  Lexemes(l) \in Seq(Nat)
<1> DEFINE words(j) == [k \in DOMAIN l.list[j] |-> l.list[j][k].words \o l.list[j][k].redirs]
           flat == [j \in DOMAIN l.list |-> FlattenSeq(words(j))]
<1>1. l.list \in Seq(Seq(Command))
  BY LineShape
<1>2. ASSUME NEW j \in DOMAIN l.list PROVE FlattenSeq(words(j)) \in Seq(Nat)
  <2>1. l.list[j] \in Seq(Command)
    BY <1>1
  <2>2. ASSUME NEW k \in DOMAIN l.list[j]
        PROVE  l.list[j][k].words \o l.list[j][k].redirs \in Seq(Nat)
    <3>1. l.list[j][k] \in Command
      BY <2>1
    <3>2. l.list[j][k].words \in Seq(Nat) /\ l.list[j][k].redirs \in Seq(Nat)
      BY <3>1 DEF Command
    <3> QED
      BY <3>2, ConcatProperties
  <2>3. DOMAIN l.list[j] = 1..Len(l.list[j]) /\ Len(l.list[j]) \in Nat
    BY <2>1, LenProperties
  <2>4. words(j) \in [1..Len(l.list[j]) -> Seq(Nat)]
    BY <2>2, <2>3
  <2> HIDE DEF words
  <2>5. words(j) \in Seq(Seq(Nat))
    BY <2>3, <2>4, SeqDef
  <2> QED
    BY <2>5, FlattenTyped
<1>3. DOMAIN l.list = 1..Len(l.list) /\ Len(l.list) \in Nat
  BY <1>1, LenProperties
<1>4. flat \in [1..Len(l.list) -> Seq(Nat)]
  <2> HIDE DEF words
  <2> QED
    BY <1>2, <1>3
<1>5. Lexemes(l) = FlattenSeq(flat)
  BY DEF Lexemes
<1> HIDE DEF flat
<1>6. flat \in Seq(Seq(Nat))
  BY <1>3, <1>4, SeqDef
<1> QED
  BY <1>5, <1>6, FlattenTyped

WordNames == [i \in Nat |-> <<"lexeme", i>>]
Words(l) == Objects(WordNames, Len(Lexemes(l)))

LEMMA WordsShape ==
    ASSUME NEW l \in Lines
    PROVE  /\ Len(Lexemes(l)) \in Nat /\ DOMAIN Lexemes(l) = 1..Len(Lexemes(l))
           /\ \A w \in 1..Len(Lexemes(l)) : Lexemes(l)[w] \in Nat
           /\ Distinct(WordNames, Len(Lexemes(l)))
           /\ \A i \in Nat : WordNames[i] = <<"lexeme", i>> /\ WordNames[i][1] = "lexeme"
           /\ \A x \in Words(l) : x[1] = "lexeme"
<1>1. Lexemes(l) \in Seq(Nat)
  BY LexemesShape
<1>2. Len(Lexemes(l)) \in Nat /\ DOMAIN Lexemes(l) = 1..Len(Lexemes(l))
  BY <1>1, LenProperties
<1>3. \A w \in 1..Len(Lexemes(l)) : Lexemes(l)[w] \in Nat
  BY <1>1, <1>2
<1>4. \A i \in Nat : WordNames[i] = <<"lexeme", i>> /\ WordNames[i][1] = "lexeme"
  BY DEF WordNames
<1>5. \A i \in Nat : WordNames[i] \in Names
  <2>1. \A i \in Nat : <<"lexeme", i>> \in Names
    BY ONLY NamesShape
  <2>2. ASSUME NEW i \in Nat PROVE WordNames[i] = <<"lexeme", i>>
    BY DEF WordNames
  <2> QED
    BY ONLY <2>1, <2>2
<1>6. \A i, j \in Nat : WordNames[i] = WordNames[j] => i = j
  BY DEF WordNames
<1>7. Distinct(WordNames, Len(Lexemes(l)))
  BY <1>2, <1>5, <1>6 DEF Distinct
<1>8. \A x \in Words(l) : x[1] = "lexeme"
  BY <1>2, <1>4 DEF Words, Objects
<1> QED
  BY <1>2, <1>3, <1>4, <1>7, <1>8

\* tokenize leaves a copy of each word.
LEMMA TokenizeLegal ==
    ASSUME NEW l \in Lines, NEW A, \A x \in A : x[1] \notin {"buf", "lexeme"}
    PROVE  Legal(A, tokenize(l), A \cup Words(l))
<1> DEFINE n == Len(Lexemes(l))
           buf == <<"buf">>
           A1 == A \cup {buf}
           b == [i \in Nat |-> Lexemes(l)[i] + 1]
           s == Mallocs(WordNames, b, n)
<1>1. n \in Nat /\ Distinct(WordNames, n)
  BY WordsShape
<1>2. buf \in Names /\ buf \notin A /\ buf \notin Words(l)
  <2>1. buf \in Names
    BY ONLY NamesShape
  <2>2. buf[1] = "buf"
    OBVIOUS
  <2> HIDE DEF buf
  <2> QED
    BY <2>1, <2>2, WordsShape
<1>3. Fresh(WordNames, n, A1)
  <2>1. buf[1] = "buf"
    OBVIOUS
  <2>2. \A i \in 1..n : WordNames[i][1] = "lexeme"
    BY <1>1, WordsShape
  <2> HIDE DEF buf
  <2> QED
    BY <2>1, <2>2 DEF Fresh
<1>4. Bytes(b, n)
  BY WordsShape DEF Bytes
<1>5. [w \in DOMAIN Lexemes(l) |-> M(<<"lexeme", w>>, Lexemes(l)[w] + 1)] = s
  <2>1. DOMAIN Lexemes(l) = 1..n
    BY WordsShape
  <2>2. \A w \in 1..n : WordNames[w] = <<"lexeme", w>> /\ b[w] = Lexemes(l)[w] + 1
    BY <1>1, WordsShape
  <2> HIDE DEF n, b
  <2> QED
    BY <2>1, <2>2 DEF Mallocs
<1>6. tokenize(l) = (<< M(buf, 258) >> \o s) \o << F(buf) >>
  <2> HIDE DEF s
  <2> QED
    BY <1>5 DEF tokenize
<1> HIDE DEF n, buf, b
<1>7. Legal(A, << M(buf, 258) >>, A1)
  BY <1>2, StepMalloc, LegalOne
<1>8. Legal(A1, s, A1 \cup Words(l))
  <2> HIDE DEF A1
  <2>1. Legal(A1, s, A1 \cup Objects(WordNames, n))
    BY <1>1, <1>3, <1>4, LegalMallocs
  <2> QED
    BY <2>1 DEF Words, n
<1>9. Legal(A1 \cup Words(l), << F(buf) >>, A \cup Words(l))
  <2>1. buf \in A1 \cup Words(l) /\ (A1 \cup Words(l)) \ {buf} = A \cup Words(l)
    BY <1>2
  <2> HIDE DEF A1
  <2> QED
    BY <1>2, <2>1, StepFree, LegalOne
<1> HIDE DEF A1, s
<1>10. Legal(A, << M(buf, 258) >> \o s, A1 \cup Words(l))
  BY <1>7, <1>8, LegalCat
<1>11. Legal(A, (<< M(buf, 258) >> \o s) \o << F(buf) >>, A \cup Words(l))
  BY <1>9, <1>10, LegalCat
<1> QED
  BY <1>6, <1>11

LEMMA FreeTokensLegal ==
    ASSUME NEW l \in Lines, NEW A, \A x \in A : x[1] # "lexeme"
    PROVE  Legal(A \cup Words(l), free_tokens(l), A)
<1> DEFINE n == Len(Lexemes(l))
<1>1. n \in Nat /\ Distinct(WordNames, n) /\ DOMAIN Lexemes(l) = 1..n
  BY WordsShape
<1>2. \A w \in 1..n : WordNames[w] = <<"lexeme", w>> /\ WordNames[w][1] = "lexeme"
  BY <1>1, WordsShape
<1> HIDE DEF n
<1>3. free_tokens(l) = Frees(WordNames, n)
  BY <1>1, <1>2 DEF free_tokens, Frees
<1>4. Fresh(WordNames, n, A)
  BY <1>2 DEF Fresh
<1>5. Legal(A \cup Objects(WordNames, n), Frees(WordNames, n), A)
  BY <1>1, <1>4, LegalFrees
<1> QED
  BY <1>3, <1>5 DEF Words, n

-----------------------------------------------------------------------------
(* The tree of a line: a command.                                          *)

\* An object takes the place of another.
LEMMA LegalMove ==
    ASSUME NEW A, NEW x \in Names, NEW y \in Names, x # y, x \notin A, y \notin A,
           NEW b \in Nat
    PROVE  Legal(A \cup {x}, << M(y, b), F(x) >>, A \cup {y})
<1> DEFINE A1 == A \cup {x}
           A2 == A1 \cup {y}
<1>1. y \notin A1 /\ x \in A2 /\ A2 \ {x} = A \cup {y}
  OBVIOUS
<1> HIDE DEF A1, A2
<1>2. Step(A1, M(y, b), A1 \cup {y}) /\ M(y, b) \in Calls
  BY <1>1, StepMalloc
<1>3. Step(A2, F(x), A2 \ {x}) /\ F(x) \in Calls
  BY <1>1, StepFree
<1>4. A1 \cup {y} = A2
  BY DEF A2
<1>5. Legal(A1, << M(y, b), F(x) >>, A2 \ {x})
  BY <1>2, <1>3, <1>4, LegalTwo
<1> QED
  BY <1>1, <1>5 DEF A1

\* An array that is doubled n times.
LEMMA LegalGrows ==
    ASSUME NEW A, NEW n \in Nat, NEW a, NEW b,
           \A v \in Nat : a[v] \in Names /\ a[v] \notin A /\ b[v] \in Nat,
           \A v, w \in Nat : a[v] = a[w] => v = w
    PROVE  Legal(A \cup {a[0]},
                 FlattenSeq([v \in 1..n |-> << M(a[v], b[v]), F(a[v - 1]) >>]),
                 A \cup {a[n]})
<1> DEFINE ss == [v \in 1..n |-> << M(a[v], b[v]), F(a[v - 1]) >>]
           h == [v \in Nat |-> A \cup {a[v]}]
<1>1. ASSUME NEW v \in 1..n PROVE Legal(h[v - 1], ss[v], h[v])
  <2>1. v \in Nat /\ v - 1 \in Nat /\ v # v - 1
    OBVIOUS
  <2>2. PICK p \in Nat : p = v - 1
    BY <2>1
  <2>3. a[p] # a[v]
    BY <2>1, <2>2
  <2>4. Legal(A \cup {a[p]}, << M(a[v], b[v]), F(a[p]) >>, A \cup {a[v]})
    BY <2>1, <2>3, LegalMove
  <2> QED
    BY <2>1, <2>2, <2>4
<1>2. ss = [v \in 1..n |-> ss[v]]
  OBVIOUS
<1>3. h[0] = A \cup {a[0]} /\ h[n] = A \cup {a[n]}
  OBVIOUS
<1> HIDE DEF ss, h
<1>4. Legal(h[0], FlattenSeq(ss), h[n])
  BY <1>1, <1>2, LegalFlatten
<1> QED
  BY <1>3, <1>4 DEF ss

\* The names of a command's arrays of words, and of its redirections.
ArgvNames(j, k) == [v \in Nat |-> <<"argv", j, k, v>>]
RedirNames(j, k) == [r \in Nat |-> <<"redir", j, k, r>>]

LEMMA CommandNames ==
    ASSUME NEW j \in Nat, NEW k \in Nat
    PROVE  /\ \A v \in Nat : /\ ArgvNames(j, k)[v] = <<"argv", j, k, v>>
                             /\ ArgvNames(j, k)[v] \in Names
           /\ \A v, w \in Nat : ArgvNames(j, k)[v] = ArgvNames(j, k)[w] => v = w
           /\ \A v \in Nat : /\ RedirNames(j, k)[v] = <<"redir", j, k, v>>
                             /\ RedirNames(j, k)[v] \in Names
           /\ \A v, w \in Nat : RedirNames(j, k)[v] = RedirNames(j, k)[w] => v = w
<1>1. \A v \in Nat : ArgvNames(j, k)[v] = <<"argv", j, k, v>>
  BY DEF ArgvNames
<1>2. \A v \in Nat : RedirNames(j, k)[v] = <<"redir", j, k, v>>
  BY DEF RedirNames
<1>3. \A v \in Nat : ArgvNames(j, k)[v] \in Names
  BY <1>1, NamesShape
<1>4. \A v \in Nat : RedirNames(j, k)[v] \in Names
  BY <1>2, NamesShape
<1>5. \A v, w \in Nat : ArgvNames(j, k)[v] = ArgvNames(j, k)[w] => v = w
  BY <1>1
<1>6. \A v, w \in Nat : RedirNames(j, k)[v] = RedirNames(j, k)[w] => v = w
  BY <1>2
<1> QED
  BY <1>1, <1>2, <1>3, <1>4, <1>5, <1>6

\* The objects of A are not those of command k of pipeline j.
NoCommand(A, j, k) ==
    /\ <<"command", j, k>> \notin A
    /\ \A v \in Nat : <<"argv", j, k, v>> \notin A
    /\ \A r \in Nat : <<"redir", j, k, r>> \notin A

CommandHeld(j, k, c) ==
    {<<"command", j, k>>} \cup {<<"argv", j, k, Grown[Len(c.words)]>>}
        \cup Objects(RedirNames(j, k), Len(c.redirs))

LEMMA GetWordsLegal ==
    ASSUME NEW A, NEW j \in Nat, NEW k \in Nat, NEW n \in Nat,
           \A v \in Nat : <<"argv", j, k, v>> \notin A
    PROVE  Legal(A, get_words(j, k, n), A \cup {<<"argv", j, k, Grown[n]>>})
<1> DEFINE a == ArgvNames(j, k)
           b == [v \in Nat |-> (Elements[v] + 1) * PointerSize]
           m == Grown[n]
           ss == [v \in 1..m |-> << M(a[v], b[v]), F(a[v - 1]) >>]
           tt == [v \in 1..m |-> << M(<<"argv", j, k, v>>, (Elements[v] + 1) * PointerSize),
                                    F(<<"argv", j, k, v - 1>>) >>]
<1>1. m \in Nat
  BY GrownShape
<1>2. \A v \in Nat : b[v] \in Nat /\ b[v] = (Elements[v] + 1) * PointerSize
  <2>1. \A v \in Nat : (Elements[v] + 1) * 8 \in Nat
    BY ElementsShape
  <2> QED
    BY <2>1 DEF PointerSize
<1> HIDE DEF m
<1>3. tt = ss
  <2>1. \A v \in 1..m : v \in Nat /\ v - 1 \in Nat
    BY <1>1
  <2>2. \A v \in Nat : a[v] = <<"argv", j, k, v>>
    BY CommandNames
  <2> HIDE DEF a, b
  <2> QED
    BY <1>2, <2>1, <2>2
<1>4. \A v \in Nat : a[v] \in Names /\ a[v] \notin A /\ b[v] \in Nat
  <2>1. \A v \in Nat : a[v] = <<"argv", j, k, v>> /\ a[v] \in Names
    BY CommandNames
  <2> HIDE DEF a, b
  <2>2. ASSUME NEW v \in Nat PROVE a[v] \notin A
    BY <2>1
  <2> QED
    BY <1>2, <2>1, <2>2
<1>5. \A v, w \in Nat : a[v] = a[w] => v = w
  BY CommandNames
<1>6. /\ a[0] = <<"argv", j, k, 0>> /\ a[m] = <<"argv", j, k, m>>
      /\ b[0] = (Elements[0] + 1) * PointerSize
  BY <1>1, <1>2, CommandNames
<1> HIDE DEF a, b
<1>7. Legal(A, << M(a[0], b[0]) >>, A \cup {a[0]})
  BY <1>4, StepMalloc, LegalOne
<1>8. Legal(A \cup {a[0]}, FlattenSeq(ss), A \cup {a[m]})
  BY <1>1, <1>4, <1>5, LegalGrows
<1>9. get_words(j, k, n) = << M(a[0], b[0]) >> \o FlattenSeq(ss)
  <2>1. get_words(j, k, n) = << M(<<"argv", j, k, 0>>, (Elements[0] + 1) * PointerSize) >>
                                \o FlattenSeq(tt)
    BY DEF get_words, m
  <2> HIDE DEF ss, tt
  <2> QED
    BY <1>3, <1>6, <2>1
<1> HIDE DEF ss, tt
<1>10. Legal(A, << M(a[0], b[0]) >> \o FlattenSeq(ss), A \cup {a[m]})
  BY <1>7, <1>8, LegalCat
<1> QED
  BY <1>6, <1>9, <1>10 DEF m

LEMMA ParseCommandLegal ==
    ASSUME NEW A, NEW j \in Nat, NEW k \in Nat, NEW c \in Command, NoCommand(A, j, k)
    PROVE  Legal(A, parse_command(j, k, c), A \cup CommandHeld(j, k, c))
<1> DEFINE x == RedirNames(j, k)
           b == [r \in Nat |-> RedirectionSize]
           n == Len(c.redirs)
           w == Len(c.words)
           com == <<"command", j, k>>
           arg == <<"argv", j, k, Grown[w]>>
           A1 == A \cup {com}
           A2 == A1 \cup {arg}
<1>1. n \in Nat /\ w \in Nat /\ DOMAIN c.redirs = 1..n
  <2>1. c.words \in Seq(Nat) /\ c.redirs \in Seq(Nat)
    BY DEF Command
  <2> QED
    BY <2>1, LenProperties
<1>2. com \in Names /\ com \notin A
  BY NamesShape DEF NoCommand
<1>3. \A v \in Nat : <<"argv", j, k, v>> \notin A1
  BY DEF NoCommand
<1>4. \A r \in Nat : x[r] = <<"redir", j, k, r>> /\ x[r] \in Names
  BY CommandNames
<1>5. Distinct(x, n)
  <2>1. \A r, s \in Nat : x[r] = x[s] => r = s
    BY CommandNames
  <2> HIDE DEF x, n
  <2> QED
    BY <1>1, <1>4, <2>1 DEF Distinct
<1>6. Fresh(x, n, A2)
  <2>1. \A r \in Nat : <<"redir", j, k, r>> \notin A2
    BY DEF NoCommand
  <2> HIDE DEF A2, x, n
  <2>2. ASSUME NEW i \in 1..n PROVE x[i] \notin A2
    <3>1. i \in Nat
      BY <1>1
    <3>2. x[i] = <<"redir", j, k, i>> /\ <<"redir", j, k, i>> \notin A2
      BY <1>4, <2>1, <3>1
    <3> QED
      BY ONLY <3>2
  <2> QED
    BY <2>2 DEF Fresh
<1>7. Bytes(b, n)
  BY <1>1 DEF Bytes, RedirectionSize
<1>8. [r \in DOMAIN c.redirs |-> M(<<"redir", j, k, r>>, RedirectionSize)] = Mallocs(x, b, n)
  <2>1. \A r \in 1..n : r \in Nat
    BY <1>1
  <2>2. \A r \in Nat : b[r] = RedirectionSize
    OBVIOUS
  <2> HIDE DEF x, n, b
  <2>3. ASSUME NEW r \in 1..n
        PROVE  M(<<"redir", j, k, r>>, RedirectionSize) = M(x[r], b[r])
    BY <1>4, <2>1, <2>2
  <2> QED
    BY <1>1, <2>3 DEF Mallocs
<1>9. parse_command(j, k, c) = (<< M(com, AstSize) >> \o get_words(j, k, w)) \o Mallocs(x, b, n)
  <2> HIDE DEF x, b, n
  <2> QED
    BY <1>8 DEF parse_command
<1> HIDE DEF x, b, n, w, com
<1>10. Legal(A, << M(com, AstSize) >>, A1)
  <2>1. AstSize \in Nat
    BY DEF AstSize
  <2> QED
    BY <1>2, <2>1, StepMalloc, LegalOne
<1> HIDE DEF A1
<1>11. Legal(A1, get_words(j, k, w), A2)
  BY <1>1, <1>3, GetWordsLegal
<1> HIDE DEF A2
<1>12. Legal(A2, Mallocs(x, b, n), A2 \cup Objects(x, n))
  BY <1>1, <1>5, <1>6, <1>7, LegalMallocs
<1>13. Legal(A, << M(com, AstSize) >> \o get_words(j, k, w), A2)
  BY <1>10, <1>11, LegalCat
<1>14. Legal(A, (<< M(com, AstSize) >> \o get_words(j, k, w)) \o Mallocs(x, b, n),
             A2 \cup Objects(x, n))
  BY <1>12, <1>13, LegalCat
<1>15. A2 \cup Objects(x, n) = A \cup CommandHeld(j, k, c)
  BY DEF A2, A1, CommandHeld, com, w, x, n
<1> QED
  BY <1>9, <1>14, <1>15

LEMMA FreeCommandLegal ==
    ASSUME NEW A, NEW j \in Nat, NEW k \in Nat, NEW c \in Command, NoCommand(A, j, k)
    PROVE  Legal(A \cup CommandHeld(j, k, c), free_command(j, k, c), A)
<1> DEFINE x == RedirNames(j, k)
           n == Len(c.redirs)
           y == [i \in 1..n |-> x[n + 1 - i]]
           w == Len(c.words)
           com == <<"command", j, k>>
           arg == <<"argv", j, k, Grown[w]>>
           A1 == A \cup {com}
           R == Objects(x, n)
           A2 == A1 \cup R
<1>1. n \in Nat /\ w \in Nat /\ DOMAIN c.redirs = 1..n
  <2>1. c.words \in Seq(Nat) /\ c.redirs \in Seq(Nat)
    BY DEF Command
  <2> QED
    BY <2>1, LenProperties
<1>2. com \in Names /\ com \notin A
  BY NamesShape DEF NoCommand
<1>3. Grown[w] \in Nat
  BY <1>1, GrownShape
<1>4. \A r \in Nat : x[r] = <<"redir", j, k, r>> /\ x[r] \in Names
  BY CommandNames
<1>5. arg \in Names /\ arg \notin A2
  <2>1. arg \in Names
    BY <1>3, NamesShape
  <2>2. arg \notin A1
    BY <1>3 DEF NoCommand
  <2>3. \A r \in Nat : arg # <<"redir", j, k, r>>
    OBVIOUS
  <2> HIDE DEF arg, A1, x, n
  <2>4. ASSUME arg \in R PROVE FALSE
    <3>1. PICK r \in 1..n : arg = x[r]
      BY <2>4 DEF Objects
    <3>2. r \in Nat
      BY <1>1
    <3>3. x[r] = <<"redir", j, k, r>> /\ arg # <<"redir", j, k, r>>
      BY <1>4, <2>3, <3>2
    <3> QED
      BY ONLY <3>1, <3>3
  <2> QED
    BY <2>1, <2>2, <2>4
<1>6. \A i \in 1..n : n + 1 - i \in 1..n /\ n + 1 - (n + 1 - i) = i
  BY <1>1
<1>7. Distinct(y, n) /\ Fresh(y, n, A1) /\ Objects(y, n) = R
  <2>1. \A r, s \in Nat : x[r] = x[s] => r = s
    BY CommandNames
  <2>2. \A i \in 1..n : y[i] = x[n + 1 - i]
    OBVIOUS
  <2>3. \A r \in Nat : <<"redir", j, k, r>> \notin A1
    BY DEF NoCommand
  <2> HIDE DEF x, n, y, A1
  <2>4. \A r \in 1..n : r \in Nat
    BY <1>1
  <2>5. Distinct(y, n)
    <3>1. ASSUME NEW i \in 1..n, NEW h \in 1..n, y[i] = y[h] PROVE i = h
      <4>1. n + 1 - i = n + 1 - h
        BY <1>6, <2>1, <2>2, <2>4, <3>1
      <4> QED
        BY <1>6, <4>1
    <3>2. \A i \in 1..n : y[i] \in Names
      BY <1>4, <1>6, <2>2, <2>4
    <3> QED
      BY <3>1, <3>2 DEF Distinct
  <2>6. Fresh(y, n, A1)
    BY <1>4, <1>6, <2>2, <2>3, <2>4 DEF Fresh
  <2>7. Objects(y, n) = Objects(x, n)
    <3>1. ASSUME NEW i \in 1..n PROVE x[i] \in Objects(y, n)
      <4>1. y[n + 1 - i] = x[i] /\ n + 1 - i \in 1..n
        BY <1>6, <2>2
      <4> QED
        BY <4>1 DEF Objects
    <3>2. ASSUME NEW i \in 1..n PROVE y[i] \in Objects(x, n)
      BY <1>6, <2>2 DEF Objects
    <3>3. Objects(x, n) \subseteq Objects(y, n)
      BY <3>1 DEF Objects
    <3>4. Objects(y, n) \subseteq Objects(x, n)
      BY <3>2 DEF Objects
    <3> QED
      BY ONLY <3>3, <3>4
  <2> QED
    BY <2>5, <2>6, <2>7
<1>8. Reverse([r \in DOMAIN c.redirs |-> F(<<"redir", j, k, r>>)]) = Frees(y, n)
  <2> DEFINE s == [r \in 1..n |-> F(<<"redir", j, k, r>>)]
  <2>1. Len(s) = n
    BY <1>1, FunctionIsSeq
  <2>2. Reverse(s) = [i \in 1..n |-> s[n - i + 1]]
    BY <2>1 DEF Reverse
  <2>3. \A i \in 1..n : n - i + 1 = n + 1 - i /\ n - i + 1 \in 1..n /\ n + 1 - i \in Nat
    BY <1>1
  <2>4. \A i \in 1..n : s[n - i + 1] = F(<<"redir", j, k, n + 1 - i>>)
    BY <2>3
  <2>5. \A i \in 1..n : y[i] = <<"redir", j, k, n + 1 - i>>
    BY <1>4, <2>3
  <2> HIDE DEF s, y, n
  <2>6. Reverse(s) = Frees(y, n)
    BY <2>2, <2>4, <2>5 DEF Frees
  <2> QED
    BY <1>1, <2>6 DEF s
<1>9. free_command(j, k, c) = (<< F(arg) >> \o Frees(y, n)) \o << F(com) >>
  <2> HIDE DEF x, n, y
  <2> QED
    BY <1>8 DEF free_command
<1>10. /\ (A2 \cup {arg}) \ {arg} = A2 /\ A \cup CommandHeld(j, k, c) = A2 \cup {arg}
       /\ A1 \ {com} = A /\ com \in A1
  <2>1. A \cup CommandHeld(j, k, c) = A2 \cup {arg}
    BY DEF CommandHeld
  <2> HIDE DEF com, arg, R
  <2> QED
    BY <1>2, <1>5, <2>1
<1> HIDE DEF x, n, y, w, com, arg, A1, R
<1>11. Legal(A2 \cup {arg}, << F(arg) >>, A2)
  <2>1. arg \in A2 \cup {arg}
    OBVIOUS
  <2> HIDE DEF A2
  <2>2. Step(A2 \cup {arg}, F(arg), (A2 \cup {arg}) \ {arg}) /\ F(arg) \in Calls
    BY <1>5, <2>1, StepFree
  <2> QED
    BY <1>10, <2>2, LegalOne
<1>12. Legal(A2, Frees(y, n), A1)
  BY <1>1, <1>7, LegalFrees
<1>13. Legal(A1, << F(com) >>, A)
  <2>1. Step(A1, F(com), A1 \ {com}) /\ F(com) \in Calls
    BY <1>2, <1>10, StepFree
  <2> QED
    BY <1>10, <2>1, LegalOne
<1> HIDE DEF A2
<1>14. Legal(A2 \cup {arg}, << F(arg) >> \o Frees(y, n), A1)
  BY <1>11, <1>12, LegalCat
<1>15. Legal(A2 \cup {arg}, (<< F(arg) >> \o Frees(y, n)) \o << F(com) >>, A)
  BY <1>13, <1>14, LegalCat
<1> QED
  BY <1>9, <1>10, <1>15

-----------------------------------------------------------------------------
(* A pipeline.                                                             *)

OfCommand == {"command", "argv", "redir"}

LEMMA CommandHeldNames ==
    ASSUME NEW j \in Nat, NEW k \in Nat, NEW c \in Command,
           NEW x \in CommandHeld(j, k, c)
    PROVE  x[1] \in OfCommand /\ x[2] = j /\ x[3] = k
<1>1. Len(c.redirs) \in Nat
  <2>1. c.redirs \in Seq(Nat)
    BY DEF Command
  <2> QED
    BY <2>1, LenProperties
<1>2. CASE x = <<"command", j, k>>
  BY <1>2 DEF OfCommand
<1>3. CASE x = <<"argv", j, k, Grown[Len(c.words)]>>
  BY <1>3 DEF OfCommand
<1>4. CASE x \in Objects(RedirNames(j, k), Len(c.redirs))
  <2>1. PICK r \in 1..Len(c.redirs) : x = RedirNames(j, k)[r]
    BY <1>4 DEF Objects
  <2>2. r \in Nat
    BY <1>1
  <2>3. x = <<"redir", j, k, r>>
    BY <2>1, <2>2, CommandNames
  <2> QED
    BY <2>3 DEF OfCommand
<1> QED
  BY <1>2, <1>3, <1>4 DEF CommandHeld

\* Objects of other commands.
LEMMA OtherCommand ==
    ASSUME NEW j \in Nat, NEW k \in Nat, NEW B,
           \A x \in B : x[1] \in OfCommand /\ x[2] = j => x[3] # k
    PROVE  NoCommand(B, j, k)
<1>1. <<"command", j, k>> \notin B
  <2> DEFINE y == <<"command", j, k>>
  <2>1. y[1] \in OfCommand /\ y[2] = j /\ y[3] = k
    BY DEF OfCommand
  <2> HIDE DEF y
  <2>2. y \notin B
    BY <2>1
  <2> QED
    BY <2>2 DEF y
<1>2. ASSUME NEW v \in Nat PROVE <<"argv", j, k, v>> \notin B
  <2> DEFINE y == <<"argv", j, k, v>>
  <2>1. y[1] \in OfCommand /\ y[2] = j /\ y[3] = k
    BY DEF OfCommand
  <2> HIDE DEF y
  <2>2. y \notin B
    BY <2>1
  <2> QED
    BY <2>2 DEF y
<1>3. ASSUME NEW v \in Nat PROVE <<"redir", j, k, v>> \notin B
  <2> DEFINE y == <<"redir", j, k, v>>
  <2>1. y[1] \in OfCommand /\ y[2] = j /\ y[3] = k
    BY DEF OfCommand
  <2> HIDE DEF y
  <2>2. y \notin B
    BY <2>1
  <2> QED
    BY <2>2 DEF y
<1> QED
  BY <1>1, <1>2, <1>3 DEF NoCommand

LEMMA NoCommandCup ==
    ASSUME NEW A, NEW B, NEW j, NEW k, NoCommand(A, j, k), NoCommand(B, j, k)
    PROVE  NoCommand(A \cup B, j, k)
BY DEF NoCommand

\* What the commands from lo to hi hold.
CommandsHeld(j, pl, lo, hi) == UNION {CommandHeld(j, k, pl[k]) : k \in lo..hi}

LEMMA CommandsHeldNames ==
    ASSUME NEW j \in Nat, NEW pl \in Seq(Command), NEW lo \in 1..Len(pl) + 1,
           NEW hi \in 0..Len(pl), NEW x \in CommandsHeld(j, pl, lo, hi)
    PROVE  x[1] \in OfCommand /\ x[2] = j /\ x[3] \in lo..hi
<1>1. PICK k \in lo..hi : x \in CommandHeld(j, k, pl[k])
  BY DEF CommandsHeld
<1>2. Len(pl) \in Nat
  BY LenProperties
<1>3. k \in Nat /\ k \in 1..Len(pl)
  BY <1>2
<1>4. pl[k] \in Command
  BY <1>3, ElementOfSeq
<1>5. x[1] \in OfCommand /\ x[2] = j /\ x[3] = k
  BY <1>1, <1>3, <1>4, CommandHeldNames
<1> QED
  BY <1>5

LEMMA CommandsHeldNone ==
    ASSUME NEW j \in Nat, NEW pl \in Seq(Command), NEW lo \in 1..Len(pl) + 1,
           NEW hi \in 0..Len(pl), NEW k \in Nat, k \notin lo..hi
    PROVE  NoCommand(CommandsHeld(j, pl, lo, hi), j, k)
<1>1. ASSUME NEW x \in CommandsHeld(j, pl, lo, hi) PROVE x[3] # k
  BY CommandsHeldNames
<1> QED
  BY <1>1, OtherCommand

LEMMA CommandsHeldEmpty ==
    ASSUME NEW j, NEW pl, NEW lo \in Nat, NEW hi \in Nat, lo > hi
    PROVE  CommandsHeld(j, pl, lo, hi) = {}
<1>1. lo..hi = {}
  OBVIOUS
<1> QED
  BY <1>1 DEF CommandsHeld

LEMMA CommandsHeldLast ==
    ASSUME NEW j, NEW pl, NEW lo \in Nat, NEW hi \in Nat, lo <= hi + 1
    PROVE  CommandsHeld(j, pl, lo, hi + 1)
           = CommandsHeld(j, pl, lo, hi) \cup CommandHeld(j, hi + 1, pl[hi + 1])
<1>1. lo..hi + 1 = (lo..hi) \cup {hi + 1}
  OBVIOUS
<1> QED
  BY <1>1 DEF CommandsHeld

LEMMA CommandsHeldFirst ==
    ASSUME NEW j, NEW pl, NEW lo \in Nat, NEW hi \in Nat, lo <= hi
    PROVE  CommandsHeld(j, pl, lo, hi)
           = CommandsHeld(j, pl, lo + 1, hi) \cup CommandHeld(j, lo, pl[lo])
<1>1. lo..hi = (lo + 1..hi) \cup {lo}
  OBVIOUS
<1> QED
  BY <1>1 DEF CommandsHeld

\* The objects of A are not those of pipeline j.
NoPipeline(A, j) ==
    /\ <<"pipeline", j>> \notin A
    /\ \A v \in Nat : <<"cmds", j, v>> \notin A
    /\ \A k \in Nat : NoCommand(A, j, k)

PipelineHeld(j, pl) ==
    {<<"pipeline", j>>} \cup CommandsHeld(j, pl, 1, Len(pl))
        \cup {<<"cmds", j, Grown[Len(pl)]>>}

\* The array of the commands, which may have been doubled for the k-th one.
LEMMA ResizeLegal ==
    ASSUME NEW A, NEW j \in Nat, NEW k \in Nat \ {0}, \A v \in Nat : <<"cmds", j, v>> \notin A
    PROVE  Legal(A \cup {<<"cmds", j, Grown[k - 1]>>},
                 IF Grown[k] > Grown[k - 1] THEN resize_cmd_array(j, Grown[k]) ELSE <<>>,
                 A \cup {<<"cmds", j, Grown[k]>>})
<1>1. /\ Grown[k] \in Nat /\ Grown[k - 1] \in Nat
      /\ Grown[k] = Grown[k - 1] \/ Grown[k] = Grown[k - 1] + 1
  <2>1. k \in Nat /\ k - 1 \in Nat
    OBVIOUS
  <2> QED
    BY <2>1, GrownShape
<1>2. CASE Grown[k] = Grown[k - 1]
  <2>1. ~(Grown[k] > Grown[k - 1])
    BY <1>1, <1>2
  <2> QED
    BY <1>2, <2>1, LegalEmpty
<1>3. CASE Grown[k] = Grown[k - 1] + 1
  <2>1. PICK v \in Nat : v = Grown[k]
    BY <1>1
  <2>2. PICK u \in Nat : u = Grown[k - 1]
    BY <1>1
  <2>3. v > u /\ u = v - 1 /\ u # v
    BY <1>3, <2>1, <2>2
  <2> DEFINE x == <<"cmds", j, u>>
             y == <<"cmds", j, v>>
  <2>4. x \in Names /\ y \in Names
    BY NamesShape
  <2>5. x # y /\ x \notin A /\ y \notin A
    BY <2>3
  <2>6. Elements[v] * PointerSize \in Nat
    <3>1. Elements[v] * 8 \in Nat
      BY ElementsShape
    <3> QED
      BY <3>1 DEF PointerSize
  <2>7. resize_cmd_array(j, v) = << M(y, Elements[v] * PointerSize), F(x) >>
    BY <2>3 DEF resize_cmd_array
  <2> HIDE DEF x, y
  <2>8. Legal(A \cup {x}, << M(y, Elements[v] * PointerSize), F(x) >>, A \cup {y})
    BY <2>4, <2>5, <2>6, LegalMove
  <2> QED
    BY <2>1, <2>2, <2>3, <2>7, <2>8 DEF x, y
<1> QED
  BY <1>1, <1>2, <1>3

LEMMA ParsePipelineLegal ==
    ASSUME NEW A, NEW j \in Nat, NEW pl \in Seq(Command), NoPipeline(A, j)
    PROVE  Legal(A, parse_pipeline(j, pl), A \cup PipelineHeld(j, pl))
<1> DEFINE n == Len(pl)
           pip == <<"pipeline", j>>
           A1 == A \cup {pip}
           cmd(v) == <<"cmds", j, v>>
           cc(k) == CommandsHeld(j, pl, 1, k)
           h == [k \in 0..n |-> (A1 \cup cc(k)) \cup {cmd(Grown[k])}]
           rs(k) == IF Grown[k] > Grown[k - 1] THEN resize_cmd_array(j, Grown[k]) ELSE <<>>
           ss == [k \in 1..n |-> rs(k) \o parse_command(j, k, pl[k])]
<1>1. n \in Nat /\ DOMAIN pl = 1..n
  BY LenProperties
<1>2. pip \in Names /\ pip \notin A /\ \A v \in Nat : cmd(v) \in Names
  BY NamesShape DEF NoPipeline
<1>3. \A v \in Nat : cmd(v) \notin A1
  BY DEF NoPipeline
<1>4. \A k \in Nat : NoCommand(A1, j, k)
  BY DEF NoPipeline, NoCommand
<1>5. ASSUME NEW k \in 1..n PROVE Legal(h[k - 1], ss[k], h[k])
  <2>1. k \in Nat \ {0} /\ k - 1 \in 0..n /\ k \in 0..n /\ k \in 1..n /\ k - 1 \in Nat
    BY <1>1
  <2>2. pl[k] \in Command
    BY <1>1, ElementOfSeq
  <2> DEFINE B == A1 \cup cc(k - 1)
             x == cmd(Grown[k])
             held == CommandHeld(j, k, pl[k])
  <2>3. \A v \in Nat : cmd(v) \notin B
    <3>1. ASSUME NEW v \in Nat, cmd(v) \in cc(k - 1) PROVE FALSE
      <4> DEFINE y == cmd(v)
      <4>1. y[1] = "cmds"
        OBVIOUS
      <4> HIDE DEF y
      <4>2. y \in CommandsHeld(j, pl, 1, k - 1)
        BY <3>1 DEF y
      <4>3. 1 \in 1..n + 1 /\ k - 1 \in 0..n
        BY <1>1, <2>1
      <4> HIDE DEF n
      <4>4. y[1] \in OfCommand
        BY <4>2, <4>3, CommandsHeldNames DEF n
      <4> QED
        BY <4>1, <4>4 DEF OfCommand
    <3> HIDE DEF A1, cmd, cc
    <3> QED
      BY <1>3, <3>1
  <2>4. NoCommand(B \cup {x}, j, k)
    <3>1. NoCommand(cc(k - 1), j, k)
      <4>1. 1 \in 1..n + 1 /\ k - 1 \in 0..n /\ k \notin 1..k - 1 /\ k \in Nat
        BY <1>1, <2>1
      <4> QED
        BY <4>1, CommandsHeldNone
    <3>2. NoCommand({x}, j, k)
      BY DEF NoCommand
    <3> HIDE DEF A1, cc, x
    <3> QED
      BY <1>4, <2>1, <3>1, <3>2, NoCommandCup
  <2>5. cc(k) = cc(k - 1) \cup held
    <3>1. PICK i \in Nat : i = k - 1
      BY <2>1
    <3>2. 1 <= i + 1 /\ i + 1 = k /\ 1 \in Nat
      BY <3>1
    <3>3. CommandsHeld(j, pl, 1, i + 1)
          = CommandsHeld(j, pl, 1, i) \cup CommandHeld(j, i + 1, pl[i + 1])
      BY ONLY <3>2, i \in Nat, CommandsHeldLast
    <3> QED
      BY <3>1, <3>2, <3>3
  <2>6. h[k - 1] = B \cup {cmd(Grown[k - 1])} /\ h[k] = (B \cup {x}) \cup held
    <3>1. /\ h[k - 1] = (A1 \cup cc(k - 1)) \cup {cmd(Grown[k - 1])}
          /\ h[k] = (A1 \cup cc(k)) \cup {cmd(Grown[k])}
      BY <2>1
    <3> HIDE DEF h, A1, cc, cmd, held
    <3> QED
      BY <2>5, <3>1
  <2>7. Legal(B \cup {cmd(Grown[k - 1])}, rs(k), B \cup {x})
    <3>1. \A v \in Nat : <<"cmds", j, v>> \notin B
      BY <2>3
    <3> HIDE DEF B
    <3> QED
      BY <2>1, <3>1, ResizeLegal
  <2> HIDE DEF B, x
  <2>8. Legal(B \cup {x}, parse_command(j, k, pl[k]), (B \cup {x}) \cup held)
    BY <2>1, <2>2, <2>4, ParseCommandLegal
  <2>9. ss[k] = rs(k) \o parse_command(j, k, pl[k])
    OBVIOUS
  <2> HIDE DEF h, ss, rs, cmd, held
  <2> QED
    BY <2>6, <2>7, <2>8, <2>9, LegalCat
<1>6. ss = [k \in 1..n |-> ss[k]]
  OBVIOUS
<1>7. h[0] = A1 \cup {cmd(0)} /\ h[n] = A \cup PipelineHeld(j, pl)
  <2>1. 0 \in 0..n /\ n \in 0..n /\ 1 > 0
    BY <1>1
  <2>2. cc(0) = {}
    <3>1. 1 > 0 /\ 1 \in Nat /\ 0 \in Nat
      OBVIOUS
    <3>2. CommandsHeld(j, pl, 1, 0) = {}
      BY ONLY <3>1, CommandsHeldEmpty
    <3> QED
      BY <3>2
  <2>3. h[0] = (A1 \cup cc(0)) \cup {cmd(Grown[0])} /\ h[n] = (A1 \cup cc(n)) \cup {cmd(Grown[n])}
    BY <2>1
  <2> HIDE DEF h
  <2> QED
    BY <2>2, <2>3, GrownShape DEF PipelineHeld
<1> HIDE DEF h, ss
<1>8. Legal(h[0], FlattenSeq(ss), h[n])
  BY <1>1, <1>5, <1>6, LegalFlatten
<1>9. Legal(A, << M(pip, AstSize), M(cmd(0), Elements[0] * PointerSize) >>, A1 \cup {cmd(0)})
  <2>1. AstSize \in Nat /\ Elements[0] * PointerSize \in Nat
    <3>1. Elements[0] * 8 \in Nat
      BY ElementsShape
    <3> QED
      BY <3>1 DEF PointerSize, AstSize
  <2>2. cmd(0) \in Names /\ cmd(0) \notin A1
    BY <1>2, <1>3
  <2> HIDE DEF pip, cmd
  <2>3. Step(A, M(pip, AstSize), A \cup {pip}) /\ M(pip, AstSize) \in Calls
    BY <1>2, <2>1, StepMalloc
  <2> HIDE DEF A1
  <2>4. /\ Step(A1, M(cmd(0), Elements[0] * PointerSize), A1 \cup {cmd(0)})
        /\ M(cmd(0), Elements[0] * PointerSize) \in Calls
    BY <2>1, <2>2, StepMalloc
  <2>5. A \cup {pip} = A1
    BY DEF A1
  <2> QED
    BY <2>3, <2>4, <2>5, LegalTwo
<1>10. parse_pipeline(j, pl)
       = << M(pip, AstSize), M(cmd(0), Elements[0] * PointerSize) >> \o FlattenSeq(ss)
  BY <1>1 DEF parse_pipeline, ss
<1> HIDE DEF pip, cmd, A1
<1> QED
  BY <1>7, <1>8, <1>9, <1>10, LegalCat

LEMMA FreePipelineLegal ==
    ASSUME NEW A, NEW j \in Nat, NEW pl \in Seq(Command), NoPipeline(A, j)
    PROVE  Legal(A \cup PipelineHeld(j, pl), free_pipeline(j, pl), A)
<1> DEFINE n == Len(pl)
           pip == <<"pipeline", j>>
           cmd == <<"cmds", j, Grown[n]>>
           A1 == A \cup {pip}
           A2 == A1 \cup {cmd}
           cc(k) == CommandsHeld(j, pl, k + 1, n)
           h == [k \in 0..n |-> A2 \cup cc(k)]
           ss == [k \in 1..n |-> free_command(j, k, pl[k])]
<1>1. n \in Nat /\ DOMAIN pl = 1..n
  BY LenProperties
<1>2. pip \in Names /\ pip \notin A
  BY NamesShape DEF NoPipeline
<1>3. cmd \in Names /\ cmd \notin A1
  <2>1. Grown[n] \in Nat
    BY <1>1, GrownShape
  <2> HIDE DEF n
  <2> QED
    BY <2>1, NamesShape DEF NoPipeline
<1>4. \A k \in Nat : NoCommand(A2, j, k)
  <2> HIDE DEF n
  <2> QED
    BY DEF NoPipeline, NoCommand
<1>5. ASSUME NEW k \in 1..n PROVE Legal(h[k - 1], ss[k], h[k])
  <2>1. k \in Nat /\ k - 1 \in 0..n /\ k \in 0..n /\ k - 1 \in Nat /\ (k - 1) + 1 = k /\ k <= n
    BY <1>1
  <2>2. pl[k] \in Command
    BY <1>1, ElementOfSeq
  <2> DEFINE B == A2 \cup cc(k)
             held == CommandHeld(j, k, pl[k])
  <2>3. NoCommand(B, j, k)
    <3>1. NoCommand(cc(k), j, k)
      <4>1. k + 1 \in 1..n + 1 /\ n \in 0..n /\ k \notin k + 1..n /\ k \in Nat
        BY <1>1, <2>1
      <4> QED
        BY <4>1, CommandsHeldNone
    <3> HIDE DEF A2, cc
    <3> QED
      BY <1>4, <2>1, <3>1, NoCommandCup
  <2>4. cc(k - 1) = cc(k) \cup held
    <3>1. /\ cc(k) = CommandsHeld(j, pl, k + 1, n)
          /\ cc(k - 1) = CommandsHeld(j, pl, k, n)
      BY <2>1
    <3> HIDE DEF cc, n
    <3>2. CommandsHeld(j, pl, k, n)
          = CommandsHeld(j, pl, k + 1, n) \cup CommandHeld(j, k, pl[k])
      <4>1. k \in Nat /\ n \in Nat /\ k <= n
        BY <1>1, <2>1
      <4> QED
        BY ONLY <4>1, CommandsHeldFirst
    <3> QED
      BY <3>1, <3>2
  <2>5. h[k - 1] = B \cup held /\ h[k] = B
    <3>1. h[k - 1] = A2 \cup cc(k - 1) /\ h[k] = A2 \cup cc(k)
      BY <2>1
    <3> HIDE DEF h, A2, cc, held
    <3> QED
      BY <2>4, <3>1
  <2> HIDE DEF B
  <2>6. Legal(B \cup held, free_command(j, k, pl[k]), B)
    BY <2>1, <2>2, <2>3, FreeCommandLegal
  <2>7. ss[k] = free_command(j, k, pl[k])
    OBVIOUS
  <2> HIDE DEF h, ss, held
  <2> QED
    BY <2>5, <2>6, <2>7
<1>6. ss = [k \in 1..n |-> ss[k]]
  OBVIOUS
<1>7. h[0] = A \cup PipelineHeld(j, pl) /\ h[n] = A2
  <2>1. 0 \in 0..n /\ n \in 0..n /\ n + 1 > n /\ n + 1 \in Nat
    BY <1>1
  <2>2. cc(n) = {}
    <3>1. CommandsHeld(j, pl, n + 1, n) = {}
      <4> HIDE DEF n
      <4> QED
        BY <1>1, <2>1, CommandsHeldEmpty
    <3> QED
      BY <3>1
  <2>3. h[0] = A2 \cup cc(0) /\ h[n] = A2 \cup cc(n)
    BY <2>1
  <2>4. cc(0) = CommandsHeld(j, pl, 1, n)
    OBVIOUS
  <2> HIDE DEF h, cc
  <2> QED
    BY <2>2, <2>3, <2>4 DEF PipelineHeld
<1> HIDE DEF h, ss
<1>8. Legal(h[0], FlattenSeq(ss), h[n])
  BY <1>1, <1>5, <1>6, LegalFlatten
<1>9. free_pipeline(j, pl) = FlattenSeq(ss) \o << F(cmd), F(pip) >>
  BY <1>1 DEF free_pipeline, ss
<1>10. Legal(A2, << F(cmd), F(pip) >>, A)
  <2>1. cmd \in A2 /\ A2 \ {cmd} = A1 /\ pip \in A1 /\ A1 \ {pip} = A
    <3> HIDE DEF cmd, pip
    <3> QED
      BY <1>2, <1>3
  <2> HIDE DEF cmd, pip, A1, A2
  <2>2. Step(A2, F(cmd), A2 \ {cmd}) /\ F(cmd) \in Calls
    BY <1>3, <2>1, StepFree
  <2>3. Step(A1, F(pip), A1 \ {pip}) /\ F(pip) \in Calls
    BY <1>2, <2>1, StepFree
  <2> QED
    BY <2>1, <2>2, <2>3, LegalTwo
<1> HIDE DEF pip, cmd, A1, A2
<1> QED
  BY <1>7, <1>8, <1>9, <1>10, LegalCat

-----------------------------------------------------------------------------
(* A line.                                                                 *)

OfPipeline == OfCommand \cup {"pipeline", "cmds"}

LEMMA PipelineHeldNames ==
    ASSUME NEW j \in Nat, NEW pl \in Seq(Command), NEW x \in PipelineHeld(j, pl)
    PROVE  x[1] \in OfPipeline /\ x[2] = j
<1>1. CASE x = <<"pipeline", j>>
  BY <1>1 DEF OfPipeline
<1>2. CASE x = <<"cmds", j, Grown[Len(pl)]>>
  BY <1>2 DEF OfPipeline
<1>3. CASE x \in CommandsHeld(j, pl, 1, Len(pl))
  <2>1. 1 \in 1..Len(pl) + 1 /\ Len(pl) \in 0..Len(pl)
    <3>1. Len(pl) \in Nat
      BY LenProperties
    <3> QED
      BY <3>1
  <2>2. x[1] \in OfCommand /\ x[2] = j
    BY <1>3, <2>1, CommandsHeldNames
  <2> QED
    BY <2>2 DEF OfPipeline
<1> QED
  BY <1>1, <1>2, <1>3 DEF PipelineHeld

\* Objects of other pipelines.
LEMMA OtherPipeline ==
    ASSUME NEW j \in Nat, NEW B, \A x \in B : x[1] \in OfPipeline => x[2] # j
    PROVE  NoPipeline(B, j)
<1>1. <<"pipeline", j>> \notin B
  <2> DEFINE y == <<"pipeline", j>>
  <2>1. y[1] \in OfPipeline /\ y[2] = j
    BY DEF OfPipeline
  <2> HIDE DEF y
  <2>2. y \notin B
    BY <2>1
  <2> QED
    BY <2>2 DEF y
<1>2. ASSUME NEW v \in Nat PROVE <<"cmds", j, v>> \notin B
  <2> DEFINE y == <<"cmds", j, v>>
  <2>1. y[1] \in OfPipeline /\ y[2] = j
    BY DEF OfPipeline
  <2> HIDE DEF y
  <2>2. y \notin B
    BY <2>1
  <2> QED
    BY <2>2 DEF y
<1>3. ASSUME NEW k \in Nat PROVE NoCommand(B, j, k)
  <2>1. \A x \in B : ~(x[1] \in OfCommand /\ x[2] = j)
    BY DEF OfPipeline
  <2> QED
    BY <2>1, OtherCommand
<1> QED
  BY <1>1, <1>2, <1>3 DEF NoPipeline

\* What the pipelines from lo to hi hold, and the operators between them.
PipelinesHeld(l, lo, hi) == UNION {PipelineHeld(j, l.list[j]) : j \in lo..hi}
Operators(lo, hi) == {<<"list", n>> : n \in lo..hi}

LEMMA PipelinesHeldNames ==
    ASSUME NEW l \in Lines, NEW lo \in 1..Len(l.list) + 1, NEW hi \in 0..Len(l.list),
           NEW x \in PipelinesHeld(l, lo, hi)
    PROVE  x[1] \in OfPipeline /\ x[2] \in lo..hi
<1>1. PICK j \in lo..hi : x \in PipelineHeld(j, l.list[j])
  BY DEF PipelinesHeld
<1>2. Len(l.list) \in Nat
  BY LineShape
<1>3. j \in Nat /\ j \in 1..Len(l.list)
  BY <1>2
<1>4. l.list[j] \in Seq(Command)
  BY <1>3, LineShape
<1>5. x[1] \in OfPipeline /\ x[2] = j
  BY <1>1, <1>3, <1>4, PipelineHeldNames
<1> QED
  BY <1>5

LEMMA OperatorsNames ==
    ASSUME NEW lo \in Nat, NEW hi \in Nat, NEW x \in Operators(lo, hi)
    PROVE  x[1] = "list" /\ x[2] \in lo..hi
BY DEF Operators

LEMMA PipelinesHeldEmpty ==
    ASSUME NEW l, NEW lo \in Nat, NEW hi \in Nat, lo > hi
    PROVE  PipelinesHeld(l, lo, hi) = {} /\ Operators(lo, hi) = {}
<1>1. lo..hi = {}
  OBVIOUS
<1> QED
  BY <1>1 DEF PipelinesHeld, Operators

LEMMA PipelinesHeldLast ==
    ASSUME NEW l, NEW lo \in Nat, NEW hi \in Nat, lo <= hi + 1
    PROVE  PipelinesHeld(l, lo, hi + 1)
           = PipelinesHeld(l, lo, hi) \cup PipelineHeld(hi + 1, l.list[hi + 1])
<1>1. lo..hi + 1 = (lo..hi) \cup {hi + 1}
  OBVIOUS
<1> QED
  BY <1>1 DEF PipelinesHeld

LEMMA PipelinesHeldFirst ==
    ASSUME NEW l, NEW lo \in Nat, NEW hi \in Nat, lo <= hi
    PROVE  PipelinesHeld(l, lo, hi)
           = PipelinesHeld(l, lo + 1, hi) \cup PipelineHeld(lo, l.list[lo])
<1>1. lo..hi = (lo + 1..hi) \cup {lo}
  OBVIOUS
<1> QED
  BY <1>1 DEF PipelinesHeld

LEMMA OperatorsLast ==
    ASSUME NEW lo \in Nat, NEW hi \in Nat, lo <= hi + 1
    PROVE  Operators(lo, hi + 1) = Operators(lo, hi) \cup {<<"list", hi + 1>>}
<1>1. lo..hi + 1 = (lo..hi) \cup {hi + 1}
  OBVIOUS
<1> QED
  BY <1>1 DEF Operators

LEMMA OperatorsFirst ==
    ASSUME NEW lo \in Nat, NEW hi \in Nat, lo <= hi
    PROVE  Operators(lo, hi) = Operators(lo + 1, hi) \cup {<<"list", lo>>}
<1>1. lo..hi = (lo + 1..hi) \cup {lo}
  OBVIOUS
<1> QED
  BY <1>1 DEF Operators

\* No part of a tree.
NoTree(A) == \A x \in A : x[1] \notin OfPipeline /\ x[1] # "list"

\* The objects of the tree while its n-th operator has been parsed.
Parsed(A, l, n) == (A \cup PipelinesHeld(l, 1, n + 1)) \cup Operators(1, n)

\* Those of its pipelines after the first n, and of their operators.
Unfreed(A, l, n) ==
    (A \cup PipelinesHeld(l, n + 2, Len(l.list))) \cup Operators(n + 1, Len(l.list) - 1)

\* What a trailing operator holds.
Trailing(l) == IF l.trail THEN {<<"list", Len(l.list)>>} ELSE {}

Tree(l) ==
    (PipelinesHeld(l, 1, Len(l.list)) \cup Operators(1, Len(l.list) - 1)) \cup Trailing(l)

\* Operator n and pipeline n + 1 of the list are none of the objects parsed so far.
LEMMA ParsedNone ==
    ASSUME NEW l \in Lines, NEW A, NoTree(A), NEW n \in Nat, n < Len(l.list)
    PROVE  /\ \A x \in Parsed(A, l, n) : x[1] \in OfPipeline => x[2] # n + 2
           /\ \A x \in Parsed(A, l, n) : x[1] = "list" => x[2] # n + 1
<1>1. 1 \in 1..Len(l.list) + 1 /\ n + 1 \in 0..Len(l.list) /\ Len(l.list) \in Nat
  BY LineShape
<1>2. ASSUME NEW x \in PipelinesHeld(l, 1, n + 1)
      PROVE  x[1] \in OfPipeline /\ x[2] # n + 2
  <2>1. x[1] \in OfPipeline /\ x[2] \in 1..n + 1
    BY <1>1, PipelinesHeldNames
  <2> QED
    BY <2>1
<1>3. ASSUME NEW x \in Operators(1, n) PROVE x[1] = "list" /\ x[2] # n + 1
  <2>1. x[1] = "list" /\ x[2] \in 1..n
    BY OperatorsNames
  <2> QED
    BY <2>1
<1>4. "list" \notin OfPipeline
  BY DEF OfPipeline, OfCommand
<1> QED
  BY <1>2, <1>3, <1>4 DEF Parsed, NoTree

LEMMA ListName == \A n \in Nat : /\ <<"list", n>> \in Names /\ <<"list", n>>[1] = "list"
                                 /\ <<"list", n>>[2] = n
<1>1. \A n \in Nat : <<"list", n>> \in Names
  BY ONLY NamesShape
<1>2. \A n \in Nat : <<"list", n>>[1] = "list" /\ <<"list", n>>[2] = n
  OBVIOUS
<1> QED
  BY <1>1, <1>2

LEMMA ParseListLegal ==
    ASSUME NEW l \in Lines, NEW A, NoTree(A)
    PROVE  Legal(A, parse_list(l), A \cup Tree(l))
<1> DEFINE m == Len(l.list) - 1
           ss == [n \in 1..m |-> << M(<<"list", n>>, AstSize) >>
                                    \o parse_pipeline(n + 1, l.list[n + 1])]
           h == [n \in 0..m |-> Parsed(A, l, n)]
           tr == IF l.trail THEN << M(<<"list", Len(l.list)>>, AstSize) >> ELSE <<>>
<1>1. m \in Nat /\ Len(l.list) = m + 1 /\ m + 1 \in Nat
  BY LineShape
<1>2. AstSize \in Nat
  BY DEF AstSize
<1>3. \A j \in 1..m + 1 : l.list[j] \in Seq(Command)
  BY <1>1, LineShape
<1> HIDE DEF m
<1>4. Legal(A, parse_pipeline(1, l.list[1]), Parsed(A, l, 0))
  <2>1. NoPipeline(A, 1)
    <3>1. \A x \in A : x[1] \in OfPipeline => x[2] # 1
      BY DEF NoTree
    <3> QED
      BY <3>1, OtherPipeline
  <2>2. l.list[1] \in Seq(Command) /\ 1 \in Nat
    BY <1>1, <1>3
  <2>3. Legal(A, parse_pipeline(1, l.list[1]), A \cup PipelineHeld(1, l.list[1]))
    BY <2>1, <2>2, ParsePipelineLegal
  <2>4. Parsed(A, l, 0) = A \cup PipelineHeld(1, l.list[1])
    <3>1. 0 + 1 = 1 /\ 1 <= 0 + 1 /\ 1 > 0 /\ 0 \in Nat /\ 1 \in Nat
      OBVIOUS
    <3>2. PipelinesHeld(l, 1, 0) = {} /\ Operators(1, 0) = {}
      BY ONLY <3>1, PipelinesHeldEmpty
    <3>3. PipelinesHeld(l, 1, 0 + 1)
          = PipelinesHeld(l, 1, 0) \cup PipelineHeld(0 + 1, l.list[0 + 1])
      BY ONLY <3>1, PipelinesHeldLast
    <3> QED
      BY <3>1, <3>2, <3>3 DEF Parsed
  <2> QED
    BY <2>3, <2>4
<1>5. ASSUME NEW n \in 1..m PROVE Legal(h[n - 1], ss[n], h[n])
  <2>1. PICK i \in Nat : i = n - 1
    BY <1>1
  <2>2. /\ n = i + 1 /\ n \in Nat /\ n + 1 \in Nat /\ n + 1 \in 1..m + 1 /\ i \in 0..m
        /\ n \in 0..m /\ i < m + 1 /\ n + 1 = i + 2
    BY <1>1, <2>1
  <2> DEFINE x == <<"list", n>>
             B == Parsed(A, l, i)
  <2>3. x \in Names /\ x[1] = "list" /\ x[2] = n
    BY <2>2, ListName
  <2>4. x \notin B
    <3>1. \A y \in B : y[1] = "list" => y[2] # i + 1
      BY <1>1, <2>2, ParsedNone
    <3> HIDE DEF x, B
    <3> QED
      BY <2>2, <2>3, <3>1
  <2>5. NoPipeline(B \cup {x}, n + 1)
    <3>1. \A y \in B : y[1] \in OfPipeline => y[2] # i + 2
      BY <1>1, <2>2, ParsedNone
    <3>2. "list" \notin OfPipeline
      BY DEF OfPipeline, OfCommand
    <3> HIDE DEF x, B
    <3>3. \A y \in B \cup {x} : y[1] \in OfPipeline => y[2] # n + 1
      BY <2>2, <2>3, <3>1, <3>2
    <3> QED
      BY <2>2, <3>3, OtherPipeline
  <2>6. h[n - 1] = B /\ h[n] = (B \cup {x}) \cup PipelineHeld(n + 1, l.list[n + 1])
    <3>1. h[n - 1] = Parsed(A, l, i) /\ h[n] = Parsed(A, l, n)
      BY <2>1, <2>2
    <3>2. 1 <= n + 1 /\ 1 <= i + 1 /\ 1 \in Nat /\ n \in Nat
      BY <2>2
    <3>3. PipelinesHeld(l, 1, n + 1)
          = PipelinesHeld(l, 1, n) \cup PipelineHeld(n + 1, l.list[n + 1])
      BY ONLY <3>2, PipelinesHeldLast
    <3>4. Operators(1, i + 1) = Operators(1, i) \cup {<<"list", i + 1>>}
      BY ONLY <3>2, i \in Nat, OperatorsLast
    <3>5. Operators(1, n) = Operators(1, i) \cup {x} /\ i + 1 = n
      BY <2>2, <3>4
    <3> HIDE DEF h, x
    <3> QED
      BY <3>1, <3>3, <3>5 DEF Parsed
  <2> HIDE DEF x, B
  <2>7. Legal(B, << M(x, AstSize) >>, B \cup {x})
    BY <1>2, <2>3, <2>4, StepMalloc, LegalOne
  <2>8. Legal(B \cup {x}, parse_pipeline(n + 1, l.list[n + 1]),
              (B \cup {x}) \cup PipelineHeld(n + 1, l.list[n + 1]))
    BY <1>3, <2>2, <2>5, ParsePipelineLegal
  <2>9. ss[n] = << M(x, AstSize) >> \o parse_pipeline(n + 1, l.list[n + 1])
    BY DEF x
  <2> HIDE DEF h, ss
  <2> QED
    BY <2>6, <2>7, <2>8, <2>9, LegalCat
<1>6. ss = [n \in 1..m |-> ss[n]]
  OBVIOUS
<1>7. h[0] = Parsed(A, l, 0) /\ h[m] = Parsed(A, l, m)
  BY <1>1
<1>8. Len(l.list) - 1 = m
  BY DEF m
<1>9. parse_list(l) = (parse_pipeline(1, l.list[1]) \o FlattenSeq(ss)) \o tr
  BY <1>8 DEF parse_list
<1> HIDE DEF h, ss
<1>10. Legal(h[0], FlattenSeq(ss), h[m])
  BY <1>1, <1>5, <1>6, LegalFlatten
<1>11. Legal(A, parse_pipeline(1, l.list[1]) \o FlattenSeq(ss), Parsed(A, l, m))
  BY <1>4, <1>7, <1>10, LegalCat
<1>12. Legal(Parsed(A, l, m), tr, Parsed(A, l, m) \cup Trailing(l))
  <2>1. CASE l.trail
    <3> DEFINE x == <<"list", m + 1>>
    <3>1. x \in Names /\ x[1] = "list" /\ x[2] = m + 1
      BY <1>1, ListName
    <3>2. \A y \in Parsed(A, l, m) : y[1] = "list" => y[2] # m + 1
      <4>1. m < Len(l.list)
        BY <1>1
      <4> QED
        BY <1>1, <4>1, ParsedNone
    <3>3. tr = << M(x, AstSize) >> /\ Trailing(l) = {x}
      BY <1>1, <2>1 DEF Trailing
    <3> HIDE DEF x, tr
    <3>4. x \notin Parsed(A, l, m)
      BY <3>1, <3>2
    <3>5. Legal(Parsed(A, l, m), << M(x, AstSize) >>, Parsed(A, l, m) \cup {x})
      BY <1>2, <3>1, <3>4, StepMalloc, LegalOne
    <3> QED
      BY <3>3, <3>5
  <2>2. CASE ~l.trail
    <3>1. tr = <<>> /\ Parsed(A, l, m) \cup Trailing(l) = Parsed(A, l, m)
      BY <2>2 DEF Trailing
    <3> HIDE DEF tr
    <3> QED
      BY <3>1, LegalEmpty
  <2> QED
    BY <2>1, <2>2
<1>13. Parsed(A, l, m) \cup Trailing(l) = A \cup Tree(l)
  BY <1>1, <1>8 DEF Parsed, Tree
<1> HIDE DEF tr
<1> QED
  BY <1>9, <1>11, <1>12, <1>13, LegalCat

LEMMA UnfreedNone ==
    ASSUME NEW l \in Lines, NEW A, NoTree(A), NEW n \in Nat, n < Len(l.list)
    PROVE  /\ \A x \in Unfreed(A, l, n) : x[1] \in OfPipeline => x[2] # n + 1
           /\ \A x \in Unfreed(A, l, n) : x[1] = "list" => x[2] # n
<1>1. /\ n + 2 \in 1..Len(l.list) + 1 /\ Len(l.list) \in 0..Len(l.list)
      /\ Len(l.list) \in Nat /\ n + 1 \in Nat /\ Len(l.list) - 1 \in Nat
  BY LineShape
<1>2. ASSUME NEW x \in PipelinesHeld(l, n + 2, Len(l.list))
      PROVE  x[1] \in OfPipeline /\ x[2] # n + 1
  <2>1. x[1] \in OfPipeline /\ x[2] \in n + 2..Len(l.list)
    BY <1>1, PipelinesHeldNames
  <2> QED
    BY <1>1, <2>1
<1>3. ASSUME NEW x \in Operators(n + 1, Len(l.list) - 1) PROVE x[1] = "list" /\ x[2] # n
  <2>1. x[1] = "list" /\ x[2] \in n + 1..Len(l.list) - 1
    BY <1>1, OperatorsNames
  <2> QED
    BY <1>1, <2>1
<1>4. "list" \notin OfPipeline
  BY DEF OfPipeline, OfCommand
<1> QED
  BY <1>2, <1>3, <1>4 DEF Unfreed, NoTree

\* The same objects with those that a trailing operator holds.
LEMMA UnfreedTrailing ==
    ASSUME NEW l \in Lines, NEW A, NoTree(A), NEW n \in Nat, n < Len(l.list)
    PROVE  /\ \A x \in Unfreed(A \cup Trailing(l), l, n) : x[1] \in OfPipeline => x[2] # n + 1
           /\ \A x \in Unfreed(A \cup Trailing(l), l, n) : x[1] = "list" => x[2] # n
<1>1. Unfreed(A \cup Trailing(l), l, n) = Unfreed(A, l, n) \cup Trailing(l)
  BY DEF Unfreed
<1>2. ASSUME NEW x \in Trailing(l)
      PROVE  x[1] \notin OfPipeline /\ (x[1] = "list" => x[2] # n)
  <2>1. x = <<"list", Len(l.list)>>
    BY DEF Trailing
  <2>2. Len(l.list) \in Nat
    BY LineShape
  <2>3. x[1] = "list" /\ x[2] = Len(l.list)
    BY <2>1
  <2>4. "list" \notin OfPipeline
    BY DEF OfPipeline, OfCommand
  <2> QED
    BY <2>2, <2>3, <2>4
<1>3. /\ \A x \in Unfreed(A, l, n) : x[1] \in OfPipeline => x[2] # n + 1
      /\ \A x \in Unfreed(A, l, n) : x[1] = "list" => x[2] # n
  BY UnfreedNone
<1> QED
  BY <1>1, <1>2, <1>3

LEMMA FreeListLegal ==
    ASSUME NEW l \in Lines, NEW A, NoTree(A)
    PROVE  Legal(A \cup Tree(l), free_ast(l), A)
<1> DEFINE m == Len(l.list) - 1
           C == A \cup Trailing(l)
           ss == [n \in 1..m |-> free_pipeline(n + 1, l.list[n + 1]) \o << F(<<"list", n>>) >>]
           h == [n \in 0..m |-> Unfreed(C, l, n)]
           tr == IF l.trail THEN << F(<<"list", Len(l.list)>>) >> ELSE <<>>
<1>1. m \in Nat /\ Len(l.list) = m + 1 /\ m + 1 \in Nat
  BY LineShape
<1>2. \A j \in 1..m + 1 : l.list[j] \in Seq(Command)
  BY <1>1, LineShape
<1>3. ASSUME NEW n \in 0..m
      PROVE  /\ n \in Nat
             /\ \A x \in Unfreed(C, l, n) : x[1] \in OfPipeline => x[2] # n + 1
             /\ \A x \in Unfreed(C, l, n) : x[1] = "list" => x[2] # n
  <2>1. n \in Nat /\ n < Len(l.list)
    BY <1>1
  <2> HIDE DEF m
  <2> QED
    BY <2>1, UnfreedTrailing
<1> HIDE DEF m
<1>4. Legal(A \cup Tree(l), free_pipeline(1, l.list[1]), Unfreed(C, l, 0))
  <2>1. NoPipeline(Unfreed(C, l, 0), 1)
    <3>1. 0 \in 0..m /\ 0 + 1 = 1
      BY <1>1
    <3>2. \A x \in Unfreed(C, l, 0) : x[1] \in OfPipeline => x[2] # 0 + 1
      BY <1>3, <3>1
    <3> HIDE DEF C
    <3> QED
      BY <3>1, <3>2, OtherPipeline
  <2>2. l.list[1] \in Seq(Command) /\ 1 \in Nat
    BY <1>1, <1>2
  <2>3. Unfreed(C, l, 0) \cup PipelineHeld(1, l.list[1]) = A \cup Tree(l)
    <3>1. Len(l.list) - 1 = m /\ 1 <= m + 1
      BY <1>1
    <3>2. PipelinesHeld(l, 1, m + 1)
          = PipelinesHeld(l, 1 + 1, m + 1) \cup PipelineHeld(1, l.list[1])
      <4>1. 1 \in Nat /\ m + 1 \in Nat /\ 1 <= m + 1
        BY <1>1
      <4> QED
        BY ONLY <4>1, PipelinesHeldFirst
    <3>3. 0 + 2 = 1 + 1 /\ 0 + 1 = 1
      OBVIOUS
    <3>4. Unfreed(C, l, 0) = (C \cup PipelinesHeld(l, 1 + 1, m + 1)) \cup Operators(1, m)
      BY <1>1, <3>1, <3>3 DEF Unfreed
    <3>5. Tree(l) = (PipelinesHeld(l, 1, m + 1) \cup Operators(1, m)) \cup Trailing(l)
      BY <1>1, <3>1 DEF Tree
    <3> QED
      BY <3>2, <3>4, <3>5
  <2> HIDE DEF C
  <2>4. Legal(Unfreed(C, l, 0) \cup PipelineHeld(1, l.list[1]),
              free_pipeline(1, l.list[1]), Unfreed(C, l, 0))
    BY <2>1, <2>2, FreePipelineLegal
  <2> QED
    BY <2>3, <2>4
<1>5. ASSUME NEW n \in 1..m PROVE Legal(h[n - 1], ss[n], h[n])
  <2>1. PICK i \in Nat : i = n - 1
    BY <1>1
  <2>2. /\ n = i + 1 /\ n \in Nat /\ n + 1 \in Nat /\ n + 1 \in 1..m + 1 /\ i \in 0..m
        /\ n \in 0..m /\ n + 1 = i + 2
    BY <1>1, <2>1
  <2> DEFINE x == <<"list", n>>
             B == Unfreed(C, l, n)
  <2>3. x \in Names /\ x[1] = "list" /\ x[2] = n
    BY <2>2, ListName
  <2>4. x \notin B
    <3>1. \A y \in B : y[1] = "list" => y[2] # n
      BY <1>3, <2>2
    <3> HIDE DEF x, B
    <3> QED
      BY <2>3, <3>1
  <2>5. NoPipeline(B \cup {x}, n + 1)
    <3>1. \A y \in B : y[1] \in OfPipeline => y[2] # n + 1
      BY <1>3, <2>2
    <3>2. "list" \notin OfPipeline
      BY DEF OfPipeline, OfCommand
    <3> HIDE DEF x, B
    <3>3. \A y \in B \cup {x} : y[1] \in OfPipeline => y[2] # n + 1
      BY <2>3, <3>1, <3>2
    <3> QED
      BY <2>2, <3>3, OtherPipeline
  <2>6. h[n - 1] = (B \cup {x}) \cup PipelineHeld(n + 1, l.list[n + 1]) /\ h[n] = B
    <3>1. h[n - 1] = Unfreed(C, l, i) /\ h[n] = Unfreed(C, l, n)
      BY <2>1, <2>2
    <3>2. /\ n + 1 <= m + 1 /\ n + 1 \in Nat /\ m + 1 \in Nat
          /\ n <= m /\ n \in Nat /\ m \in Nat
      BY <1>1, <2>2
    <3>3. PipelinesHeld(l, n + 1, m + 1)
          = PipelinesHeld(l, (n + 1) + 1, m + 1) \cup PipelineHeld(n + 1, l.list[n + 1])
      BY ONLY <3>2, PipelinesHeldFirst
    <3>4. Operators(n, m) = Operators(n + 1, m) \cup {x}
      BY ONLY <3>2, OperatorsFirst
    <3>5. (n + 1) + 1 = n + 2 /\ i + 2 = n + 1 /\ i + 1 = n /\ Len(l.list) - 1 = m
      BY <1>1, <2>2
    <3>6. Unfreed(C, l, i) = (C \cup PipelinesHeld(l, n + 1, m + 1)) \cup Operators(n, m)
      BY <1>1, <3>5 DEF Unfreed
    <3>7. Unfreed(C, l, n) = (C \cup PipelinesHeld(l, n + 2, m + 1)) \cup Operators(n + 1, m)
      BY <1>1, <3>5 DEF Unfreed
    <3> HIDE DEF h, x, C
    <3> QED
      BY <3>1, <3>3, <3>4, <3>5, <3>6, <3>7
  <2>7. x \in B \cup {x} /\ (B \cup {x}) \ {x} = B
    <3> HIDE DEF x, B
    <3> QED
      BY <2>4
  <2> HIDE DEF x, B
  <2>8. Legal((B \cup {x}) \cup PipelineHeld(n + 1, l.list[n + 1]),
              free_pipeline(n + 1, l.list[n + 1]), B \cup {x})
    BY <1>2, <2>2, <2>5, FreePipelineLegal
  <2>9. Legal(B \cup {x}, << F(x) >>, B)
    <3>1. Step(B \cup {x}, F(x), (B \cup {x}) \ {x}) /\ F(x) \in Calls
      BY <2>3, <2>7, StepFree
    <3> QED
      BY <2>7, <3>1, LegalOne
  <2>10. ss[n] = free_pipeline(n + 1, l.list[n + 1]) \o << F(x) >>
    BY DEF x
  <2> HIDE DEF h, ss
  <2> QED
    BY <2>6, <2>8, <2>9, <2>10, LegalCat
<1>6. ss = [n \in 1..m |-> ss[n]]
  OBVIOUS
<1>7. h[0] = Unfreed(C, l, 0) /\ h[m] = C
  <2>1. h[0] = Unfreed(C, l, 0) /\ h[m] = Unfreed(C, l, m)
    BY <1>1
  <2>2. /\ m + 2 > m + 1 /\ m + 2 \in Nat /\ m + 1 \in Nat
        /\ m + 1 > m /\ m \in Nat
    BY <1>1
  <2>3. PipelinesHeld(l, m + 2, m + 1) = {}
    BY ONLY <2>2, PipelinesHeldEmpty
  <2>4. Operators(m + 1, m) = {}
    BY ONLY <2>2, PipelinesHeldEmpty
  <2>5. Len(l.list) - 1 = m
    BY <1>1
  <2>6. Unfreed(C, l, m) = (C \cup PipelinesHeld(l, m + 2, m + 1)) \cup Operators(m + 1, m)
    BY <1>1, <2>5 DEF Unfreed
  <2> HIDE DEF h, C
  <2> QED
    BY <2>1, <2>3, <2>4, <2>6
<1>8. Len(l.list) - 1 = m
  BY DEF m
<1>9. free_ast(l) = (free_pipeline(1, l.list[1]) \o FlattenSeq(ss)) \o tr
  BY <1>8 DEF free_ast
<1> HIDE DEF h, ss
<1>10. Legal(h[0], FlattenSeq(ss), h[m])
  BY <1>1, <1>5, <1>6, LegalFlatten
<1>11. Legal(A \cup Tree(l), free_pipeline(1, l.list[1]) \o FlattenSeq(ss), C)
  <2> HIDE DEF C
  <2> QED
    BY <1>4, <1>7, <1>10, LegalCat
<1>12. Legal(C, tr, A)
  <2>1. CASE l.trail
    <3> DEFINE x == <<"list", Len(l.list)>>
    <3>1. x \in Names /\ x[1] = "list"
      BY <1>1, ListName
    <3>2. tr = << F(x) >> /\ C = A \cup {x}
      BY <2>1 DEF Trailing
    <3> HIDE DEF x, tr, C
    <3>3. x \notin A
      BY <3>1 DEF NoTree
    <3>4. x \in A \cup {x} /\ (A \cup {x}) \ {x} = A
      BY <3>3
    <3>5. Step(A \cup {x}, F(x), (A \cup {x}) \ {x}) /\ F(x) \in Calls
      BY <3>1, <3>4, StepFree
    <3> QED
      BY <3>2, <3>4, <3>5, LegalOne
  <2>2. CASE ~l.trail
    <3>1. tr = <<>> /\ C = A
      BY <2>2 DEF Trailing
    <3> HIDE DEF tr, C
    <3> QED
      BY <3>1, LegalEmpty
  <2> QED
    BY <2>1, <2>2
<1> HIDE DEF tr, C
<1> QED
  BY <1>9, <1>11, <1>12, LegalCat

\* What the shell holds between two lines when history's next number is n.
Kept == {"hash", "table", "pair", "tokens", "path", "history"}

AtLine(A, n) ==
    \A x \in A :
        /\ x[1] \in Kept
        /\ x[1] = "path" => x = <<"path">> /\ GivesUp
        /\ x[1] = "history" => \E i \in 0..HistorySize - 1 : i < n - 1 /\ x = <<"history", i>>

\* Once update_history has returned a line gives back all it takes.
LEMMA WorkLegal ==
    ASSUME NEW l \in Lines, NEW A, \A x \in A : x[1] \in Kept
    PROVE  Legal(A, Work(l), A)
<1>1. Legal(A, tokenize(l), A \cup Words(l))
  <2>1. \A y \in A : y[1] \notin {"buf", "lexeme"}
    BY DEF Kept
  <2> QED
    BY <2>1, TokenizeLegal
<1> DEFINE D == A \cup Words(l)
<1>2. NoTree(D)
  <2>1. \A y \in Words(l) : y[1] = "lexeme"
    BY WordsShape
  <2> QED
    BY <2>1 DEF Kept, NoTree, OfPipeline, OfCommand
<1>3. Legal(D, free_tokens(l), A)
  <2>1. \A y \in A : y[1] # "lexeme"
    BY DEF Kept
  <2> QED
    BY <2>1, FreeTokensLegal
<1> HIDE DEF D
<1>4. Legal(D, parse_list(l), D \cup Tree(l)) /\ Legal(D \cup Tree(l), free_ast(l), D)
  BY <1>2, ParseListLegal, FreeListLegal
<1>5. Legal(A, tokenize(l) \o parse_list(l), D \cup Tree(l))
  BY <1>1, <1>4, LegalCat DEF D
<1>6. Legal(A, (tokenize(l) \o parse_list(l)) \o free_ast(l), D)
  BY <1>4, <1>5, LegalCat
<1>7. Legal(A, ((tokenize(l) \o parse_list(l)) \o free_ast(l)) \o free_tokens(l), A)
  BY <1>3, <1>6, LegalCat
<1> QED
  BY <1>7 DEF Work

\* The place of the next copy in the ring: it is taken only when the ring is full.
LEMMA RingPlace ==
    ASSUME NEW n \in Nat \ {0}, NEW i, i = (n - 1) % HistorySize
    PROVE  /\ i \in 0..HistorySize - 1 /\ i < n
           /\ i < n - 1 => n > HistorySize
<1>1. PICK h \in Nat \ {0} : h = HistorySize
  BY ShellHeapAssumption
<1>2. PICK m \in Nat : m = n - 1
  OBVIOUS
<1>3. i = m % h /\ i \in 0..h - 1 /\ (m < h => i = m) /\ i <= m
  BY <1>1, <1>2
<1>4. i < n /\ (i < n - 1 => n > h)
  BY <1>2, <1>3
<1> QED
  BY <1>1, <1>3, <1>4

\* A line leaves no more than its copy behind.
LEMMA LineLegal ==
    ASSUME NEW l \in Lines, NEW n \in Nat \ {0}, NEW A, AtLine(A, n),
           NEW x, x = <<"history", (n - 1) % HistorySize>>
    PROVE  /\ Legal(A, LineCalls(l, TRUE, n), A)
           /\ AtLine(A \cup {x}, n + 1)
           /\ x \notin A => Legal(A, LineCalls(l, FALSE, n), A \cup {x})
           /\ x \in A => /\ n > HistorySize
                         /\ Head(LineCalls(l, FALSE, n)) = M(x, l.len + 1)
                         /\ Tail(LineCalls(l, FALSE, n)) = Work(l)
                         /\ LineCalls(l, FALSE, n) # <<>>
                         /\ Legal(A, Work(l), A)
           /\ x \in Names /\ x[1] = "history" /\ l.len + 1 \in Nat
<1>1. PICK i \in Nat : /\ x = <<"history", i>> /\ i = (n - 1) % HistorySize
                       /\ i \in 0..HistorySize - 1 /\ i < n /\ (i < n - 1 => n > HistorySize)
  <2>1. PICK i : i = (n - 1) % HistorySize
    OBVIOUS
  <2>2. i \in 0..HistorySize - 1 /\ i < n /\ (i < n - 1 => n > HistorySize)
    BY <2>1, RingPlace
  <2>3. i \in Nat
    BY <2>2
  <2> QED
    BY <2>1, <2>2, <2>3
<1>2. x \in Names /\ x[1] = "history"
  <2>1. i \in Nat /\ x = <<"history", i>>
    BY <1>1
  <2>2. <<"history", i>> \in Names
    BY ONLY i \in Nat, NamesShape
  <2> QED
    BY ONLY <2>1, <2>2
<1>3. l.len + 1 \in Nat
  <2>1. l.len \in Nat
    BY LineShape
  <2> QED
    BY <2>1
<1>4. AtLine(A \cup {x}, n + 1)
  <2>1. ASSUME NEW y \in A \cup {x}, y[1] = "history"
        PROVE  \E j \in 0..HistorySize - 1 : j < (n + 1) - 1 /\ y = <<"history", j>>
    <3>1. CASE y = x
      <4>1. i < (n + 1) - 1
        BY ONLY <1>1
      <4> QED
        BY <1>1, <3>1, <4>1
    <3>2. CASE y \in A
      <4>1. PICK j \in 0..HistorySize - 1 : j < n - 1 /\ y = <<"history", j>>
        BY <2>1, <3>2 DEF AtLine
      <4>2. j < (n + 1) - 1
        BY ONLY <4>1, n \in Nat \ {0}, j \in 0..HistorySize - 1, ShellHeapAssumption
      <4> QED
        BY <4>1, <4>2
    <3> QED
      BY <3>1, <3>2
  <2>2. ASSUME NEW y \in A \cup {x}
        PROVE  y[1] \in Kept /\ (y[1] = "path" => y = <<"path">> /\ GivesUp)
    <3>1. CASE y = x
      BY <1>2, <3>1 DEF Kept
    <3>2. CASE y \in A
      BY <3>2 DEF AtLine
    <3> QED
      BY <3>1, <3>2
  <2> QED
    BY <2>1, <2>2 DEF AtLine
<1>5. Legal(A, Work(l), A) /\ Legal(A \cup {x}, Work(l), A \cup {x})
  <2>1. \A y \in A : y[1] \in Kept
    BY DEF AtLine
  <2>2. \A y \in A \cup {x} : y[1] \in Kept
    BY <1>4 DEF AtLine
  <2> QED
    BY <2>1, <2>2, WorkLegal
<1>6. Legal(A, LineCalls(l, TRUE, n), A)
  <2>1. LineCalls(l, TRUE, n) = <<>> \o Work(l)
    BY DEF LineCalls, update_history
  <2> QED
    BY <1>5, <2>1, LegalEmpty, LegalCat
<1>7. LineCalls(l, FALSE, n) = << M(x, l.len + 1) >> \o Work(l)
  BY DEF LineCalls, update_history
<1>8. ASSUME x \notin A PROVE Legal(A, LineCalls(l, FALSE, n), A \cup {x})
  <2>1. Step(A, M(x, l.len + 1), A \cup {x}) /\ M(x, l.len + 1) \in Calls
    BY <1>2, <1>3, <1>8, StepMalloc
  <2> DEFINE t == << M(x, l.len + 1) >>
  <2>2. Legal(A, t, A \cup {x})
    BY <2>1, LegalOne
  <2> HIDE DEF t
  <2>3. Legal(A, t \o Work(l), A \cup {x})
    BY ONLY <1>5, <2>2, LegalCat
  <2> QED
    BY <1>7, <2>3 DEF t
<1>9. ASSUME x \in A PROVE n > HistorySize
  <2>1. PICK j \in 0..HistorySize - 1 : j < n - 1 /\ x = <<"history", j>>
    BY <1>2, <1>9 DEF AtLine
  <2>2. j = i
    BY <1>1, <2>1
  <2> QED
    BY <1>1, <2>1, <2>2
<1>10. /\ Head(LineCalls(l, FALSE, n)) = M(x, l.len + 1)
       /\ Tail(LineCalls(l, FALSE, n)) = Work(l)
       /\ LineCalls(l, FALSE, n) # <<>>
  <2>1. PICK c : c = M(x, l.len + 1)
    OBVIOUS
  <2>2. PICK s : s = Work(l)
    OBVIOUS
  <2>3. c \in Calls
    BY <1>2, <1>3, <2>1, CallShape
  <2>4. s \in Seq(Calls)
    BY <1>5, <2>2 DEF Legal
  <2>5. Head(<<c>> \o s) = c /\ Tail(<<c>> \o s) = s /\ <<c>> \o s # <<>>
    BY ONLY <2>3, <2>4, ConsShape
  <2> QED
    BY <1>7, <2>1, <2>2, <2>5
<1> QED
  BY <1>2, <1>3, <1>4, <1>5, <1>6, <1>8, <1>9, <1>10

-----------------------------------------------------------------------------
(* The start of main.                                                      *)

\* What the symbol table holds with k names in it.
TableHeld(k) ==
    ({<<"hash", Rehashes[k]>>} \cup {<<"table", Rehashes[k]>>})
        \cup {<<"pair", i>> : i \in 1..k}

\* No part of the symbol table.
NoTable(A) == \A x \in A : x[1] \notin {"hash", "table", "pair"}

LEMMA TableNames ==
    \A i \in Nat : /\ <<"hash", i>> \in Names /\ <<"hash", i>>[1] = "hash"
                   /\ <<"hash", i>>[2] = i
                   /\ <<"table", i>> \in Names /\ <<"table", i>>[1] = "table"
                   /\ <<"table", i>>[2] = i
                   /\ <<"pair", i>> \in Names /\ <<"pair", i>>[1] = "pair"
                   /\ <<"pair", i>>[2] = i
<1>1. \A i \in Nat : <<"hash", i>> \in Names /\ <<"table", i>> \in Names /\ <<"pair", i>> \in Names
  BY ONLY NamesShape
<1>2. \A i \in Nat : /\ <<"hash", i>>[1] = "hash" /\ <<"hash", i>>[2] = i
                     /\ <<"table", i>>[1] = "table" /\ <<"table", i>>[2] = i
                     /\ <<"pair", i>>[1] = "pair" /\ <<"pair", i>>[2] = i
  OBVIOUS
<1> QED
  BY <1>1, <1>2

LEMMA RehashLegal ==
    ASSUME NEW A, NEW v \in Nat,
           \A i \in Nat : <<"hash", i>> \notin A /\ <<"table", i>> \notin A
    PROVE  Legal((A \cup {<<"hash", v>>}) \cup {<<"table", v>>}, rehash(v),
                 (A \cup {<<"hash", v + 1>>}) \cup {<<"table", v + 1>>})
<1> DEFINE h0 == <<"hash", v>>
           h1 == <<"hash", v + 1>>
           t0 == <<"table", v>>
           t1 == <<"table", v + 1>>
           A0 == (A \cup {h0}) \cup {t0}
           A1 == A0 \cup {h1}
           A2 == A1 \cup {t1}
           A3 == A2 \ {t0}
           A4 == A3 \ {h0}
<1>1. v + 1 \in Nat /\ v + 1 # v
  OBVIOUS
<1>2. h0 \in Names /\ h1 \in Names /\ t0 \in Names /\ t1 \in Names
  BY <1>1, TableNames
<1>3. h0 # h1 /\ t0 # t1 /\ h0 # t0 /\ h0 # t1 /\ h1 # t0 /\ h1 # t1
  BY <1>1
<1>4. h0 \notin A /\ h1 \notin A /\ t0 \notin A /\ t1 \notin A
  BY <1>1
<1>5. TableSize[v + 1] * PointerSize \in Nat /\ HashSize \in Nat
  <2>1. TableSize[v + 1] * 8 \in Nat
    BY <1>1, TableSizeShape
  <2> QED
    BY <2>1 DEF PointerSize, HashSize
<1>6. rehash(v) = << M(h1, HashSize), M(t1, TableSize[v + 1] * PointerSize), F(t0), F(h0) >>
  BY DEF rehash
<1> HIDE DEF h0, h1, t0, t1
<1>7. /\ h1 \notin A0 /\ t1 \notin A1 /\ t0 \in A2 /\ h0 \in A3
      /\ A4 = (A \cup {h1}) \cup {t1}
  BY <1>3, <1>4
<1> HIDE DEF A0, A1, A2, A3, A4
<1>8. /\ Step(A0, M(h1, HashSize), A0 \cup {h1}) /\ M(h1, HashSize) \in Calls
  BY <1>2, <1>5, <1>7, StepMalloc
<1>9. /\ Step(A1, M(t1, TableSize[v + 1] * PointerSize), A1 \cup {t1})
      /\ M(t1, TableSize[v + 1] * PointerSize) \in Calls
  BY <1>2, <1>5, <1>7, StepMalloc
<1>10. Step(A2, F(t0), A2 \ {t0}) /\ F(t0) \in Calls
  BY <1>2, <1>7, StepFree
<1>11. Step(A3, F(h0), A3 \ {h0}) /\ F(h0) \in Calls
  BY <1>2, <1>7, StepFree
<1>12. A0 \cup {h1} = A1 /\ A1 \cup {t1} = A2 /\ A2 \ {t0} = A3 /\ A3 \ {h0} = A4
  BY DEF A1, A2, A3, A4
<1>13. Legal(A0, << M(h1, HashSize), M(t1, TableSize[v + 1] * PointerSize), F(t0), F(h0) >>, A4)
  BY <1>8, <1>9, <1>10, <1>11, <1>12, LegalFour
<1> QED
  BY <1>6, <1>7, <1>13 DEF A0, h0, h1, t0, t1

LEMMA InsertLegal ==
    ASSUME NEW E, NoTable(E), NEW k \in Nat
    PROVE  Legal(E \cup TableHeld(k), map_insert(k + 1), E \cup TableHeld(k + 1))
<1> DEFINE x == <<"pair", k + 1>>
           u == Rehashes[k]
           v == Rehashes[k + 1]
           pairs(i) == {<<"pair", n>> : n \in 1..i}
           A == E \cup pairs(k + 1)
           re == IF v # u THEN rehash(u) ELSE <<>>
           H(i) == (A \cup {<<"hash", i>>}) \cup {<<"table", i>>}
<1>1. k + 1 \in Nat \ {0} /\ (k + 1) - 1 = k /\ k + 1 \in Nat
  OBVIOUS
<1>2. u \in Nat /\ v \in Nat /\ (v = u \/ v = u + 1)
  BY <1>1, RehashesShape
<1>3. map_insert(k + 1) = << M(x, PairSize) >> \o re
  BY <1>1 DEF map_insert
<1> HIDE DEF u, v
<1>4. x \in Names /\ x[1] = "pair"
  BY <1>1, TableNames
<1>5. x \notin E \cup TableHeld(k)
  <2>1. x \notin E
    <3> HIDE DEF x
    <3> QED
      BY <1>4 DEF NoTable
  <2>2. \A n \in 1..k : n # k + 1
    OBVIOUS
  <2>3. \A n \in 1..k : x # <<"pair", n>>
    BY <2>2
  <2>4. x # <<"hash", u>> /\ x # <<"table", u>>
    OBVIOUS
  <2> HIDE DEF x
  <2> QED
    BY <2>1, <2>3, <2>4 DEF TableHeld, u
<1>6. pairs(k + 1) = pairs(k) \cup {x}
  <2>1. 1..k + 1 = (1..k) \cup {k + 1}
    OBVIOUS
  <2> QED
    BY <2>1
<1>7. \A i \in Nat : <<"hash", i>> \notin A /\ <<"table", i>> \notin A
  <2>1. ASSUME NEW i \in Nat PROVE <<"hash", i>> \notin A /\ <<"table", i>> \notin A
    <3>1. <<"hash", i>> \notin pairs(k + 1) /\ <<"table", i>> \notin pairs(k + 1)
      OBVIOUS
    <3>2. <<"hash", i>> \notin E
      <4> DEFINE y == <<"hash", i>>
      <4>1. y[1] = "hash"
        OBVIOUS
      <4> HIDE DEF y
      <4>2. y \notin E
        BY <4>1 DEF NoTable
      <4> QED
        BY <4>2 DEF y
    <3>3. <<"table", i>> \notin E
      <4> DEFINE y == <<"table", i>>
      <4>1. y[1] = "table"
        OBVIOUS
      <4> HIDE DEF y
      <4>2. y \notin E
        BY <4>1 DEF NoTable
      <4> QED
        BY <4>2 DEF y
    <3> HIDE DEF pairs
    <3> QED
      BY <3>1, <3>2, <3>3
  <2> QED
    BY <2>1
<1>8. (E \cup TableHeld(k)) \cup {x} = H(u) /\ E \cup TableHeld(k + 1) = H(v)
  <2>1. TableHeld(k) = ({<<"hash", u>>} \cup {<<"table", u>>}) \cup pairs(k)
    BY DEF TableHeld, u
  <2>2. TableHeld(k + 1) = ({<<"hash", v>>} \cup {<<"table", v>>}) \cup pairs(k + 1)
    BY DEF TableHeld, v
  <2> HIDE DEF pairs, x
  <2> QED
    BY <1>6, <2>1, <2>2
<1> HIDE DEF x, A, pairs
<1>9. Legal(E \cup TableHeld(k), << M(x, PairSize) >>, H(u))
  <2>1. PairSize \in Nat
    BY DEF PairSize
  <2> DEFINE B == E \cup TableHeld(k)
  <2>2. x \notin B
    BY <1>5
  <2> HIDE DEF B
  <2>3. Legal(B, << M(x, PairSize) >>, B \cup {x})
    BY <1>4, <2>1, <2>2, StepMalloc, LegalOne
  <2> QED
    BY <1>8, <2>3 DEF B
<1>10. Legal(H(u), re, H(v))
  <2>1. CASE v = u
    <3>1. re = <<>>
      BY <2>1
    <3> HIDE DEF re, H
    <3> QED
      BY <2>1, <3>1, LegalEmpty
  <2>2. CASE v = u + 1
    <3>1. re = rehash(u)
      BY <1>2, <2>2
    <3>2. Legal((A \cup {<<"hash", u>>}) \cup {<<"table", u>>}, rehash(u),
                 (A \cup {<<"hash", u + 1>>}) \cup {<<"table", u + 1>>})
      BY <1>2, <1>7, RehashLegal
    <3> HIDE DEF re
    <3> QED
      BY <2>2, <3>1, <3>2
  <2> QED
    BY <1>2, <2>1, <2>2
<1> HIDE DEF re, H
<1>11. Legal(E \cup TableHeld(k), << M(x, PairSize) >> \o re, H(v))
  BY <1>9, <1>10, LegalCat
<1> QED
  BY <1>3, <1>8, <1>11

\* Several names in a row.
LEMMA InsertsLegal ==
    ASSUME NEW E, NoTable(E), NEW k \in Nat, NEW n \in Nat
    PROVE  Legal(E \cup TableHeld(k), FlattenSeq([i \in 1..n |-> map_insert(k + i)]),
                 E \cup TableHeld(k + n))
<1> DEFINE ss == [i \in 1..n |-> map_insert(k + i)]
           h == [i \in 0..n |-> E \cup TableHeld(k + i)]
<1>1. ASSUME NEW i \in 1..n PROVE Legal(h[i - 1], ss[i], h[i])
  <2>1. PICK p \in Nat : p = k + (i - 1)
    OBVIOUS
  <2>2. p + 1 = k + i /\ i - 1 \in 0..n /\ i \in 0..n
    BY <2>1
  <2>3. Legal(E \cup TableHeld(p), map_insert(p + 1), E \cup TableHeld(p + 1))
    BY InsertLegal
  <2>4. h[i - 1] = E \cup TableHeld(p) /\ h[i] = E \cup TableHeld(p + 1)
    BY <2>1, <2>2
  <2>5. ss[i] = map_insert(p + 1)
    BY <2>2
  <2> HIDE DEF h, ss
  <2> QED
    BY <2>3, <2>4, <2>5
<1>2. ss = [i \in 1..n |-> ss[i]]
  OBVIOUS
<1>3. h[0] = E \cup TableHeld(k) /\ h[n] = E \cup TableHeld(k + n)
  <2>1. k + 0 = k /\ 0 \in 0..n /\ n \in 0..n
    OBVIOUS
  <2> QED
    BY <2>1
<1> HIDE DEF ss, h
<1>4. Legal(h[0], FlattenSeq(ss), h[n])
  BY <1>1, <1>2, LegalFlatten
<1> QED
  BY <1>3, <1>4 DEF ss

LEMMA TableHeldNames ==
    ASSUME NEW k \in Nat, NEW x \in TableHeld(k)
    PROVE  x[1] \in {"hash", "table", "pair"}
BY DEF TableHeld

\* A directory leaves its names in the table, or nothing when it cannot be loaded.
LEMMA LoadLegal ==
    ASSUME NEW d \in Directory, NEW k \in Nat, NEW E, NoTable(E),
           \A x \in E : x[1] \notin {"dirents", "full_path"}
    PROVE  Legal(E \cup TableHeld(k), load_dir_into_symtab(d, k),
                 E \cup TableHeld(IF d.opens /\ d.reads THEN k + d.names ELSE k))
<1> DEFINE buf == <<"dirents">>
           full == <<"full_path">>
           n == IF d.reads THEN d.names ELSE 0
           E2 == (E \cup {buf}) \cup {full}
           ss == [i \in 1..n |-> map_insert(k + i)]
           T(i) == TableHeld(i)
           two == << M(buf, 1024 * 1024), M(full, 512) >>
           end == << F(buf), F(full) >>
<1>1. n \in Nat /\ k + n \in Nat /\ d.opens \in BOOLEAN /\ d.reads \in BOOLEAN
      /\ d.names \in Nat
  BY DEF Directory
<1>2. buf \in Names /\ full \in Names
  BY NamesShape
<1>3. buf[1] = "dirents" /\ full[1] = "full_path" /\ buf # full
  OBVIOUS
<1>4. load_dir_into_symtab(d, k)
      = IF ~d.opens THEN <<>> ELSE (two \o FlattenSeq(ss)) \o end
  BY DEF load_dir_into_symtab
<1>5. (IF d.opens /\ d.reads THEN k + d.names ELSE k) = IF d.opens THEN k + n ELSE k
  BY <1>1
<1> HIDE DEF n, ss, buf, full
<1>6. NoTable(E2)
  BY <1>3 DEF NoTable
<1>7. \A i \in Nat : /\ buf \notin E \cup T(i) /\ full \notin (E \cup T(i)) \cup {buf}
                     /\ buf \notin (E \cup T(i)) \cup {full} /\ full \notin E \cup T(i)
  <2>1. ASSUME NEW i \in Nat PROVE buf \notin E \cup T(i) /\ full \notin E \cup T(i)
    <3>1. \A x \in TableHeld(i) : x[1] \in {"hash", "table", "pair"}
      BY TableHeldNames
    <3> QED
      BY <1>3, <3>1
  <2> HIDE DEF T
  <2> QED
    BY <1>3, <2>1
<1>8. Legal(E \cup T(k), two, E2 \cup T(k))
  <2> DEFINE B == E \cup T(k)
             B1 == B \cup {buf}
  <2>1. buf \notin B /\ full \notin B1
    BY <1>7
  <2>2. 1024 * 1024 \in Nat /\ 512 \in Nat
    OBVIOUS
  <2>3. B1 \cup {full} = E2 \cup T(k) /\ B1 = B \cup {buf}
    OBVIOUS
  <2> HIDE DEF B, B1, E2
  <2>4. Step(B, M(buf, 1024 * 1024), B \cup {buf}) /\ M(buf, 1024 * 1024) \in Calls
    BY ONLY <1>2, <2>1, <2>2, StepMalloc
  <2>5. Step(B1, M(full, 512), B1 \cup {full}) /\ M(full, 512) \in Calls
    BY ONLY <1>2, <2>1, <2>2, StepMalloc
  <2>6. Legal(B, << M(buf, 1024 * 1024), M(full, 512) >>, B1 \cup {full})
    BY ONLY <2>3, <2>4, <2>5, LegalTwo
  <2>7. Legal(B, two, B1 \cup {full})
    BY <2>6
  <2> HIDE DEF two, T
  <2> QED
    BY <2>3, <2>7 DEF B
<1>9. Legal(E2 \cup T(k), FlattenSeq(ss), E2 \cup T(k + n))
  <2> HIDE DEF E2
  <2> QED
    BY <1>1, <1>6, InsertsLegal DEF ss
<1>10. Legal(E2 \cup T(k + n), end, E \cup T(k + n))
  <2> DEFINE B == E \cup T(k + n)
             B1 == B \cup {full}
             B2 == E2 \cup T(k + n)
  <2>1. buf \notin B1 /\ full \notin B
    BY <1>1, <1>7
  <2>2. B2 = B1 \cup {buf}
    OBVIOUS
  <2>3. buf \in B2 /\ B2 \ {buf} = B1 /\ full \in B1 /\ B1 \ {full} = B
    <3> HIDE DEF B2, B
    <3> QED
      BY <2>1, <2>2
  <2> HIDE DEF B, B1, B2
  <2>4. Step(B2, F(buf), B2 \ {buf}) /\ F(buf) \in Calls
    BY ONLY <1>2, <2>3, StepFree
  <2>5. Step(B1, F(full), B1 \ {full}) /\ F(full) \in Calls
    BY ONLY <1>2, <2>3, StepFree
  <2>6. Legal(B2, << F(buf), F(full) >>, B)
    BY ONLY <2>3, <2>4, <2>5, LegalTwo
  <2> QED
    BY <2>6 DEF B, B2
<1> HIDE DEF E2, T, two, end
<1>11. Legal(E \cup T(k), two \o FlattenSeq(ss), E2 \cup T(k + n))
  BY <1>8, <1>9, LegalCat
<1>12. Legal(E \cup T(k), (two \o FlattenSeq(ss)) \o end, E \cup T(k + n))
  BY <1>10, <1>11, LegalCat
<1>13. CASE d.opens
  BY <1>4, <1>5, <1>12, <1>13 DEF T
<1>14. CASE ~d.opens
  BY <1>4, <1>5, <1>14, LegalEmpty DEF T
<1> QED
  BY <1>13, <1>14

\* map_init's table.
LEMMA MapInitLegal ==
    Legal({}, << M(<<"hash", 0>>, HashSize), M(<<"table", 0>>, TableSize[0] * PointerSize) >>,
          TableHeld(0))
<1> DEFINE h0 == <<"hash", 0>>
           t0 == <<"table", 0>>
           A1 == {} \cup {h0}
           A2 == A1 \cup {t0}
<1>1. h0 \in Names /\ t0 \in Names
  BY TableNames
<1>2. A2 = TableHeld(0)
  <2>1. 1..0 = {}
    OBVIOUS
  <2> QED
    BY <2>1, RehashesShape DEF TableHeld
<1>3. HashSize \in Nat /\ TableSize[0] * PointerSize \in Nat
  <2>1. TableSize[0] * 8 \in Nat
    BY TableSizeShape
  <2> QED
    BY <2>1 DEF HashSize, PointerSize
<1>4. h0 \notin {} /\ t0 \notin A1 /\ {} \cup {h0} = A1 /\ A1 \cup {t0} = A2
  OBVIOUS
<1> HIDE DEF h0, t0, A1, A2
<1>5. Step({}, M(h0, HashSize), {} \cup {h0}) /\ M(h0, HashSize) \in Calls
  BY ONLY <1>1, <1>3, <1>4, StepMalloc
<1>6. /\ Step(A1, M(t0, TableSize[0] * PointerSize), A1 \cup {t0})
      /\ M(t0, TableSize[0] * PointerSize) \in Calls
  BY ONLY <1>1, <1>3, <1>4, StepMalloc
<1>7. Legal({}, << M(h0, HashSize), M(t0, TableSize[0] * PointerSize) >>, A2)
  BY ONLY <1>4, <1>5, <1>6, LegalTwo
<1> QED
  BY <1>2, <1>7 DEF h0, t0

\* The copy of a variable.
Path == {<<"path">>}

LEMMA PathShape ==
    ASSUME NEW k \in Nat
    PROVE  /\ <<"path">> \in Names /\ NoTable(Path) /\ NoTable({})
           /\ \A x \in Path : x[1] = "path"
           /\ <<"path">> \notin TableHeld(k)
<1> DEFINE p == <<"path">>
<1>1. p \in Names
  BY NamesShape
<1>2. p[1] = "path" /\ Path = {p}
  BY DEF Path
<1> HIDE DEF p
<1>3. NoTable(Path) /\ NoTable({})
  BY <1>2 DEF NoTable
<1>4. p \notin TableHeld(k)
  BY <1>2, TableHeldNames
<1> QED
  BY <1>1, <1>2, <1>3, <1>4 DEF p

\* main's builtins and the tokens, when the shell holds E besides the table.
LEMMA BuiltinsLegal ==
    ASSUME NEW k \in Nat, NEW E, \A x \in E : x[1] = "path"
    PROVE  Legal(E \cup TableHeld(k),
                 FlattenSeq([b \in 1..3 |-> map_insert(k + b)]) \o << M(<<"tokens">>, 512 * TokenSize) >>,
                 (E \cup TableHeld(k + 3)) \cup {<<"tokens">>})
<1> DEFINE tok == <<"tokens">>
           A == E \cup TableHeld(k + 3)
<1>1. NoTable(E)
  BY DEF NoTable
<1>2. Legal(E \cup TableHeld(k), FlattenSeq([b \in 1..3 |-> map_insert(k + b)]), A)
  <2>1. 3 \in Nat
    OBVIOUS
  <2> QED
    BY ONLY <1>1, <2>1, k \in Nat, InsertsLegal
<1>3. tok \in Names /\ tok[1] = "tokens"
  BY NamesShape
<1> HIDE DEF tok
<1>4. tok \notin A
  <2>1. \A x \in TableHeld(k + 3) : x[1] \in {"hash", "table", "pair"}
    BY TableHeldNames
  <2> QED
    BY <1>3, <2>1
<1> HIDE DEF A
<1>5. 512 * TokenSize \in Nat
  BY DEF TokenSize
<1>6. Step(A, M(tok, 512 * TokenSize), A \cup {tok}) /\ M(tok, 512 * TokenSize) \in Calls
  BY <1>3, <1>4, <1>5, StepMalloc
<1>7. Legal(A, << M(tok, 512 * TokenSize) >>, A \cup {tok})
  BY <1>6, LegalOne
<1>8. Legal(E \cup TableHeld(k),
            FlattenSeq([b \in 1..3 |-> map_insert(k + b)]) \o << M(tok, 512 * TokenSize) >>,
            A \cup {tok})
  BY <1>2, <1>7, LegalCat
<1> QED
  BY <1>8 DEF A, tok

-----------------------------------------------------------------------------
(* The calls of a run.                                                     *)

\* What the shell holds when the calls that are left have been made.
AtRest(B) ==
    /\ stage = "variables" => B = TableHeld(names)
    /\ stage = "directories" => B = Path \cup TableHeld(names)
    /\ stage = "builtins" => B = Path \cup TableHeld(names) /\ GivesUp
    /\ stage = "lines" => AtLine(B, next_num)

\* The next call overwrites a copy in history's ring, which is full; those that
\* follow are legal.
Overwrites(B) ==
    /\ todo # <<>> /\ Head(todo).op = "malloc" /\ Head(todo).bytes \in Nat
    /\ Head(todo).name \in DOMAIN owned /\ Head(todo).name[1] = "history"
    /\ next_num - 1 > HistorySize
    /\ next_num - 1 - HistorySize \notin DOMAIN lost
    /\ Legal(DOMAIN owned, Tail(todo), B)

\* How far the start is.
Counted ==
    /\ names \in Nat /\ next_num \in Nat \ {0}
    /\ env \in Seq(Variable) /\ var \in Nat \ {0} /\ dir \in Nat \ {0}
    /\ stage \in {"variables", "directories", "builtins", "lines"}
    /\ stage = "directories" => var \in 1..Len(env)
    /\ DOMAIN lost \subseteq 1..next_num - 1 - HistorySize

\* What is left to do is legal but for the overwriting of history, and ends with
\* the shell at rest.
CallsInv ==
    /\ Counted
    /\ \E B : AtRest(B) /\ (Legal(DOMAIN owned, todo, B) \/ Overwrites(B))

LEMMA CallsInvInit == Init => CallsInv
<1> SUFFICES ASSUME Init PROVE CallsInv
  OBVIOUS
<1>1. /\ DOMAIN owned = {} /\ DOMAIN lost = {} /\ next_num = 1 /\ names = 0
      /\ stage = "variables" /\ env \in Envs /\ var = 1 /\ dir = 1
      /\ todo = << M(<<"hash", 0>>, HashSize), M(<<"table", 0>>, TableSize[0] * PointerSize) >>
  BY DEF Init
<1>2. env \in Seq(Variable)
  BY <1>1, ShellHeapAssumption
<1>3. Counted
  BY <1>1, <1>2 DEF Counted
<1>4. Legal(DOMAIN owned, todo, TableHeld(0))
  BY <1>1, MapInitLegal
<1>5. AtRest(TableHeld(0))
  BY <1>1 DEF AtRest
<1> QED
  BY <1>3, <1>4, <1>5 DEF CallsInv

\* The shell at rest.
LEMMA Rests ==
    ASSUME CallsInv, todo = <<>>
    PROVE  AtRest(DOMAIN owned)
<1>1. PICK B : AtRest(B) /\ (Legal(DOMAIN owned, todo, B) \/ Overwrites(B))
  BY DEF CallsInv
<1>2. Legal(DOMAIN owned, todo, B)
  BY <1>1 DEF Overwrites
<1>3. PICK g : g[0] = DOMAIN owned /\ g[Len(todo)] = B
  BY <1>2 DEF Legal
<1>4. Len(todo) = 0
  BY EmptySeq
<1> QED
  BY <1>1, <1>3, <1>4

\* A call that is made.
LEMMA CallStep ==
    ASSUME CallsInv, CallMalloc \/ CallFree
    PROVE  CallsInv'
<1>1. PICK B : AtRest(B) /\ (Legal(DOMAIN owned, todo, B) \/ Overwrites(B))
  BY DEF CallsInv
<1>2. /\ stage' = stage /\ env' = env /\ var' = var /\ dir' = dir /\ names' = names
      /\ next_num' = next_num /\ todo' = Tail(todo) /\ todo # <<>>
  BY DEF CallMalloc, CallFree, start
<1>3. AtRest(B)'
  BY <1>1, <1>2 DEF AtRest, AtLine, GivesUp
<1>4. Counted
  BY DEF CallsInv
<1>5. ASSUME DOMAIN lost' \subseteq 1..next_num - 1 - HistorySize PROVE Counted'
  BY <1>2, <1>4, <1>5 DEF Counted
<1>6. ASSUME Legal(DOMAIN owned', Tail(todo), B), DOMAIN lost' \subseteq 1..next_num - 1 - HistorySize
      PROVE  CallsInv'
  BY <1>2, <1>3, <1>5, <1>6 DEF CallsInv
<1>7. CASE CallMalloc
  <2>1. /\ Head(todo).op = "malloc" /\ DOMAIN owned' = DOMAIN owned \cup {Head(todo).name}
        /\ lost' = IF Head(todo).name \in DOMAIN owned
                   THEN Put(lost, next_num - 1 - HistorySize, owned[Head(todo).name])
                   ELSE lost
    BY <1>7 DEF CallMalloc, Put
  <2>2. CASE Legal(DOMAIN owned, todo, B)
    <3>1. PICK C : Step(DOMAIN owned, Head(todo), C) /\ Legal(C, Tail(todo), B)
      BY <1>2, <2>2, LegalHead
    <3>2. C = DOMAIN owned' /\ Head(todo).name \notin DOMAIN owned
      BY <2>1, <3>1 DEF Step
    <3>3. lost' = lost
      BY <2>1, <3>2
    <3> QED
      BY <1>4, <1>6, <3>1, <3>2, <3>3 DEF Counted
  <2>3. CASE Overwrites(B)
    <3>1. DOMAIN owned' = DOMAIN owned
      BY <2>1, <2>3 DEF Overwrites
    <3>2. DOMAIN lost' = DOMAIN lost \cup {next_num - 1 - HistorySize}
      BY <2>1, <2>3 DEF Overwrites, Put
    <3>3. next_num - 1 - HistorySize \in 1..next_num - 1 - HistorySize
      <4>1. next_num \in Nat \ {0} /\ HistorySize \in Nat /\ next_num - 1 > HistorySize
        BY <1>4, <2>3, ShellHeapAssumption DEF Counted, Overwrites
      <4> QED
        BY ONLY <4>1
    <3>4. DOMAIN lost \subseteq 1..next_num - 1 - HistorySize
      BY <1>4 DEF Counted
    <3>5. DOMAIN lost' \subseteq 1..next_num - 1 - HistorySize
      BY <3>2, <3>3, <3>4
    <3>6. Legal(DOMAIN owned', Tail(todo), B)
      BY <2>3, <3>1 DEF Overwrites
    <3> QED
      BY <1>6, <3>5, <3>6
  <2> QED
    BY <1>1, <2>2, <2>3
<1>8. CASE CallFree
  <2>1. /\ Head(todo).op = "free" /\ DOMAIN owned' = DOMAIN owned \ {Head(todo).name}
        /\ lost' = lost
    BY <1>8 DEF CallFree, Restrict
  <2>2. Legal(DOMAIN owned, todo, B)
    <3>1. "free" # "malloc"
      OBVIOUS
    <3> QED
      BY <1>1, <2>1, <3>1 DEF Overwrites
  <2>3. PICK C : Step(DOMAIN owned, Head(todo), C) /\ Legal(C, Tail(todo), B)
    BY <1>2, <2>2, LegalHead
  <2>4. C = DOMAIN owned'
    BY <2>1, <2>3 DEF Step
  <2> QED
    BY <1>4, <1>6, <2>1, <2>3, <2>4 DEF Counted
<1> QED
  BY <1>7, <1>8

\* The start of main.
LEMMA StartStep ==
    ASSUME CallsInv, NextVariable \/ LoadDir \/ EndVariable \/ Builtins
    PROVE  CallsInv'
<1> PICK k : k = names
  OBVIOUS
<1>1. /\ todo = <<>> /\ owned' = owned /\ lost' = lost /\ env' = env
      /\ next_num' = next_num
  BY DEF NextVariable, LoadDir, EndVariable, Builtins, Computes
<1>2. AtRest(DOMAIN owned)
  BY <1>1, Rests
<1>3. Counted
  BY DEF CallsInv
<1>4. k \in Nat
  BY <1>3 DEF Counted
<1>5. ASSUME NEW B, Legal(DOMAIN owned, todo', B), AtRest(B)', Counted' PROVE CallsInv'
  BY <1>1, <1>5 DEF CallsInv
<1>6. CASE NextVariable
  <2>1. /\ stage = "variables" /\ var <= Len(env) /\ todo' = << M(<<"path">>, env[var].len + 2) >>
        /\ stage' = "directories" /\ dir' = 1 /\ var' = var /\ names' = names
    BY <1>6 DEF NextVariable, Computes
  <2>2. var \in 1..Len(env) /\ env[var] \in Variable
    <3>1. env \in Seq(Variable) /\ var \in Nat \ {0} /\ Len(env) \in Nat
      BY <1>3 DEF Counted
    <3>2. var \in 1..Len(env)
      BY ONLY <2>1, <3>1
    <3> QED
      BY <3>1, <3>2, ElementOfSeq
  <2>3. env[var].len + 2 \in Nat
    BY <2>2 DEF Variable
  <2>4. DOMAIN owned = TableHeld(k)
    BY <1>2, <2>1 DEF AtRest
  <2>5. Legal(TableHeld(k), << M(<<"path">>, env[var].len + 2) >>, Path \cup TableHeld(k))
    <3> DEFINE p == <<"path">>
               A == TableHeld(k)
    <3>1. p \in Names /\ p \notin A /\ Path = {p}
      BY <1>4, PathShape DEF Path
    <3>2. Path \cup A = A \cup {p}
      BY <3>1
    <3> HIDE DEF p, A
    <3>3. /\ Step(A, M(p, env[var].len + 2), A \cup {p}) /\ M(p, env[var].len + 2) \in Calls
      BY <2>3, <3>1, StepMalloc
    <3>4. Legal(A, << M(p, env[var].len + 2) >>, A \cup {p})
      BY <3>3, LegalOne
    <3> QED
      BY <3>2, <3>4 DEF p, A
  <2>6. AtRest(Path \cup TableHeld(k))'
    BY <2>1 DEF AtRest
  <2>7. Counted'
    BY <1>1, <1>3, <2>1, <2>2 DEF Counted
  <2> QED
    BY <1>5, <2>1, <2>4, <2>5, <2>6, <2>7
<1>7. CASE LoadDir
  <2> PICK d : d = env[var].dirs[dir]
    OBVIOUS
  <2> PICK n : n = IF d.opens /\ d.reads THEN k + d.names ELSE k
    OBVIOUS
  <2>1. /\ stage = "directories" /\ dir <= Len(env[var].dirs)
        /\ todo' = load_dir_into_symtab(d, k) /\ dir' = dir + 1 /\ var' = var
        /\ IF d.opens /\ d.reads THEN names' = names + d.names /\ stage' = stage
                                 ELSE names' = names /\ stage' = "builtins"
    BY <1>7 DEF LoadDir, Computes
  <2>2. /\ var \in 1..Len(env) /\ env \in Seq(Variable) /\ dir \in Nat \ {0}
        /\ env[var] \in Variable
    <3>1. var \in 1..Len(env) /\ env \in Seq(Variable) /\ dir \in Nat \ {0}
      BY <1>3, <2>1 DEF Counted
    <3> QED
      BY <3>1, ElementOfSeq
  <2>3. env[var].dirs \in Seq(Directory) /\ dir \in 1..Len(env[var].dirs) /\ d \in Directory
    <3>1. env[var].dirs \in Seq(Directory)
      BY <2>2 DEF Variable
    <3>2. dir \in 1..Len(env[var].dirs)
      BY <2>1, <2>2, <3>1
    <3> QED
      BY <3>1, <3>2, ElementOfSeq
  <2>4. /\ d.names \in Nat /\ n \in Nat /\ names' = n /\ dir' \in Nat \ {0}
        /\ stage' = IF d.opens /\ d.reads THEN "directories" ELSE "builtins"
    <3>1. d.names \in Nat
      BY <2>3 DEF Directory
    <3>2. n \in Nat /\ dir + 1 \in Nat \ {0}
      BY <1>4, <2>2, <3>1
    <3> QED
      BY <2>1, <3>1, <3>2
  <2>5. ~(d.opens /\ d.reads) => GivesUp
    <3>1. var \in DOMAIN env /\ dir \in DOMAIN env[var].dirs
      BY <2>2, <2>3
    <3> QED
      BY <3>1 DEF GivesUp
  <2>6. DOMAIN owned = Path \cup TableHeld(k)
    BY <1>2, <2>1 DEF AtRest
  <2>7. Legal(Path \cup TableHeld(k), load_dir_into_symtab(d, k), Path \cup TableHeld(n))
    <3>1. NoTable(Path) /\ \A x \in Path : x[1] \notin {"dirents", "full_path"}
      BY <1>4, PathShape
    <3>2. Legal(Path \cup TableHeld(k), load_dir_into_symtab(d, k),
                Path \cup TableHeld(IF d.opens /\ d.reads THEN k + d.names ELSE k))
      BY ONLY <1>4, <2>3, <3>1, LoadLegal
    <3> QED
      BY <3>2
  <2>8. GivesUp' <=> GivesUp
    BY <1>1 DEF GivesUp
  <2>9. AtRest(Path \cup TableHeld(n))'
    BY <2>4, <2>5, <2>8 DEF AtRest
  <2>10. Counted'
    <3>1. stage' \in {"variables", "directories", "builtins", "lines"}
      BY <2>4
    <3> QED
      BY <1>1, <1>3, <2>1, <2>2, <2>4, <3>1 DEF Counted
  <2> QED
    BY <1>5, <2>1, <2>6, <2>7, <2>9, <2>10
<1>8. CASE EndVariable
  <2>1. /\ stage = "directories" /\ todo' = << F(<<"path">>) >>
        /\ stage' = "variables" /\ dir' = dir /\ var' = var + 1 /\ names' = names
    BY <1>8 DEF EndVariable, Computes
  <2>2. DOMAIN owned = Path \cup TableHeld(k)
    BY <1>2, <2>1 DEF AtRest
  <2>3. Legal(Path \cup TableHeld(k), << F(<<"path">>) >>, TableHeld(k))
    <3> DEFINE p == <<"path">>
               A == Path \cup TableHeld(k)
    <3>1. p \in Names /\ p \notin TableHeld(k) /\ Path = {p}
      BY <1>4, PathShape DEF Path
    <3>2. p \in A /\ A \ {p} = TableHeld(k)
      BY <3>1
    <3> HIDE DEF p, A
    <3>3. Step(A, F(p), A \ {p}) /\ F(p) \in Calls
      BY <3>1, <3>2, StepFree
    <3>4. Legal(A, << F(p) >>, A \ {p})
      BY <3>3, LegalOne
    <3> QED
      BY <3>2, <3>4 DEF p, A
  <2>4. AtRest(TableHeld(k))'
    BY <2>1 DEF AtRest
  <2>5. Counted'
    <3>1. var + 1 \in Nat \ {0}
      BY <1>3 DEF Counted
    <3> QED
      BY <1>1, <1>3, <2>1, <3>1 DEF Counted
  <2> QED
    BY <1>5, <2>1, <2>2, <2>3, <2>4, <2>5
<1>9. CASE Builtins
  <2> DEFINE tok == <<"tokens">>
  <2>1. /\ stage \in {"variables", "builtins"} /\ stage' = "lines"
        /\ todo' = FlattenSeq([b \in 1..3 |-> map_insert(k + b)])
                     \o << M(tok, 512 * TokenSize) >>
        /\ names' = k + 3 /\ var' = var /\ dir' = dir
    BY <1>9 DEF Builtins, Computes
  <2>2. PICK E : /\ E \subseteq Path /\ (E # {} => GivesUp)
                 /\ DOMAIN owned = E \cup TableHeld(k)
    <3>1. CASE stage = "variables"
      <4>1. DOMAIN owned = {} \cup TableHeld(k)
        BY <1>2, <3>1 DEF AtRest
      <4> QED
        BY <4>1
    <3>2. CASE stage = "builtins"
      <4>1. DOMAIN owned = Path \cup TableHeld(k) /\ GivesUp
        BY <1>2, <3>2 DEF AtRest
      <4> QED
        BY <4>1
    <3> QED
      BY <2>1, <3>1, <3>2
  <2>3. \A x \in E : x = <<"path">> /\ x[1] = "path"
    BY <2>2 DEF Path
  <2> DEFINE B == (E \cup TableHeld(k + 3)) \cup {tok}
  <2>4. Legal(E \cup TableHeld(k),
              FlattenSeq([b \in 1..3 |-> map_insert(k + b)]) \o << M(tok, 512 * TokenSize) >>, B)
    BY <1>4, <2>3, BuiltinsLegal
  <2>5. AtLine(B, next_num)
    <3>1. \A x \in TableHeld(k + 3) : x[1] \in {"hash", "table", "pair"}
      <4>1. k + 3 \in Nat
        BY <1>4
      <4> QED
        BY <4>1, TableHeldNames
    <3>2. tok[1] = "tokens"
      OBVIOUS
    <3> HIDE DEF tok
    <3>3. \A x \in B : \/ x[1] \in {"hash", "table", "pair", "tokens"}
                       \/ x = <<"path">> /\ x[1] = "path" /\ GivesUp
      BY <2>2, <2>3, <3>1, <3>2
    <3> HIDE DEF B
    <3> QED
      BY <3>3 DEF AtLine, Kept
  <2> HIDE DEF B, tok
  <2>6. AtRest(B)'
    <3>1. AtLine(B, next_num)'
      BY <1>1, <2>5 DEF AtLine, GivesUp
    <3> QED
      BY <2>1, <3>1 DEF AtRest
  <2>7. Counted'
    <3>1. k + 3 \in Nat
      BY <1>4
    <3> QED
      BY <1>1, <1>3, <2>1, <3>1 DEF Counted
  <2> QED
    BY <1>5, <2>1, <2>2, <2>4, <2>6, <2>7
<1> QED
  BY <1>6, <1>7, <1>8, <1>9

\* A line.
LEMMA LineStep ==
    ASSUME CallsInv, NEW l \in Lines, EnterLine(l)
    PROVE  CallsInv'
<1> PICK n : n = next_num
  OBVIOUS
<1> PICK A : A = DOMAIN owned
  OBVIOUS
<1> PICK x : x = <<"history", (n - 1) % HistorySize>>
  OBVIOUS
<1>1. /\ todo = <<>> /\ stage = "lines" /\ owned' = owned /\ lost' = lost /\ env' = env
      /\ stage' = stage /\ var' = var /\ dir' = dir /\ names' = names
  BY DEF EnterLine, Computes
<1>2. PICK repeated \in BOOLEAN :
          todo' = LineCalls(l, repeated, n) /\ next_num' = n + (IF repeated THEN 0 ELSE 1)
  BY DEF EnterLine
<1>3. AtLine(A, n) /\ Counted
  BY <1>1, Rests DEF AtRest, CallsInv
<1>4. n \in Nat \ {0} /\ HistorySize \in Nat \ {0} /\ DOMAIN lost \subseteq 1..n - 1 - HistorySize
  BY <1>3, ShellHeapAssumption DEF Counted
<1>5. /\ Legal(A, LineCalls(l, TRUE, n), A)
      /\ AtLine(A \cup {x}, n + 1)
      /\ x \notin A => Legal(A, LineCalls(l, FALSE, n), A \cup {x})
      /\ x \in A => /\ n > HistorySize
                    /\ Head(LineCalls(l, FALSE, n)) = M(x, l.len + 1)
                    /\ Tail(LineCalls(l, FALSE, n)) = Work(l)
                    /\ LineCalls(l, FALSE, n) # <<>>
                    /\ Legal(A, Work(l), A)
      /\ x \in Names /\ x[1] = "history" /\ l.len + 1 \in Nat
  BY <1>3, <1>4, LineLegal
<1>6. Counted'
  <2>1. next_num' \in Nat \ {0} /\ DOMAIN lost \subseteq 1..next_num' - 1 - HistorySize
    BY <1>2, <1>4
  <2> QED
    BY <1>1, <1>3, <2>1 DEF Counted
<1>7. ASSUME NEW B, AtLine(B, next_num') PROVE AtRest(B)'
  <2>1. AtLine(B, next_num)'
    BY <1>1, <1>7 DEF AtLine, GivesUp
  <2> QED
    BY <1>1, <2>1 DEF AtRest
<1>8. CASE repeated
  <2>1. todo' = LineCalls(l, TRUE, n) /\ next_num' = n
    BY <1>2, <1>4, <1>8
  <2>2. AtRest(A)' /\ Legal(DOMAIN owned', todo', A)
    BY <1>1, <1>3, <1>5, <1>7, <2>1
  <2> QED
    BY <1>6, <2>2 DEF CallsInv
<1>9. CASE ~repeated
  <2>1. todo' = LineCalls(l, FALSE, n) /\ next_num' = n + 1
    BY <1>2, <1>9
  <2>2. AtRest(A \cup {x})'
    BY <1>5, <1>7, <2>1
  <2>3. CASE x \notin A
    <3>1. Legal(DOMAIN owned', todo', A \cup {x})
      BY <1>1, <1>5, <2>1, <2>3
    <3> QED
      BY <1>6, <2>2, <3>1 DEF CallsInv
  <2>4. CASE x \in A
    <3>1. /\ todo' # <<>> /\ Head(todo') = M(x, l.len + 1)
          /\ Legal(A, Tail(todo'), A)
      BY <1>5, <2>1, <2>4
    <3>2. /\ Head(todo').op = "malloc" /\ Head(todo').bytes = l.len + 1
          /\ Head(todo').name = x
      BY <3>1, CallShape
    <3>3. next_num' - 1 > HistorySize /\ next_num' - 1 - HistorySize \notin DOMAIN lost
      <4>1. n > HistorySize
        BY <1>5, <2>4
      <4> QED
        BY ONLY <1>4, <2>1, <4>1
    <3>4. A \cup {x} = A
      BY <2>4
    <3>5. Overwrites(A \cup {x})'
      BY <1>1, <1>5, <2>4, <3>1, <3>2, <3>3, <3>4 DEF Overwrites
    <3> QED
      BY <1>6, <2>2, <3>5 DEF CallsInv
  <2> QED
    BY <2>3, <2>4
<1> QED
  BY <1>8, <1>9

LEMMA CallsInvStep ==
    ASSUME CallsInv, [Next]_vars
    PROVE  CallsInv'
<1>1. CASE UNCHANGED vars
  BY <1>1 DEF vars, start, heap, CallsInv, Counted, AtRest, AtLine, GivesUp, Overwrites
<1> QED
  BY <1>1, CallStep, StartStep, LineStep DEF Next

-----------------------------------------------------------------------------
(* The theorems.  The shell keeps to its side of the contract with the       *)
(* allocator but for what history overwrites; that no block is freed while   *)
(* its prev leads astray remains a hypothesis of those about the blocks.     *)

\* At every step of every run what is left of main's calls is legal but for the
\* copy that history overwrites, and ends with the shell at rest.
THEOREM CallsInvAlways == Spec => []CallsInv
BY CallsInvInit, CallsInvStep, PTL DEF Spec

\* What CallsInv says of the next call.
LEMMA NextCall ==
    ASSUME CallsInv, todo # <<>>
    PROVE  /\ Head(todo).op \in {"malloc", "free"}
           /\ Head(todo).op = "malloc" =>
                 /\ Head(todo).bytes \in Nat
                 /\ Head(todo).name \in DOMAIN owned =>
                       /\ Head(todo).name[1] = "history" /\ next_num - 1 > HistorySize
                       /\ next_num - 1 - HistorySize \notin DOMAIN lost
           /\ Head(todo).op = "free" => Head(todo).name \in DOMAIN owned
<1>1. PICK B : Legal(DOMAIN owned, todo, B) \/ Overwrites(B)
  BY DEF CallsInv
<1>2. CASE Legal(DOMAIN owned, todo, B)
  <2>1. PICK C : Step(DOMAIN owned, Head(todo), C)
    BY <1>2, LegalHead
  <2>2. Head(todo) \in Calls
    BY <1>2, LegalHead
  <2>3. Head(todo).op \in {"malloc", "free"} /\ Head(todo).bytes \in Nat
    BY <2>2 DEF Calls
  <2> QED
    BY <2>1, <2>3 DEF Step
<1>3. CASE Overwrites(B)
  <2>1. "free" # "malloc"
    OBVIOUS
  <2> QED
    BY <1>3, <2>1 DEF Overwrites
<1> QED
  BY <1>1, <1>2, <1>3

\* The shell's side of the contract with the allocator: whatever the lines and
\* the directories, and however often it enters lines, it frees only what it holds,
\* and the one pointer that it overwrites before what it leads to has been freed is
\* that of the oldest line, in a ring of history that is full (history.c:66).
THEOREM ContractKept == Spec => []CallsLegal
<1>1. CallsInv => CallsLegal
  <2> SUFFICES ASSUME CallsInv, todo # <<>>
               PROVE  IF Head(todo).op = "malloc"
                      THEN /\ Head(todo).bytes \in Nat
                           /\ Head(todo).name \in DOMAIN owned =>
                                 Head(todo).name[1] = "history" /\ next_num - 1 > HistorySize
                      ELSE Head(todo).name \in DOMAIN owned
    BY DEF CallsLegal
  <2> QED
    BY NextCall
<1> QED
  BY <1>1, CallsInvAlways, PTL

\* When a line has been executed its memory has been given back: all that is left
\* of the lines is one copy in each place of history's ring, and one lost copy for
\* each line that has been pushed out of it; of the start, the tables, and the copy
\* of PATH if a directory of it could not be loaded.
THEOREM HistoryRemains == Spec => []HistoryLeft
<1>1. CallsInv => HistoryLeft
  <2> SUFFICES ASSUME CallsInv, todo = <<>>, stage = "lines"
               PROVE  /\ \A name \in DOMAIN owned :
                            \/ name[1] \in {"hash", "table", "pair", "tokens"}
                            \/ name = <<"path">> /\ GivesUp
                            \/ \E i \in 0..HistorySize - 1 :
                                  i < next_num - 1 /\ name = <<"history", i>>
                      /\ DOMAIN lost \subseteq 1..next_num - 1 - HistorySize
    BY DEF HistoryLeft
  <2>1. AtLine(DOMAIN owned, next_num)
    BY Rests DEF AtRest
  <2>2. DOMAIN lost \subseteq 1..next_num - 1 - HistorySize
    BY DEF CallsInv, Counted
  <2>3. ASSUME NEW name \in DOMAIN owned
        PROVE  \/ name[1] \in {"hash", "table", "pair", "tokens"}
               \/ name = <<"path">> /\ GivesUp
               \/ \E i \in 0..HistorySize - 1 : i < next_num - 1 /\ name = <<"history", i>>
    BY <2>1 DEF AtLine, Kept
  <2> QED
    BY <2>2, <2>3
<1> QED
  BY <1>1, CallsInvAlways, PTL

LEMMA HeapSoundAlways == Spec => ([]FreeSound => []HeapSound)
<1>1. Init => HeapSound
  BY HeapSoundInit
<1>2. CallsInv => LossFits
  BY NextCall DEF LossFits
<1>3. HeapSound /\ CallsLegal /\ LossFits /\ FreeSound /\ [Next]_vars => HeapSound'
  BY HeapSoundStep
<1> QED
  BY <1>1, <1>2, <1>3, ContractKept, CallsInvAlways, PTL DEF Spec

\* Every block lies in the heap, is aligned, and is linked to another block and
\* to one before it.
THEOREM BlocksWellFormed == Spec => ([]FreeSound => []TypeOK)
<1>1. HeapSound => TypeOK
  <2> SUFFICES ASSUME HeapSound PROVE TypeOK
    OBVIOUS
  <2>1. Tiled(blk, heap_end) /\ Held
    BY DEF HeapSound
  <2>2. heap_end \in Nat /\ heap_start \in DOMAIN blk /\ HeaderSize \in Nat
    BY <2>1, HeapSizesAssumption DEF Tiled, Headers, Sizes
  <2>3. ASSUME NEW a \in DOMAIN blk
        PROVE  /\ a \in 0..heap_end - HeaderSize /\ (a % MACHINE_ALIGNMENT) = 0
               /\ blk[a].size \in 0..heap_end
               /\ blk[a].free \in BOOLEAN
               /\ blk[a].next \in DOMAIN blk \cup {NULL}
               /\ blk[a].prev = NULL \/ blk[a].prev \in 0..a - 1
    <3>1. /\ a \in Nat /\ blk[a].size \in Nat /\ blk[a].free \in BOOLEAN
          /\ blk[a].next = NULL \/ blk[a].next \in DOMAIN blk
          /\ blk[a].prev = NULL \/ (blk[a].prev \in Nat /\ blk[a].prev < a)
          /\ a + HeaderSize <= heap_end
      BY <2>1, TiledShape
    <3>2. (a % MACHINE_ALIGNMENT) = 0
      BY <2>1 DEF Tiled, Headers, Sizes
    <3>3. a + HeaderSize + blk[a].size <= heap_end
      BY <2>1 DEF Tiled, Disjoint, EndOf
    <3>4. a \in 0..heap_end - HeaderSize /\ blk[a].size \in 0..heap_end
      BY <2>2, <3>1, <3>3
    <3>5. blk[a].prev = NULL \/ blk[a].prev \in 0..a - 1
      BY <3>1
    <3> QED
      BY <3>1, <3>2, <3>4, <3>5
  <2>4. \A name \in DOMAIN owned : owned[name].at \in DOMAIN blk
    BY <2>1 DEF Held, HeldBy, Lives
  <2> QED
    BY <2>2, <2>3, <2>4 DEF TypeOK
<1> QED
  BY <1>1, HeapSoundAlways, PTL

\* What my_malloc gives out is the shell's alone until it is freed, what history
\* has lost included.
THEOREM ObjectsDisjoint == Spec => ([]FreeSound => []NoOverlap)
<1>1. ASSUME HeapSound, NEW o, NEW p, Lives(blk, o), Lives(blk, p), o.at # p.at
      PROVE  Apart(o, p)
  <2> DEFINE a == o.at
             b == p.at
  <2>1. Tiled(blk, heap_end)
    BY <1>1 DEF HeapSound
  <2>2. /\ a \in DOMAIN blk /\ b \in DOMAIN blk /\ a # b
        /\ o.bytes \in Nat /\ p.bytes \in Nat
        /\ o.bytes <= blk[a].size /\ p.bytes <= blk[b].size
    BY <1>1 DEF Lives
  <2> HIDE DEF a, b
  <2>3. /\ a \in Nat /\ b \in Nat /\ blk[a].size \in Nat /\ blk[b].size \in Nat
        /\ HeaderSize \in Nat
    BY <2>1, <2>2, TiledShape, HeapSizesAssumption
  <2>4. /\ a < b => a + HeaderSize + blk[a].size <= b
        /\ b < a => b + HeaderSize + blk[b].size <= a
    BY <2>1, <2>2 DEF Tiled, Disjoint, EndOf
  <2>5. a < b \/ b < a
    BY <2>2, <2>3
  <2>6. \/ a + HeaderSize + o.bytes <= b
        \/ b + HeaderSize + p.bytes <= a
    BY <2>2, <2>3, <2>4, <2>5
  <2> QED
    BY <2>6 DEF a, b, Apart
<1>2. HeapSound => NoOverlap
  BY <1>1 DEF HeapSound, Held, HeldBy, Separate, Serves, NoOverlap
<1> QED
  BY <1>2, HeapSoundAlways, PTL

\* The list covers the heap, and the blocks in use are exactly those that have
\* not been freed: my_free calls no pointer invalid.
THEOREM ListTilesHeap == Spec => ([]FreeSound => []HeapTiled)
<1>1. HeapSound => HeapTiled
  <2> SUFFICES ASSUME HeapSound PROVE HeapTiled
    OBVIOUS
  <2>1. Tiled(blk, heap_end) /\ Held
    BY DEF HeapSound
  <2>2. Listed = DOMAIN blk
    BY <2>1, ListedWalks
  <2>3. \A a \in Listed : IF blk[a].next = NULL THEN End(a) = heap_end
                                                ELSE End(a) = blk[a].next
    BY <2>1, <2>2 DEF Tiled, Joined, End, EndOf
  <2>4. {a \in Listed : ~blk[a].free} =
           {owned[n].at : n \in DOMAIN owned} \cup {lost[n].at : n \in DOMAIN lost}
    BY <2>1, <2>2 DEF Held, HeldBy, Lives, Serves
  <2> QED
    BY <2>3, <2>4 DEF HeapTiled
<1> QED
  BY <1>1, HeapSoundAlways, PTL

=============================================================================
