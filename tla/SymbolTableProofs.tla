-------------------------- MODULE SymbolTableProofs --------------------------
(* Proofs about the symbol table, what main puts in it and what the executor *)
(* finds there, for every hash function, number of slots, environment and    *)
(* line.                                                                     *)
EXTENDS FrontEndProofs

-----------------------------------------------------------------------------
(* Probing.                                                                  *)

\* With a prime number of slots, hash2 gives a step that is no multiple of it.
LEMMA ProbeShape ==
    ASSUME NEW name \in Names, NEW size \in Nat, IsPrime(size)
    PROVE  /\ FNV1a[name] % size \in 0..size - 1
           /\ 1 + (FNV1a[name] % (size - 1)) \in 1..size - 1
           /\ \A j \in Nat : Probe(name, j, size) \in 0..size - 1
<1>1. FNV1a[name] \in Nat /\ size \in Nat \ {0} /\ size - 1 \in Nat \ {0}
  BY SymbolTableAssumption DEF IsPrime
<1> DEFINE h == FNV1a[name] % size
           s == 1 + (FNV1a[name] % (size - 1))
<1>2. h \in 0..size - 1
  BY <1>1, Division
<1>3. s \in 1..size - 1
  <2> DEFINE r == FNV1a[name] % (size - 1)
  <2>1. r \in 0..(size - 1) - 1
    BY <1>1, Division
  <2> HIDE DEF r
  <2>2. 1 + r \in 1..size - 1
    BY <1>1, <2>1
  <2> QED
    BY <2>2 DEF r
<1> HIDE DEF h, s
<1>4. ASSUME NEW j \in Nat PROVE (h + j * s) % size \in 0..size - 1
  <2>1. h + j * s \in Nat
    BY <1>1, <1>2, <1>3
  <2> QED
    BY <1>1, <2>1, Division
<1> QED
  BY <1>2, <1>3, <1>4 DEF Probe, h, s

LEMMA ProbesDiffer ==
    ASSUME NEW name \in Names, NEW size \in Nat, IsPrime(size),
           NEW j \in 0..size - 1, NEW k \in 0..size - 1, j < k
    PROVE  Probe(name, j, size) # Probe(name, k, size)
<1> DEFINE h == FNV1a[name] % size
           s == 1 + (FNV1a[name] % (size - 1))
           Slot(i) == h + i * s
<1>1. size \in Nat \ {0} /\ h \in Nat /\ s \in 1..size - 1 /\ s \in Nat
  <2>1. h \in 0..size - 1 /\ s \in 1..size - 1
    BY ProbeShape
  <2> HIDE DEF h, s
  <2>2. size \in Nat \ {0}
    BY DEF IsPrime
  <2> QED
    BY <2>1, <2>2
<1>2. Probe(name, j, size) = Slot(j) % size /\ Probe(name, k, size) = Slot(k) % size
  BY DEF Probe
<1> HIDE DEF h, s
<1>3. Slot(j) \in Nat /\ Slot(k) \in Nat /\ j \in Nat /\ k \in Nat
  BY <1>1
<1> HIDE DEF Slot
<1>4. ASSUME Slot(j) % size = Slot(k) % size PROVE FALSE
  <2> DEFINE r == Slot(j) % size
  <2>1. PICK p \in Nat : Slot(j) = size * p + r
    BY <1>1, <1>3, Division
  <2>2. PICK q \in Nat : Slot(k) = size * q + r
    BY <1>1, <1>3, <1>4, Division
  <2>3. r \in Nat
    <3>1. r \in 0..size - 1
      BY <1>1, <1>3, Division
    <3> QED
      BY <1>1, <3>1
  <2> HIDE DEF r
  <2>4. Slot(k) - Slot(j) = size * (q - p)
    BY <1>1, <2>1, <2>2, <2>3
  <2>5. Slot(k) - Slot(j) = s * (k - j) /\ s * (k - j) > 0
    <3>1. Slot(k) - Slot(j) = s * (k - j)
      BY <1>1, <1>3 DEF Slot
    <3>2. s > 0 /\ k - j > 0 /\ k - j \in Nat
      BY <1>1, <1>3
    <3>3. s * (k - j) > 0
      BY <1>1, <3>2
    <3> QED
      BY <3>1, <3>3
  <2>6. q - p \in Nat
    <3> DEFINE d == q - p
    <3>1. d \in Int /\ size * d > 0
      BY <2>4, <2>5
    <3> HIDE DEF d
    <3>2. d >= 0
      <4>1. d < 0 => size * d <= 0
        BY <1>1, <3>1
      <4> QED
        BY <1>1, <3>1, <4>1
    <3>3. d \in Nat
      BY <3>1, <3>2
    <3> QED
      BY <3>3 DEF d
  <2>7. Divides(size, s * (k - j))
    <3>1. s * (k - j) = size * (q - p)
      BY <2>4, <2>5
    <3> QED
      BY <2>6, <3>1 DEF Divides
  <2>8. k - j \in 1..size - 1
    BY <1>1, <1>3
  <2> QED
    BY <1>1, <2>7, <2>8, NoCommonDivisor
<1> QED
  BY <1>2, <1>4

\* So probing for a name comes to every slot.
LEMMA ProbesCover ==
    ASSUME NEW name \in Names, NEW size \in Nat, IsPrime(size), NEW i \in 0..size - 1
    PROVE  \E j \in 0..size - 1 : Probe(name, j, size) = i
<1> DEFINE S == 0..size - 1
           f == [j \in S |-> Probe(name, j, size)]
<1>1. f \in [S -> S]
  BY ProbeShape
<1>2. ASSUME NEW j \in S, NEW k \in S, j # k PROVE f[j] # f[k]
  <2>1. j < k \/ k < j
    BY <1>2
  <2> QED
    BY <2>1, ProbesDiffer
<1>3. f \in Injection(S, S)
  <2> HIDE DEF f, S
  <2> QED
    BY <1>1, <1>2 DEF Injection, IsInjective
<1>4. IsFiniteSet(S)
  BY FS_Interval
<1>5. f \in Surjection(S, S)
  <2> HIDE DEF f, S
  <2> QED
    BY <1>3, <1>4, FS_Injection
<1>6. \E j \in S : f[j] = i
  BY <1>5 DEF Surjection
<1> QED
  BY <1>6

\* First finds a slot of S whenever there is one, and the first that is tried.
LEMMA FirstShape ==
    ASSUME NEW name \in Names, NEW size \in Nat, IsPrime(size),
           NEW S \in SUBSET (0..size - 1), S # {}
    PROVE  \E j \in 0..size - 1 : /\ Probe(name, j, size) = First(name, size, S)
                                  /\ Probe(name, j, size) \in S
                                  /\ \A k \in 0..j - 1 : Probe(name, k, size) \notin S
<1> DEFINE tries == {j \in 0..size - 1 : Probe(name, j, size) \in S}
           first == CHOOSE j \in tries : \A k \in tries : j <= k
<1>1. tries \in SUBSET Nat /\ tries # {}
  <2>1. PICK i \in S : TRUE
    OBVIOUS
  <2>2. PICK j \in 0..size - 1 : Probe(name, j, size) = i
    BY ProbesCover
  <2> QED
    BY <2>1, <2>2
<1>2. First(name, size, S) = Probe(name, first, size)
  BY <1>1 DEF First
<1>3. first \in tries /\ \A k \in tries : first <= k
  <2> HIDE DEF tries
  <2>1. \E j \in tries : \A k \in tries : j <= k
    BY <1>1, LeastNumber
  <2> QED
    BY <2>1
<1> HIDE DEF first
<1>4. first \in 0..size - 1 /\ Probe(name, first, size) \in S
  BY <1>3
<1>5. ASSUME NEW k \in 0..first - 1 PROVE Probe(name, k, size) \notin S
  <2>1. k \in 0..size - 1 /\ ~(first <= k)
    BY <1>4
  <2> QED
    BY <1>3, <2>1
<1> QED
  BY <1>2, <1>4, <1>5

\* It is the only one with that property.
LEMMA FirstIs ==
    ASSUME NEW name \in Names, NEW size \in Nat, IsPrime(size),
           NEW S \in SUBSET (0..size - 1), NEW j \in 0..size - 1,
           Probe(name, j, size) \in S,
           \A k \in 0..j - 1 : Probe(name, k, size) \notin S
    PROVE  First(name, size, S) = Probe(name, j, size)
<1>1. PICK i \in 0..size - 1 : /\ Probe(name, i, size) = First(name, size, S)
                               /\ Probe(name, i, size) \in S
                               /\ \A k \in 0..i - 1 : Probe(name, k, size) \notin S
  BY FirstShape
<1>2. ~(i < j) /\ ~(j < i)
  BY <1>1
<1>3. i = j
  BY <1>2
<1> QED
  BY <1>1, <1>3

\* When slots are taken out of S, the first one stays first.
LEMMA FirstKept ==
    ASSUME NEW name \in Names, NEW size \in Nat, IsPrime(size),
           NEW S \in SUBSET (0..size - 1), NEW T \in SUBSET S,
           First(name, size, S) \in T
    PROVE  First(name, size, T) = First(name, size, S)
<1>1. PICK j \in 0..size - 1 : /\ Probe(name, j, size) = First(name, size, S)
                               /\ \A k \in 0..j - 1 : Probe(name, k, size) \notin S
  BY FirstShape
<1>2. \A k \in 0..j - 1 : Probe(name, k, size) \notin T
  BY <1>1
<1>3. T \in SUBSET (0..size - 1) /\ Probe(name, j, size) \in T
  BY <1>1
<1> QED
  BY <1>1, <1>2, <1>3, FirstIs

-----------------------------------------------------------------------------
(* Maps.                                                                     *)

Contents == KeyValuePair \cup {NULL, JUNK}
HashOf(n) == [size: {n}, num: Nat, slot: [0..n - 1 -> Contents]]

\* The slots that hold an entry.
Held(m) == DOMAIN m.slot \ (Free(m) \cup Wild(m))

MapOK(m) ==
    /\ m.size \in Nat /\ IsPrime(m.size)
    /\ m \in HashOf(m.size)
    /\ m.num = Cardinality(Held(m))

\* Every entry is the one that probing for its name comes to.
Clean(m) ==
    /\ Wild(m) = {}
    /\ \A i \in Held(m) : Stop(m, m.slot[i].cmd) = i

LEMMA NullIsNoValue ==
    /\ NULL \notin Nat /\ NULL \notin Names /\ NULL \notin Path /\ NULL \notin Value
    /\ NULL \notin KeyValuePair /\ NULL # JUNK /\ JUNK \notin KeyValuePair
<1>1. /\ NULL \notin Nat /\ NULL \notin Names /\ NULL \notin Path /\ NULL \notin Value
      /\ NULL \notin KeyValuePair /\ NULL # JUNK
  BY SymbolTableAssumption
<1>2. ASSUME JUNK \in KeyValuePair PROVE FALSE
  <2>1. JUNK.cmd \in Names
    BY <1>2 DEF KeyValuePair
  <2>2. JUNK.cmd = NULL
    BY DEF JUNK
  <2> QED
    BY <1>1, <2>1, <2>2
<1> QED
  BY <1>1, <1>2

LEMMA MapShape ==
    ASSUME NEW m, MapOK(m)
    PROVE  /\ m.size \in Nat /\ IsPrime(m.size) /\ m.num \in Nat
           /\ m = [size |-> m.size, num |-> m.num, slot |-> m.slot]
           /\ m.slot \in [0..m.size - 1 -> Contents]
           /\ DOMAIN m.slot = 0..m.size - 1
           /\ Free(m) \in SUBSET (0..m.size - 1)
           /\ Wild(m) \in SUBSET (0..m.size - 1)
           /\ Held(m) \in SUBSET (0..m.size - 1)
           /\ \A i \in Held(m) : m.slot[i] \in KeyValuePair
<1>1. m.size \in Nat /\ IsPrime(m.size) /\ m \in HashOf(m.size)
  BY DEF MapOK
<1>2. /\ m.num \in Nat /\ m.slot \in [0..m.size - 1 -> Contents]
      /\ m = [size |-> m.size, num |-> m.num, slot |-> m.slot]
  BY <1>1 DEF HashOf
<1>3. DOMAIN m.slot = 0..m.size - 1
  BY <1>2
<1>4. \A i \in Held(m) : m.slot[i] \in KeyValuePair
  BY <1>2 DEF Held, Free, Wild, Contents
<1> QED
  BY <1>1, <1>2, <1>3, <1>4 DEF Held, Free, Wild

LEMMA MatchingShape ==
    ASSUME NEW m, MapOK(m), NEW name \in Names
    PROVE  Matching(m, name) = {i \in Held(m) : m.slot[i].cmd = name}
<1>1. ASSUME NEW i \in Wild(m), m.slot[i].cmd = name PROVE FALSE
  BY <1>1, NullIsNoValue DEF Wild, JUNK
<1> QED
  BY <1>1 DEF Matching, Held

\* Where probing ends when the memory was clean.
Ends(m, name) == Free(m) \cup Matching(m, name)

LEMMA StopShape ==
    ASSUME NEW m, MapOK(m), Wild(m) = {}, NEW name \in Names
    PROVE  /\ Stop(m, name) = First(name, m.size, Ends(m, name))
           /\ Ends(m, name) \in SUBSET (0..m.size - 1)
           /\ Ends(m, name) # {} => Stop(m, name) \in Ends(m, name)
<1>1. Stop(m, name) = First(name, m.size, Ends(m, name))
  <2>1. Free(m) \cup Wild(m) \cup Matching(m, name) = Ends(m, name)
    BY DEF Ends
  <2> QED
    BY <2>1 DEF Stop
<1>2. Ends(m, name) \in SUBSET (0..m.size - 1)
  BY MapShape, MatchingShape DEF Ends
<1>3. ASSUME Ends(m, name) # {} PROVE Stop(m, name) \in Ends(m, name)
  BY <1>1, <1>2, <1>3, FirstShape, MapShape
<1> QED
  BY <1>1, <1>2, <1>3

\* A name has one entry at most, and map_lookup finds it.
LEMMA OneEntry ==
    ASSUME NEW m, MapOK(m), Clean(m), NEW i \in Held(m)
    PROVE  /\ m.slot[i].cmd \in Names
           /\ Matching(m, m.slot[i].cmd) = {i}
           /\ Lookup(m, m.slot[i].cmd) = m.slot[i].val
<1>1. m.slot[i].cmd \in Names
  BY MapShape DEF KeyValuePair
<1>2. Matching(m, m.slot[i].cmd) = {i}
  BY <1>1, MatchingShape DEF Clean
<1>3. Stop(m, m.slot[i].cmd) = i
  BY DEF Clean
<1> QED
  BY <1>1, <1>2, <1>3 DEF Lookup

LEMMA NoEntry ==
    ASSUME NEW m, MapOK(m), NEW name \in Names, \A i \in Held(m) : m.slot[i].cmd # name
    PROVE  Matching(m, name) = {} /\ Lookup(m, name) = NULL
<1>1. Matching(m, name) = {}
  BY MatchingShape
<1> QED
  BY <1>1 DEF Lookup

\* An entry that is found is held, and is no NULL.
LEMMA FoundHeld ==
    ASSUME NEW m, MapOK(m), Clean(m), NEW name \in Names, Lookup(m, name) # NULL
    PROVE  \E i \in Held(m) : m.slot[i].cmd = name /\ Lookup(m, name) = m.slot[i].val
<1>1. PICK i \in Held(m) : m.slot[i].cmd = name
  BY NoEntry
<1> QED
  BY <1>1, OneEntry

\* Two clean maps with the same entries are the same to map_lookup.
LEMMA SameEntries ==
    ASSUME NEW m, MapOK(m), Clean(m), NEW n, MapOK(n), Clean(n),
           \A i \in Held(m) : \E k \in Held(n) : m.slot[i] = n.slot[k],
           \A k \in Held(n) : \E i \in Held(m) : m.slot[i] = n.slot[k],
           NEW name \in Names
    PROVE  Lookup(m, name) = Lookup(n, name)
<1>1. CASE \E i \in Held(m) : m.slot[i].cmd = name
  <2>1. PICK i \in Held(m) : m.slot[i].cmd = name
    BY <1>1
  <2>2. PICK k \in Held(n) : m.slot[i] = n.slot[k]
    BY <2>1
  <2> QED
    BY <2>1, <2>2, OneEntry
<1>2. CASE \A i \in Held(m) : m.slot[i].cmd # name
  <2>1. \A k \in Held(n) : n.slot[k].cmd # name
    BY <1>2
  <2> QED
    BY <1>2, <2>1, NoEntry
<1> QED
  BY <1>1, <1>2

\* A map that is not full has a free slot.
LEMMA RoomIsFree ==
    ASSUME NEW m, MapOK(m), Wild(m) = {}, m.num < m.size
    PROVE  Free(m) # {}
<1>1. ASSUME Free(m) = {} PROVE FALSE
  <2>1. Held(m) = 0..m.size - 1
    BY <1>1, MapShape DEF Held
  <2>2. Cardinality(0..m.size - 1) = m.size
    <3>1. m.size \in Nat /\ m.size > 1
      BY MapShape DEF IsPrime
    <3> QED
      BY <3>1, FS_Interval
  <2> QED
    BY <2>1, <2>2 DEF MapOK
<1> QED
  BY <1>1

LEMMA PutShape ==
    ASSUME NEW m, MapOK(m), NEW p \in Free(m), NEW e \in KeyValuePair
    PROVE  LET n == Put(m, p, e)
           IN  /\ MapOK(n)
               /\ n.size = m.size /\ n.num = m.num + 1
               /\ n.slot = [m.slot EXCEPT ![p] = e]
               /\ Free(n) = Free(m) \ {p}
               /\ Wild(n) = Wild(m)
               /\ Held(n) = Held(m) \cup {p}
<1> DEFINE n == Put(m, p, e)
<1>1. /\ m = [size |-> m.size, num |-> m.num, slot |-> m.slot]
      /\ m.slot \in [0..m.size - 1 -> Contents] /\ p \in 0..m.size - 1
      /\ m.size \in Nat /\ IsPrime(m.size) /\ m.num \in Nat
  BY MapShape
<1> DEFINE g == [m.slot EXCEPT ![p] = e]
<1>2. n = [m EXCEPT !.slot = g, !.num = m.num + 1]
  BY DEF Put
<1>3. n.size = m.size /\ n.num = m.num + 1 /\ n.slot = [m.slot EXCEPT ![p] = e]
  BY <1>1, <1>2
<1> HIDE DEF n
<1>4. e # NULL /\ e # JUNK
  BY NullIsNoValue
<1>5. /\ DOMAIN n.slot = DOMAIN m.slot /\ p \in DOMAIN m.slot
      /\ n.slot[p] = e
      /\ \A i \in DOMAIN m.slot : i # p => n.slot[i] = m.slot[i]
  BY <1>1, <1>3
<1>6. m.slot[p] = NULL /\ NULL # JUNK
  BY NullIsNoValue DEF Free
<1>7. Free(n) = Free(m) \ {p}
  BY <1>4, <1>5 DEF Free
<1>8. Wild(n) = Wild(m)
  BY <1>4, <1>5, <1>6 DEF Wild
<1>9. Held(n) = Held(m) \cup {p} /\ p \notin Held(m)
  BY <1>5, <1>6, <1>7, <1>8 DEF Held, Wild
<1>10. n.num = Cardinality(Held(n))
  <2>1. IsFiniteSet(0..m.size - 1)
    BY <1>1, FS_Interval
  <2>2. IsFiniteSet(Held(m))
    BY <2>1, MapShape, FS_Subset
  <2>3. Cardinality(Held(m) \cup {p}) = Cardinality(Held(m)) + 1
    BY <1>9, <2>2, FS_AddElement
  <2> QED
    BY <1>3, <1>9, <2>3 DEF MapOK
<1>11. n \in HashOf(n.size)
  <2>1. g \in [0..m.size - 1 -> Contents] /\ m.num + 1 \in Nat
    BY <1>1 DEF Contents
  <2>2. m \in HashOf(m.size)
    BY DEF MapOK
  <2> HIDE DEF g, n
  <2>3. [m EXCEPT !.slot = g, !.num = m.num + 1] \in HashOf(m.size)
    BY <2>1, <2>2 DEF HashOf
  <2> QED
    BY <1>2, <1>3, <2>3
<1> QED
  BY <1>1, <1>3, <1>7, <1>8, <1>9, <1>10, <1>11 DEF MapOK, n, g

\* The same for a caller that needs only the new map's counts.
LEMMA PutCounts ==
    ASSUME NEW m, MapOK(m), NEW p \in Free(m), NEW e \in KeyValuePair
    PROVE  MapOK(Put(m, p, e)) /\ Put(m, p, e).size = m.size /\ Put(m, p, e).num = m.num + 1
  BY PutShape

\* An entry with a new name that is put where probing for it ends leaves every
\* other entry reachable: map_insert and rehash.
LEMMA PutClean ==
    ASSUME NEW m, MapOK(m), Clean(m), NEW e \in KeyValuePair,
           \A i \in Held(m) : m.slot[i].cmd # e.cmd,
           NEW p \in Free(m), p = First(e.cmd, m.size, Free(m))
    PROVE  Clean(Put(m, p, e))
<1> DEFINE n == Put(m, p, e)
<1>1. /\ MapOK(n) /\ n.size = m.size
      /\ n.slot = [m.slot EXCEPT ![p] = e]
      /\ Free(n) = Free(m) \ {p} /\ Wild(n) = {} /\ Held(n) = Held(m) \cup {p}
  BY PutShape DEF Clean
<1>2. e.cmd \in Names /\ IsPrime(m.size) /\ m.size \in Nat
  BY MapShape DEF KeyValuePair
<1>3. /\ n.slot[p] = e /\ p \notin Held(m) /\ p \in DOMAIN m.slot
      /\ \A i \in Held(m) : n.slot[i] = m.slot[i]
  BY <1>1, MapShape DEF Free, Held
<1> HIDE DEF n
<1>4. Stop(n, e.cmd) = p
  <2>1. Matching(n, e.cmd) = {k \in Held(n) : n.slot[k].cmd = e.cmd}
    <3>1. MapOK(n)
      BY <1>1
    <3> QED
      BY <1>2, <3>1, MatchingShape
  <2>2. Matching(n, e.cmd) = {p}
    BY <1>1, <1>3, <2>1
  <2>3. Ends(n, e.cmd) = Free(m)
    BY <1>1, <2>2 DEF Ends
  <2> QED
    BY <1>1, <1>2, <2>3, StopShape
<1>5. ASSUME NEW i \in Held(m) PROVE Stop(n, n.slot[i].cmd) = i
  <2> DEFINE name == m.slot[i].cmd
  <2>1. name \in Names /\ Matching(m, name) = {i} /\ Stop(m, name) = i /\ name # e.cmd
    BY OneEntry DEF Clean
  <2>2. n.slot[i].cmd = name /\ i # p
    BY <1>3
  <2> HIDE DEF name
  <2>3. Matching(n, name) = {i}
    <3>1. Matching(n, name) = {k \in Held(n) : n.slot[k].cmd = name}
      <4>1. MapOK(n)
        BY <1>1
      <4> QED
        BY <2>1, <4>1, MatchingShape
    <3>2. Matching(m, name) = {k \in Held(m) : m.slot[k].cmd = name}
      BY <2>1, MatchingShape
    <3> QED
      BY <1>1, <1>3, <2>1, <3>1, <3>2
  <2>4. Ends(n, name) \in SUBSET Ends(m, name) /\ i \in Ends(n, name)
    BY <1>1, <2>1, <2>3 DEF Ends
  <2>5. First(name, m.size, Ends(m, name)) = i /\ Ends(m, name) \in SUBSET (0..m.size - 1)
    BY <2>1, StopShape DEF Clean
  <2>6. First(name, m.size, Ends(n, name)) = i
    BY <1>2, <2>1, <2>4, <2>5, FirstKept
  <2> QED
    BY <1>1, <2>1, <2>2, <2>6, StopShape
<1> QED
  BY <1>1, <1>3, <1>4, <1>5 DEF Clean, n

\* What map_insert does to a map whose entry has that name already.
LEMMA OverwriteShape ==
    ASSUME NEW m, MapOK(m), NEW i \in Held(m), NEW v \in Value
    PROVE  LET n == [m EXCEPT !.slot[i].val = v]
           IN  /\ MapOK(n)
               /\ n.size = m.size /\ n.num = m.num
               /\ Held(n) = Held(m) /\ Free(n) = Free(m) /\ Wild(n) = Wild(m)
               /\ \A k \in Held(m) : n.slot[k] = IF k = i THEN [cmd |-> m.slot[i].cmd, val |-> v]
                                                 ELSE m.slot[k]
<1> DEFINE n == [m EXCEPT !.slot[i].val = v]
           e == [m.slot[i] EXCEPT !.val = v]
           g == [m.slot EXCEPT ![i] = e]
<1>1. /\ m.slot \in [0..m.size - 1 -> Contents] /\ DOMAIN m.slot = 0..m.size - 1
      /\ i \in 0..m.size - 1 /\ m.slot[i] \in KeyValuePair
      /\ m.size \in Nat /\ IsPrime(m.size) /\ m.num \in Nat
      /\ Held(m) \in SUBSET (0..m.size - 1)
  BY MapShape
<1>2. e = [cmd |-> m.slot[i].cmd, val |-> v] /\ e \in KeyValuePair
  BY <1>1 DEF KeyValuePair
<1>3. m \in HashOf(m.size)
  BY DEF MapOK
<1>4. n = [m EXCEPT !.slot = g]
  OBVIOUS
<1> HIDE DEF e
<1>5. n.size = m.size /\ n.num = m.num /\ n.slot = g
  BY <1>3, <1>4 DEF HashOf
<1>6. n \in HashOf(n.size)
  <2>1. g \in [0..m.size - 1 -> Contents]
    BY <1>1, <1>2 DEF Contents
  <2> HIDE DEF g, n
  <2>2. [m EXCEPT !.slot = g] \in HashOf(m.size)
    BY <1>3, <2>1 DEF HashOf
  <2> QED
    BY <1>4, <1>5, <2>2
<1> HIDE DEF n
<1>7. /\ DOMAIN n.slot = DOMAIN m.slot /\ n.slot[i] = e
      /\ \A k \in DOMAIN m.slot : k # i => n.slot[k] = m.slot[k]
  BY <1>1, <1>5
<1>8. e # NULL /\ e # JUNK /\ m.slot[i] # NULL /\ m.slot[i] # JUNK
  BY <1>1, <1>2, NullIsNoValue
<1>9. Free(n) = Free(m)
  BY <1>7, <1>8 DEF Free
<1>10. Wild(n) = Wild(m)
  BY <1>7, <1>8 DEF Wild
<1>11. Held(n) = Held(m)
  BY <1>7, <1>9, <1>10 DEF Held
<1>12. \A k \in Held(m) : n.slot[k] = IF k = i THEN [cmd |-> m.slot[i].cmd, val |-> v]
                                     ELSE m.slot[k]
  BY <1>1, <1>2, <1>7
<1>13. n.num = Cardinality(Held(n))
  BY <1>5, <1>11 DEF MapOK
<1> QED
  BY <1>1, <1>5, <1>6, <1>9, <1>10, <1>11, <1>12, <1>13 DEF MapOK, n

LEMMA OverwriteClean ==
    ASSUME NEW m, MapOK(m), Clean(m), NEW i \in Held(m), NEW v \in Value
    PROVE  LET n == [m EXCEPT !.slot[i].val = v]
           IN  /\ Clean(n)
               /\ \A name \in Names :
                     Lookup(n, name) = IF name = m.slot[i].cmd THEN v ELSE Lookup(m, name)
<1> DEFINE n == [m EXCEPT !.slot[i].val = v]
<1>1. /\ MapOK(n) /\ n.size = m.size
      /\ Held(n) = Held(m) /\ Free(n) = Free(m) /\ Wild(n) = Wild(m)
      /\ \A k \in Held(m) : n.slot[k] = IF k = i THEN [cmd |-> m.slot[i].cmd, val |-> v]
                                        ELSE m.slot[k]
  BY OverwriteShape
<1> HIDE DEF n
<1>2. MapOK(n) /\ Wild(n) = {} /\ Wild(m) = {}
  BY <1>1 DEF Clean
<1>3. /\ \A k \in Held(m) : n.slot[k].cmd = m.slot[k].cmd
      /\ n.slot[i].val = v
      /\ \A k \in Held(m) : k # i => n.slot[k].val = m.slot[k].val
  BY <1>1
<1>4. ASSUME NEW name \in Names PROVE Matching(n, name) = Matching(m, name)
  <2>1. Matching(n, name) = {k \in Held(n) : n.slot[k].cmd = name}
    BY <1>2, MatchingShape
  <2>2. Matching(m, name) = {k \in Held(m) : m.slot[k].cmd = name}
    BY MatchingShape
  <2> QED
    BY <1>1, <1>3, <2>1, <2>2
<1>5. ASSUME NEW name \in Names PROVE Stop(n, name) = Stop(m, name)
  BY <1>1, <1>4 DEF Stop
<1>6. Clean(n)
  <2>1. \A k \in Held(m) : m.slot[k].cmd \in Names
    BY OneEntry
  <2> QED
    BY <1>1, <1>2, <1>3, <1>5, <2>1 DEF Clean
<1>7. ASSUME NEW name \in Names
      PROVE  Lookup(n, name) = IF name = m.slot[i].cmd THEN v ELSE Lookup(m, name)
  <2>1. CASE name = m.slot[i].cmd
    <3>1. Lookup(n, n.slot[i].cmd) = n.slot[i].val
      BY <1>1, <1>2, <1>6, OneEntry
    <3> QED
      BY <1>3, <2>1, <3>1
  <2>2. CASE name # m.slot[i].cmd
    <3>1. i \notin Matching(m, name)
      BY <2>2, MatchingShape
    <3>2. Matching(m, name) \in SUBSET Held(m)
      BY MatchingShape
    <3>3. \A k \in Matching(m, name) : n.slot[k].val = m.slot[k].val
      BY <1>3, <3>1, <3>2
    <3> QED
      BY <1>4, <1>5, <2>2, <3>3 DEF Lookup
  <2> QED
    BY <2>1, <2>2
<1> QED
  BY <1>6, <1>7 DEF n

LEMMA PutLookup ==
    ASSUME NEW m, MapOK(m), Clean(m), NEW e \in KeyValuePair,
           \A i \in Held(m) : m.slot[i].cmd # e.cmd,
           NEW p \in Free(m), p = First(e.cmd, m.size, Free(m)), NEW name \in Names
    PROVE  Lookup(Put(m, p, e), name) = IF name = e.cmd THEN e.val ELSE Lookup(m, name)
<1> DEFINE n == Put(m, p, e)
<1>1. MapOK(n) /\ n.slot = [m.slot EXCEPT ![p] = e] /\ Held(n) = Held(m) \cup {p}
  BY PutShape
<1>2. Clean(n)
  BY PutClean
<1>3. /\ n.slot[p] = e
      /\ \A i \in Held(m) : n.slot[i] = m.slot[i]
  BY <1>1, MapShape DEF Free, Held
<1> HIDE DEF n
<1>4. MapOK(n) /\ p \in Held(n)
  BY <1>1
<1>5. CASE name = e.cmd
  BY <1>2, <1>3, <1>4, <1>5, OneEntry DEF n
<1>6. CASE name # e.cmd /\ \E i \in Held(m) : m.slot[i].cmd = name
  <2>1. PICK i \in Held(m) : m.slot[i].cmd = name
    BY <1>6
  <2>2. i \in Held(n) /\ n.slot[i] = m.slot[i]
    BY <1>1, <1>3
  <2>3. Lookup(n, name) = n.slot[i].val
    BY <1>2, <1>4, <2>1, <2>2, OneEntry
  <2>4. Lookup(m, name) = m.slot[i].val
    BY <2>1, OneEntry
  <2> QED
    BY <1>6, <2>2, <2>3, <2>4 DEF n
<1>7. CASE name # e.cmd /\ \A i \in Held(m) : m.slot[i].cmd # name
  <2>1. \A i \in Held(n) : n.slot[i].cmd # name
    BY <1>1, <1>3, <1>7
  <2>2. Lookup(n, name) = NULL
    BY <1>4, <2>1, NoEntry
  <2>3. Lookup(m, name) = NULL
    BY <1>7, NoEntry
  <2> QED
    BY <1>7, <2>2, <2>3 DEF n
<1> QED
  BY <1>5, <1>6, <1>7

\* A map for the start or for rehash, and the slots that were not zero.
LEMMA NewMap ==
    ASSUME NEW size \in Nat, IsPrime(size), NEW dirty \in SUBSET Nat
    PROVE  LET m == [Map(size) EXCEPT !.slot = [i \in DOMAIN @ |-> IF i \in dirty THEN JUNK
                                                                   ELSE NULL]]
           IN  /\ MapOK(m)
               /\ m.size = size /\ m.num = 0 /\ Held(m) = {}
               /\ dirty \cap DOMAIN m.slot = {} => Clean(m)
<1> DEFINE m == [Map(size) EXCEPT !.slot = [i \in DOMAIN @ |-> IF i \in dirty THEN JUNK
                                                               ELSE NULL]]
           slots == [i \in 0..size - 1 |-> IF i \in dirty THEN JUNK ELSE NULL]
<1>1. m.size = size /\ m.num = 0 /\ m.slot = slots
  BY DEF Map
<1>2. m \in HashOf(size)
  <2>1. slots \in [0..size - 1 -> Contents]
    BY DEF Contents
  <2>2. Map(size) \in HashOf(size)
    BY DEF Map, HashOf, Contents
  <2>3. m = [Map(size) EXCEPT !.slot = slots]
    BY DEF Map
  <2> HIDE DEF slots, m
  <2>4. [Map(size) EXCEPT !.slot = slots] \in HashOf(size)
    BY <2>1, <2>2 DEF HashOf
  <2> QED
    BY <2>3, <2>4
<1> HIDE DEF m
<1>3. Held(m) = {}
  BY <1>1 DEF Held, Free, Wild
<1>4. MapOK(m)
  BY <1>1, <1>2, <1>3, FS_EmptySet DEF MapOK
<1>5. ASSUME dirty \cap DOMAIN m.slot = {} PROVE Clean(m)
  <2>1. Wild(m) = {}
    BY <1>1, <1>5, NullIsNoValue DEF Wild
  <2> QED
    BY <1>3, <2>1 DEF Clean
<1> QED
  BY <1>1, <1>3, <1>4, <1>5 DEF m

LEMMA EmptyMap ==
    ASSUME NEW size \in Nat, IsPrime(size)
    PROVE  MapOK(Map(size)) /\ Clean(Map(size)) /\ Held(Map(size)) = {}
<1> DEFINE m == Map(size)
<1>1. m.size = size /\ m.num = 0 /\ m.slot = [i \in 0..size - 1 |-> NULL]
  BY DEF Map
<1>2. Map(size) \in HashOf(size)
  BY DEF Map, HashOf, Contents
<1> HIDE DEF m
<1>3. Held(m) = {} /\ Wild(m) = {}
  BY <1>1, NullIsNoValue DEF Held, Free, Wild
<1>4. MapOK(m)
  BY <1>1, <1>2, <1>3, FS_EmptySet DEF MapOK, m
<1>5. Clean(m)
  BY <1>3 DEF Clean
<1> QED
  BY <1>3, <1>4, <1>5 DEF m

-----------------------------------------------------------------------------
(* The invariant of the table.                                               *)

MapsOK ==
    /\ MapOK(table)
    /\ moved \in 0..table.size \cup {NULL}
    /\ moved # NULL => MapOK(fresh)
    /\ damaged \in BOOLEAN

\* What rehash has done: the new map has the entries of the slots it has
\* treated, and there is more room in it than slots were treated.
Moving ==
    /\ Clean(fresh)
    /\ fresh.size >= 2 * table.size
    /\ fresh.num <= moved
    /\ \A i \in Held(fresh) :
          \E k \in Held(table) : k < moved /\ fresh.slot[i] = table.slot[k]
    /\ \A k \in Held(table) :
          k < moved => \E i \in Held(fresh) : fresh.slot[i] = table.slot[k]

Sound ==
    /\ Clean(table)
    /\ moved = NULL => ~Crowded(table)
    /\ moved # NULL => Moving

TableInv == MapsOK /\ (~damaged => Sound)

\* rehash begins when the table is too full.
LEMMA RehashBegins ==
    ASSUME NEW m, MapOK(m), damaged \in BOOLEAN, RehashStarts(m)
    PROVE  /\ MapOK(fresh') /\ moved' = 0 /\ damaged' \in BOOLEAN
           /\ fresh'.size >= 2 * m.size /\ fresh'.num = 0 /\ Held(fresh') = {}
           /\ ~damaged' => ~damaged /\ Clean(fresh')
<1> DEFINE size == getPrime[2 * m.size]
<1>1. m.size \in Nat /\ 2 * m.size \in Nat
  BY MapShape
<1>2. size \in Nat /\ size >= 2 * m.size /\ IsPrime(size)
  BY <1>1, PrimeFound
<1>3. PICK dirty \in SUBSET Nat :
          /\ fresh' = [Map(size) EXCEPT
                         !.slot = [i \in DOMAIN @ |-> IF i \in dirty THEN JUNK
                                                                     ELSE NULL]]
          /\ moved' = 0
          /\ damaged' = (damaged \/ dirty \cap DOMAIN fresh'.slot # {})
  BY SymbolTableAssumption DEF RehashStarts
<1> HIDE DEF size
<1>4. /\ MapOK(fresh')
      /\ fresh'.size = size /\ fresh'.num = 0 /\ Held(fresh') = {}
      /\ dirty \cap DOMAIN fresh'.slot = {} => Clean(fresh')
  <2> DEFINE n == [Map(size) EXCEPT
                     !.slot = [i \in DOMAIN @ |-> IF i \in dirty THEN JUNK ELSE NULL]]
  <2>1. /\ MapOK(n) /\ n.size = size /\ n.num = 0 /\ Held(n) = {}
        /\ dirty \cap DOMAIN n.slot = {} => Clean(n)
    BY <1>2, NewMap
  <2>2. fresh' = n
    BY <1>3
  <2> HIDE DEF n
  <2> QED
    BY <2>1, <2>2
<1> QED
  BY <1>2, <1>3, <1>4

\* What map_insert promises its caller.
Inserts(name, value, next) ==
    \/ /\ building' = next
       /\ value.path = NULL => Lookup(table, name) = NULL
       /\ \A n \in Names : Lookup(table', n) = IF n = name THEN value ELSE Lookup(table, n)
    \/ /\ building' = "crashed" /\ table' = table
       /\ value.path = NULL /\ Lookup(table, name) # NULL

LEMMA InsertNewKeeps ==
    ASSUME TableInv, moved = NULL, NEW name \in Names, NEW path \in Path \cup {NULL},
           NEW builtin \in BOOLEAN, NEW i \in Free(table), i = Stop(table, name),
           InsertNew(i, name, path, builtin)
    PROVE  /\ TableInv'
           /\ ~damaged' => ~damaged /\ \A n \in Names :
                 Lookup(table', n) = IF n = name THEN [path |-> path, builtin |-> builtin]
                                                 ELSE Lookup(table, n)
<1> DEFINE e == NewEntry(name, path, builtin)
           m == Put(table, i, e)
<1>1. e \in KeyValuePair /\ e.cmd = name /\ e.val = [path |-> path, builtin |-> builtin]
  BY DEF NewEntry, KeyValuePair, Value
<1>2. MapOK(table) /\ damaged \in BOOLEAN
  BY DEF TableInv, MapsOK
<1> HIDE DEF e
<1>3. MapOK(m) /\ m.size = table.size /\ m.num = table.num + 1
  <2>1. MapOK(table) /\ e \in KeyValuePair
    BY <1>1, <1>2
  <2> QED
    BY <2>1, PutCounts
<1>4. table' = m /\ IF Crowded(m) THEN RehashStarts(m) ELSE UNCHANGED <<fresh, moved, damaged>>
  BY DEF InsertNew, e
<1> HIDE DEF m
<1>5. /\ MapsOK'
      /\ ~damaged' => ~damaged
      /\ moved' = NULL => ~Crowded(m)
      /\ moved' # NULL => /\ moved' = 0 /\ fresh'.size >= 2 * m.size /\ fresh'.num = 0
                          /\ Held(fresh') = {} /\ (~damaged' => Clean(fresh'))
  <2>1. CASE Crowded(m)
    <3>1. /\ MapOK(fresh') /\ moved' = 0 /\ damaged' \in BOOLEAN
          /\ fresh'.size >= 2 * m.size /\ fresh'.num = 0 /\ Held(fresh') = {}
          /\ ~damaged' => ~damaged /\ Clean(fresh')
      BY <1>2, <1>3, <1>4, <2>1, RehashBegins
    <3>2. 0 \in 0..m.size /\ 0 # NULL
      <4>1. m.size \in Nat
        BY <1>3, MapShape
      <4> QED
        BY <4>1, NullIsNoValue
    <3> QED
      BY <1>3, <1>4, <3>1, <3>2 DEF MapsOK
  <2>2. CASE ~Crowded(m)
    BY <1>2, <1>3, <1>4, <2>2 DEF MapsOK
  <2> QED
    BY <2>1, <2>2
<1>6. ASSUME ~damaged'
      PROVE  /\ Clean(m)
             /\ \A n \in Names : Lookup(m, n) = IF n = name THEN e.val ELSE Lookup(table, n)
  <2>1. Clean(table)
    BY <1>5, <1>6 DEF TableInv, Sound
  <2>2. \A k \in Held(table) : table.slot[k].cmd # name
    <3>1. ASSUME NEW k \in Held(table), table.slot[k].cmd = name PROVE FALSE
      <4>1. Stop(table, name) = k
        BY <2>1, <3>1 DEF Clean
      <4> QED
        BY <4>1 DEF Held
    <3> QED
      BY <3>1
  <2>3. i = First(name, table.size, Free(table))
    <3>1. Matching(table, name) = {} /\ Wild(table) = {}
      BY <1>2, <2>1, <2>2, NoEntry DEF Clean
    <3>2. Free(table) \cup Wild(table) \cup Matching(table, name) = Free(table)
      BY <3>1
    <3> QED
      BY <3>2 DEF Stop
  <2>4. Clean(m)
    BY <1>1, <1>2, <2>1, <2>2, <2>3, PutClean DEF m
  <2>5. \A n \in Names : Lookup(m, n) = IF n = name THEN e.val ELSE Lookup(table, n)
    BY <1>1, <1>2, <2>1, <2>2, <2>3, PutLookup DEF m
  <2> QED
    BY <2>4, <2>5
<1>7. ASSUME ~damaged' PROVE Sound'
  <2>1. CASE moved' = NULL
    BY <1>4, <1>5, <1>6, <1>7, <2>1 DEF Sound
  <2>2. CASE moved' # NULL
    <3>1. m.size \in Nat /\ Held(m) \in SUBSET (0..m.size - 1)
      BY <1>3, MapShape
    <3>2. \A k \in Held(m) : ~(k < 0)
      BY <3>1
    <3>3. Moving'
      BY <1>4, <1>5, <1>7, <2>2, <3>2 DEF Moving
    <3> QED
      BY <1>4, <1>6, <1>7, <2>2, <3>3 DEF Sound
  <2> QED
    BY <2>1, <2>2
<1> QED
  BY <1>1, <1>4, <1>5, <1>6, <1>7 DEF TableInv

LEMMA OverwriteKeeps ==
    ASSUME TableInv, moved = NULL, NEW name \in Names, NEW path \in Path,
           NEW builtin \in BOOLEAN, NEW i \in Matching(table, name),
           Overwrite(i, path, builtin)
    PROVE  /\ TableInv'
           /\ ~damaged' => ~damaged /\ \A n \in Names :
                 Lookup(table', n) = IF n = name THEN [path |-> path, builtin |-> builtin]
                                                 ELSE Lookup(table, n)
<1> DEFINE v == [path |-> path, builtin |-> builtin]
           m == [table EXCEPT !.slot[i].val = v]
<1>1. MapOK(table) /\ damaged \in BOOLEAN
  BY DEF TableInv, MapsOK
<1>2. i \in Held(table) /\ table.slot[i].cmd = name
  BY <1>1, MatchingShape
<1>3. v \in Value
  BY DEF Value
<1>4. table' = m /\ UNCHANGED <<fresh, moved, damaged>>
  BY DEF Overwrite
<1>5. MapOK(m) /\ m.size = table.size /\ m.num = table.num
  <2> HIDE DEF v
  <2> QED
    BY <1>1, <1>2, <1>3, OverwriteShape
<1>6. ASSUME ~damaged
      PROVE  /\ Clean(m)
             /\ \A n \in Names : Lookup(m, n) = IF n = name THEN v ELSE Lookup(table, n)
  <2>1. Clean(table)
    BY <1>6 DEF TableInv, Sound
  <2> HIDE DEF v
  <2> QED
    BY <1>1, <1>2, <1>3, <2>1, OverwriteClean
<1> HIDE DEF m, v
<1>7. ~damaged => ~Crowded(m)
  BY <1>5 DEF TableInv, Sound, Crowded
<1> QED
  BY <1>4, <1>5, <1>6, <1>7 DEF TableInv, MapsOK, Sound, v

LEMMA Inserting ==
    ASSUME TableInv, moved = NULL, NEW name \in Names, NEW path \in Path \cup {NULL},
           NEW builtin \in BOOLEAN, NEW next, map_insert(name, path, builtin, next)
    PROVE  /\ TableInv'
           /\ building' \in {next, "crashed"}
           /\ building' # next => damaged' = damaged
           /\ ~damaged' => /\ ~damaged
                           /\ Inserts(name, [path |-> path, builtin |-> builtin], next)
<1> DEFINE i == Stop(table, name)
           crashes == i \in Wild(table) \/ (i \in Matching(table, name) /\ path = NULL)
           v == [path |-> path, builtin |-> builtin]
<1>1. /\ building' = IF crashes THEN "crashed" ELSE next
      /\ \/ (crashes \/ i = NULL) /\ UNCHANGED <<table, fresh, moved, damaged>>
         \/ i \in Free(table) /\ InsertNew(i, name, path, builtin)
         \/ ~crashes /\ i \in Matching(table, name) /\ Overwrite(i, path, builtin)
  BY Zenon DEF map_insert
<1>2. MapOK(table)
  BY DEF TableInv, MapsOK
<1>3. v.path = path
  OBVIOUS
<1>4. building' \in {next, "crashed"}
  BY <1>1
<1>5. ASSUME i \in Free(table) PROVE ~crashes /\ Lookup(table, name) = NULL
  <2>1. table.slot[i] = NULL /\ NULL # JUNK /\ i \notin Matching(table, name)
    BY <1>5, NullIsNoValue DEF Free, Matching
  <2> QED
    BY <2>1 DEF Wild, Lookup
<1> HIDE DEF v
<1>6. CASE UNCHANGED <<table, fresh, moved, damaged>> /\ (crashes \/ i = NULL)
  <2>1. TableInv'
    BY <1>6 DEF TableInv, MapsOK, Sound, Moving
  <2>2. ASSUME ~damaged PROVE building' = "crashed" /\ path = NULL /\ Lookup(table, name) # NULL
    <3>1. Clean(table) /\ Wild(table) = {} /\ ~Crowded(table)
      BY <2>2 DEF TableInv, Sound, Clean
    <3>2. i # NULL
      <4>1. table.num < table.size
        <5>1. table.num \in Nat /\ table.size \in Nat /\ table.size > 1
          BY <1>2, MapShape DEF IsPrime
        <5> QED
          BY <3>1, <5>1 DEF Crowded
      <4>2. Free(table) # {}
        BY <1>2, <3>1, <4>1, RoomIsFree
      <4>3. i \in Ends(table, name) /\ Ends(table, name) \in SUBSET (0..table.size - 1)
        BY <1>2, <3>1, <4>2, StopShape DEF Ends
      <4> QED
        BY <4>3, NullIsNoValue
    <3>3. i \in Matching(table, name) /\ path = NULL /\ crashes
      BY <1>6, <3>1, <3>2
    <3>4. Lookup(table, name) # NULL
      <4>1. Lookup(table, name) = table.slot[i].val
        BY <3>3 DEF Lookup
      <4>2. table.slot[i].val \in Value
        BY <1>2, <3>3, MatchingShape, MapShape DEF KeyValuePair
      <4> QED
        BY <4>1, <4>2, NullIsNoValue
    <3> QED
      BY <1>1, <3>3, <3>4
  <2> QED
    BY <1>3, <1>4, <1>6, <2>1, <2>2 DEF Inserts
<1>7. CASE i \in Free(table) /\ InsertNew(i, name, path, builtin)
  <2>1. building' = next
    BY <1>1, <1>5, <1>7
  <2>2. /\ TableInv'
        /\ ~damaged' => ~damaged /\ \A n \in Names :
              Lookup(table', n) = IF n = name THEN v ELSE Lookup(table, n)
    BY <1>7, InsertNewKeeps DEF v
  <2> QED
    BY <1>3, <1>4, <1>5, <1>7, <2>1, <2>2 DEF Inserts, v
<1>8. CASE ~crashes /\ i \in Matching(table, name) /\ Overwrite(i, path, builtin)
  <2>1. building' = next /\ path \in Path /\ path # NULL
    BY <1>1, <1>8
  <2>2. /\ TableInv'
        /\ ~damaged' => ~damaged /\ \A n \in Names :
              Lookup(table', n) = IF n = name THEN v ELSE Lookup(table, n)
    BY <1>8, <2>1, OverwriteKeeps DEF v
  <2> QED
    BY <1>3, <1>4, <2>1, <2>2 DEF Inserts, v
<1> QED
  BY <1>1, <1>6, <1>7, <1>8

\* rehash moves an entry to where probing for its name ends in the new map,
\* and always finds a place for it.
LEMMA RehashSlotKeeps ==
    ASSUME TableInv, RehashSlot
    PROVE  /\ TableInv' /\ table' = table /\ damaged' = damaged
           /\ building' \in {building, "crashed"}
           /\ ~damaged => building' = building
<1> DEFINE e == table.slot[moved]
<1>1. /\ moved # NULL /\ moved < table.size /\ moved' = moved + 1
      /\ building' = IF e = JUNK THEN "crashed" ELSE building
      /\ fresh' = IF e \in {NULL, JUNK} \/ Placed(e) = NULL THEN fresh
                  ELSE Put(fresh, Placed(e), e)
      /\ table' = table /\ damaged' = damaged
  BY DEF RehashSlot
<1>2. MapOK(table) /\ MapOK(fresh) /\ damaged \in BOOLEAN /\ moved \in 0..table.size
  BY <1>1 DEF TableInv, MapsOK
<1>3. table.size \in Nat /\ moved \in Nat /\ moved \in 0..table.size - 1
      /\ moved + 1 \in 0..table.size /\ moved + 1 # NULL
  <2>1. table.size \in Nat
    BY <1>2, MapShape
  <2>2. moved \in Nat /\ moved \in 0..table.size - 1 /\ moved + 1 \in 0..table.size
    BY <1>1, <1>2, <2>1
  <2> QED
    BY <2>1, <2>2, NullIsNoValue
<1>4. e \in Contents /\ (e \notin {NULL, JUNK} <=> moved \in Held(table))
  <2>1. table.slot \in [0..table.size - 1 -> Contents] /\ DOMAIN table.slot = 0..table.size - 1
    BY <1>2, MapShape
  <2> QED
    BY <1>3, <2>1 DEF Held, Free, Wild
<1>5. fresh.size \in Nat /\ IsPrime(fresh.size) /\ Free(fresh) \in SUBSET (0..fresh.size - 1)
      /\ fresh.num \in Nat
  BY <1>2, MapShape
<1>6. ASSUME moved \in Held(table), Placed(e) # NULL
      PROVE  Placed(e) \in Free(fresh) /\ e \in KeyValuePair /\ e.cmd \in Names
  <2>1. e \in KeyValuePair /\ e.cmd \in Names
    BY <1>4, <1>6 DEF Contents, KeyValuePair
  <2>2. Free(fresh) # {}
    <3>1. ASSUME Free(fresh) = {} PROVE Placed(e) = NULL
      BY <3>1 DEF Placed, First
    <3> QED
      BY <1>6, <3>1
  <2>3. Placed(e) \in Free(fresh)
    BY <1>5, <2>1, <2>2, FirstShape DEF Placed
  <2> QED
    BY <2>1, <2>3
<1> HIDE DEF e
<1>7. MapOK(fresh')
  <2>1. CASE e \in {NULL, JUNK} \/ Placed(e) = NULL
    BY <1>1, <1>2, <2>1
  <2>2. CASE ~(e \in {NULL, JUNK} \/ Placed(e) = NULL)
    <3>1. Placed(e) \in Free(fresh) /\ e \in KeyValuePair
      BY <1>4, <1>6, <2>2
    <3>2. MapOK(Put(fresh, Placed(e), e))
      BY <1>2, <3>1, PutShape
    <3> QED
      BY <1>1, <2>2, <3>2
  <2> QED
    BY <2>1, <2>2
<1>8. MapsOK'
  BY <1>1, <1>2, <1>3, <1>7 DEF MapsOK
<1>9. ASSUME ~damaged PROVE Sound' /\ e # JUNK
  <2>1. Clean(table) /\ Moving
    BY <1>1, <1>9 DEF TableInv, Sound
  <2>2. Wild(table) = {} /\ Wild(fresh) = {} /\ Clean(fresh)
    BY <2>1 DEF Clean, Moving
  <2>3. e # JUNK
    <3>1. moved \in DOMAIN table.slot
      BY <1>2, <1>3, MapShape
    <3> QED
      BY <2>2, <3>1 DEF Wild, e
  <2>4. \A k \in Held(table) : k \in Nat /\ (k < moved + 1 <=> k < moved \/ k = moved)
    <3>1. \A k \in Held(table) : k \in Nat
      BY <1>2, MapShape
    <3> QED
      BY <1>3, <3>1
  <2>5. CASE e = NULL
    <3>1. fresh' = fresh /\ moved \notin Held(table)
      BY <1>1, <1>4, <2>5
    <3>2. \A k \in Held(table) : k < moved + 1 <=> k < moved
      BY <2>4, <3>1
    <3>3. fresh.num <= moved + 1
      BY <1>3, <1>5, <2>1 DEF Moving
    <3>4. Moving'
      BY <1>1, <2>1, <3>1, <3>2, <3>3 DEF Moving
    <3> QED
      BY <1>1, <1>3, <2>1, <2>3, <3>4 DEF Sound
  <2>6. CASE e # NULL
    <3> DEFINE p == Placed(e)
               m == Put(fresh, p, e)
    <3>1. moved \in Held(table) /\ e \in KeyValuePair /\ e.cmd \in Names
      BY <1>4, <2>3, <2>6 DEF Contents, KeyValuePair
    <3>2. p \in Free(fresh) /\ p # NULL
      <4>1. fresh.num < fresh.size
        BY <1>1, <1>3, <1>5, <2>1 DEF Moving
      <4>2. Free(fresh) # {}
        BY <1>2, <2>2, <4>1, RoomIsFree
      <4>3. p \in Free(fresh)
        BY <1>5, <3>1, <4>2, FirstShape DEF Placed
      <4> QED
        BY <1>5, <4>3, NullIsNoValue
    <3>3. \A i \in Held(fresh) : fresh.slot[i].cmd # e.cmd
      <4>1. ASSUME NEW i \in Held(fresh), fresh.slot[i].cmd = e.cmd PROVE FALSE
        <5>1. PICK k \in Held(table) : k < moved /\ fresh.slot[i] = table.slot[k]
          BY <2>1 DEF Moving
        <5>2. Stop(table, table.slot[k].cmd) = k /\ Stop(table, table.slot[moved].cmd) = moved
          BY <2>1, <3>1 DEF Clean
        <5>3. k = moved
          BY <4>1, <5>1, <5>2 DEF e
        <5> QED
          BY <1>3, <5>1, <5>3
      <4> QED
        BY <4>1
    <3>4. fresh' = m
      BY <1>1, <2>3, <2>6, <3>2
    <3>5. p = First(e.cmd, fresh.size, Free(fresh))
      BY DEF Placed
    <3> HIDE DEF p
    <3>6. Clean(m)
      BY <1>2, <2>2, <3>1, <3>2, <3>3, <3>5, PutClean
    <3>7. /\ m.size = fresh.size /\ m.num = fresh.num + 1
          /\ m.slot = [fresh.slot EXCEPT ![p] = e] /\ Held(m) = Held(fresh) \cup {p}
      BY <1>2, <3>1, <3>2, PutShape
    <3> HIDE DEF m
    <3>8. m.slot[p] = e /\ \A i \in Held(fresh) : m.slot[i] = fresh.slot[i]
      <4>1. p \in DOMAIN fresh.slot /\ p \notin Held(fresh)
            /\ Held(fresh) \in SUBSET DOMAIN fresh.slot
        BY <3>2 DEF Free, Held
      <4> QED
        BY <3>7, <4>1
    <3>9. \A i \in Held(m) : \E k \in Held(table) : k < moved + 1 /\ m.slot[i] = table.slot[k]
      <4>1. ASSUME NEW i \in Held(fresh)
            PROVE  \E k \in Held(table) : k < moved + 1 /\ m.slot[i] = table.slot[k]
        <5>1. PICK k \in Held(table) : k < moved /\ fresh.slot[i] = table.slot[k]
          BY <2>1 DEF Moving
        <5> QED
          BY <2>4, <3>8, <5>1
      <4>2. moved < moved + 1 /\ m.slot[p] = table.slot[moved]
        BY <1>3, <3>8 DEF e
      <4> QED
        BY <3>1, <3>7, <4>1, <4>2
    <3>10. \A k \in Held(table) : k < moved + 1 => \E i \in Held(m) : m.slot[i] = table.slot[k]
      <4>1. ASSUME NEW k \in Held(table), k < moved
            PROVE  \E i \in Held(m) : m.slot[i] = table.slot[k]
        <5>1. PICK i \in Held(fresh) : fresh.slot[i] = table.slot[k]
          BY <2>1, <4>1 DEF Moving
        <5> QED
          BY <3>7, <3>8, <5>1
      <4>2. p \in Held(m) /\ m.slot[p] = table.slot[moved]
        BY <3>7, <3>8 DEF e
      <4> QED
        BY <2>4, <4>1, <4>2
    <3>11. m.size >= 2 * table.size /\ m.num <= moved + 1
      BY <1>3, <1>5, <2>1, <3>7 DEF Moving
    <3>12. Moving'
      BY <1>1, <3>4, <3>6, <3>9, <3>10, <3>11 DEF Moving
    <3> QED
      BY <1>1, <1>3, <2>1, <2>3, <3>12 DEF Sound
  <2> QED
    BY <2>5, <2>6
<1> QED
  BY <1>1, <1>8, <1>9 DEF TableInv

\* When rehash is done the new map has every entry, and is not crowded.
LEMMA RehashDoneKeeps ==
    ASSUME TableInv, RehashDone
    PROVE  /\ TableInv' /\ building' = building /\ damaged' = damaged
           /\ ~damaged => \A name \in Names : Lookup(table', name) = Lookup(table, name)
<1>1. moved = table.size /\ table' = fresh /\ moved' = NULL
      /\ building' = building /\ damaged' = damaged
  BY DEF RehashDone
<1>2. MapOK(table) /\ damaged \in BOOLEAN
  BY DEF TableInv, MapsOK
<1>3. moved # NULL
  BY <1>1, <1>2, MapShape, NullIsNoValue
<1>4. MapOK(fresh)
  BY <1>3 DEF TableInv, MapsOK
<1>5. MapsOK'
  BY <1>1, <1>2, <1>4 DEF MapsOK
<1>6. ASSUME ~damaged
      PROVE  Sound' /\ \A name \in Names : Lookup(fresh, name) = Lookup(table, name)
  <2>1. Clean(table) /\ Moving /\ Clean(fresh)
    BY <1>3, <1>6 DEF TableInv, Sound, Moving
  <2>2. \A k \in Held(table) : k < moved
    <3>1. table.size \in Nat /\ Held(table) \in SUBSET (0..table.size - 1)
      BY <1>2, MapShape
    <3> QED
      BY <1>1, <3>1
  <2>3. \A name \in Names : Lookup(fresh, name) = Lookup(table, name)
    <3>1. /\ \A i \in Held(fresh) : \E k \in Held(table) : fresh.slot[i] = table.slot[k]
          /\ \A k \in Held(table) : \E i \in Held(fresh) : fresh.slot[i] = table.slot[k]
      BY <2>1, <2>2 DEF Moving
    <3> QED
      BY <1>2, <1>4, <2>1, <3>1, SameEntries
  <2>4. ~Crowded(fresh)
    <3>1. table.size \in Nat /\ fresh.size \in Nat /\ fresh.num \in Nat
          /\ fresh.num <= table.size /\ fresh.size >= 2 * table.size
      BY <1>1, <1>2, <1>4, <2>1, MapShape DEF Moving
    <3> QED
      BY <3>1 DEF Crowded
  <2> QED
    BY <1>1, <2>1, <2>3, <2>4 DEF Sound
<1> QED
  BY <1>1, <1>5, <1>6 DEF TableInv

-----------------------------------------------------------------------------
(* The steps of the start.                                                   *)

\* The place in the environment.
PlaceInv ==
    /\ env \in Envs
    /\ building \in {"variables", "entries", "builtins", "ready", "crashed"}
    /\ var \in Nat \ {0} /\ dir \in Nat \ {0} /\ entry \in Nat \ {0}
    /\ building = "entries" => var <= Len(env) /\ MoreDirs

BuildInv == PlaceInv /\ TableInv

LEMMA EnvShape ==
    ASSUME PlaceInv
    PROVE  /\ env \in Seq(Seq(Directory \cup {EMPTY})) /\ Len(env) \in Nat
           /\ \A v \in DOMAIN env : /\ env[v] \in Seq(Directory \cup {EMPTY})
                                    /\ Len(env[v]) \in Nat
                                    /\ DOMAIN env[v] = 1..Len(env[v])
           /\ DOMAIN env = 1..Len(env)
           /\ var <= Len(env) => var \in DOMAIN env
           /\ var <= Len(env) /\ MoreDirs => /\ dir \in DOMAIN env[var]
                                             /\ env[var][dir] \in Directory
<1>1. env \in Seq(Seq(Directory \cup {EMPTY}))
  BY SymbolTableAssumption DEF PlaceInv
<1>2. Len(env) \in Nat /\ DOMAIN env = 1..Len(env)
  BY <1>1, LenProperties
<1>3. ASSUME NEW v \in DOMAIN env
      PROVE  /\ env[v] \in Seq(Directory \cup {EMPTY}) /\ Len(env[v]) \in Nat
             /\ DOMAIN env[v] = 1..Len(env[v])
             /\ \A d \in 1..Len(env[v]) : env[v][d] \in Directory \cup {EMPTY}
  <2>1. env[v] \in Seq(Directory \cup {EMPTY})
    BY <1>1, <1>2, ElementOfSeq
  <2> QED
    BY <2>1, LenProperties, ElementOfSeq
<1>4. var <= Len(env) => var \in DOMAIN env
  BY <1>2 DEF PlaceInv
<1>5. ASSUME var <= Len(env), MoreDirs
      PROVE  dir \in DOMAIN env[var] /\ env[var][dir] \in Directory
  <2>1. var \in DOMAIN env
    BY <1>4, <1>5
  <2>2. dir \in 1..Len(env[var]) /\ env[var][dir] # EMPTY
    BY <1>3, <1>5, <2>1 DEF MoreDirs, PlaceInv
  <2> QED
    BY <1>3, <2>1, <2>2
<1> QED
  BY <1>1, <1>2, <1>3, <1>4, <1>5

LEMMA EntriesShape ==
    ASSUME PlaceInv, building = "entries"
    PROVE  /\ Len(Entries) \in Nat /\ DOMAIN Entries = 1..Len(Entries)
           /\ \A k \in 1..Len(Entries) :
                 Entries[k] \in [name: Names, runnable: BOOLEAN]
           /\ <<var, dir>> \in Path
<1>1. env[var][dir] \in Directory
  BY EnvShape DEF PlaceInv
<1>2. Entries \in Seq([name: Names, runnable: BOOLEAN])
  BY <1>1 DEF Entries, Directory
<1>3. <<var, dir>> \in Path
  BY DEF PlaceInv, Path
<1> QED
  BY <1>2, <1>3, LenProperties, ElementOfSeq

SameBindings == \A n \in Names : Lookup(table', n) = Lookup(table, n)

\* The actions that do not touch the map.
Walk == NextVariable \/ OpenDir \/ DirFails \/ CloseDir \/ BuildEnds \/ TableReady

LEMMA WalkKeeps ==
    ASSUME BuildInv, Walk
    PROVE  BuildInv' /\ damaged' = damaged /\ table' = table /\ building' # "crashed"
<1>1. UNCHANGED <<table, fresh, moved, damaged, env>>
  BY DEF Walk, NextVariable, OpenDir, DirFails, CloseDir, BuildEnds, TableReady
<1>2. TableInv'
  BY <1>1 DEF BuildInv, TableInv, MapsOK, Sound, Moving
<1>3. /\ building' \in {"variables", "entries", "builtins", "ready"}
      /\ var' \in {var, var + 1} /\ dir' \in {1, dir, dir + 1} /\ entry' \in {1, entry}
  BY DEF Walk, NextVariable, OpenDir, DirFails, CloseDir, BuildEnds, TableReady, At
<1>4. var' \in Nat \ {0} /\ dir' \in Nat \ {0} /\ entry' \in Nat \ {0}
  BY <1>3 DEF BuildInv, PlaceInv
<1>5. building' = "entries" => var' <= Len(env') /\ MoreDirs'
  <2>1. ASSUME building' = "entries" PROVE var <= Len(env) /\ MoreDirs /\ var' = var /\ dir' = dir
    BY <2>1 DEF Walk, NextVariable, OpenDir, DirFails, CloseDir, BuildEnds, TableReady, At
  <2> QED
    BY <1>1, <2>1 DEF MoreDirs
<1> QED
  BY <1>1, <1>2, <1>3, <1>4, <1>5 DEF BuildInv, PlaceInv

\* An entry of a directory that may be executed is bound to its path.
LoadsEntry ==
    /\ building = "entries" /\ moved = NULL /\ entry <= Len(Entries)
    /\ entry' = entry + 1 /\ UNCHANGED <<env, var, dir>>

LEMMA LoadEntryKeeps ==
    ASSUME BuildInv, LoadEntry
    PROVE  /\ BuildInv' /\ LoadsEntry
           /\ entry \in 1..Len(Entries)
           /\ Entries[entry].name \in Names
           /\ Entries[entry] \in [name: Names, runnable: BOOLEAN]
           /\ ~damaged' => ~damaged
           /\ building' \in {"entries", "crashed"}
           /\ building' = "crashed" => damaged' = damaged
           /\ ~damaged' /\ Entries[entry].runnable =>
                 /\ building' = "entries"
                 /\ \A n \in Names : Lookup(table', n) =
                       IF n = Entries[entry].name THEN [path |-> <<var, dir>>, builtin |-> FALSE]
                       ELSE Lookup(table, n)
           /\ ~Entries[entry].runnable => building' = "entries" /\ table' = table
<1> DEFINE e == Entries[entry]
<1>1. PlaceInv /\ TableInv /\ LoadsEntry
  BY DEF BuildInv, LoadEntry, At, LoadsEntry
<1>2. entry \in 1..Len(Entries) /\ entry + 1 \in Nat \ {0}
  BY <1>1, EntriesShape DEF PlaceInv, LoadsEntry
<1>3. e \in [name: Names, runnable: BOOLEAN] /\ <<var, dir>> \in Path
  BY <1>1, <1>2, EntriesShape DEF LoadsEntry
<1>4. e.name \in Names /\ e.runnable \in BOOLEAN
  BY <1>3
<1>5. IF e.runnable THEN map_insert(e.name, <<var, dir>>, FALSE, building)
      ELSE UNCHANGED <<building, table, fresh, moved, damaged>>
  BY Zenon DEF LoadEntry
<1> HIDE DEF e
<1>6. ASSUME building' \in {"entries", "crashed"} PROVE PlaceInv'
  <2>1. MoreDirs' <=> MoreDirs
    BY <1>1 DEF LoadsEntry, MoreDirs
  <2> QED
    BY <1>1, <1>2, <1>6, <2>1 DEF PlaceInv, LoadsEntry
<1>7. CASE e.runnable
  <2> DEFINE v == [path |-> <<var, dir>>, builtin |-> FALSE]
  <2>1. /\ TableInv' /\ building' \in {building, "crashed"}
        /\ building' # building => damaged' = damaged
        /\ ~damaged' => ~damaged /\ Inserts(e.name, v, building)
    BY <1>1, <1>3, <1>4, <1>5, <1>7, Inserting DEF LoadsEntry
  <2>2. v.path # NULL
    BY <1>3, NullIsNoValue
  <2> HIDE DEF v
  <2>3. ~damaged' => building' = "entries" /\ \A n \in Names :
             Lookup(table', n) = IF n = e.name THEN v ELSE Lookup(table, n)
    BY <1>1, <2>1, <2>2 DEF Inserts, LoadsEntry
  <2>4. BuildInv'
    BY <1>1, <1>6, <2>1 DEF BuildInv, LoadsEntry
  <2>5. /\ building' \in {"entries", "crashed"}
        /\ building' = "crashed" => damaged' = damaged
    BY <1>1, <2>1 DEF LoadsEntry
  <2> QED
    BY <1>1, <1>2, <1>3, <1>4, <1>7, <2>1, <2>3, <2>4, <2>5 DEF e, v
<1>8. CASE ~e.runnable
  <2>1. UNCHANGED <<building, table, fresh, moved, damaged>>
    BY <1>5, <1>8
  <2>2. TableInv'
    BY <1>1, <2>1 DEF TableInv, MapsOK, Sound, Moving
  <2>3. BuildInv'
    BY <1>1, <1>6, <2>1, <2>2 DEF BuildInv, LoadsEntry
  <2> QED
    BY <1>1, <1>2, <1>3, <1>4, <1>8, <2>1, <2>3 DEF e, LoadsEntry
<1> QED
  BY <1>4, <1>7, <1>8

\* A builtin is bound, or its name has a file and the shell crashes.
LEMMA InsertBuiltinKeeps ==
    ASSUME BuildInv, InsertBuiltin
    PROVE  /\ BuildInv'
           /\ building = "builtins" /\ moved = NULL /\ entry <= Len(Builtins)
           /\ entry \in DOMAIN Builtins /\ Builtins[entry] \in Names
           /\ entry' = entry + 1 /\ UNCHANGED <<env, var, dir>>
           /\ building' \in {"builtins", "crashed"}
           /\ building' = "crashed" => damaged' = damaged
           /\ ~damaged' => /\ ~damaged
                           /\ Inserts(Builtins[entry], [path |-> NULL, builtin |-> TRUE],
                                      "builtins")
<1>1. /\ PlaceInv /\ TableInv
      /\ building = "builtins" /\ moved = NULL /\ entry <= Len(Builtins)
      /\ entry' = entry + 1 /\ UNCHANGED <<env, var, dir>>
      /\ map_insert(Builtins[entry], NULL, TRUE, building)
  BY DEF BuildInv, InsertBuiltin, At
<1>2. Builtins \in Seq(Names)
  BY SymbolTableAssumption
<1>3. entry \in DOMAIN Builtins /\ entry + 1 \in Nat \ {0}
  BY <1>1, <1>2, LenProperties DEF PlaceInv
<1>4. Builtins[entry] \in Names
  BY <1>2, <1>3, LenProperties, ElementOfSeq
<1> DEFINE v == [path |-> NULL, builtin |-> TRUE]
<1>5. /\ TableInv' /\ building' \in {building, "crashed"}
      /\ building' # building => damaged' = damaged
      /\ ~damaged' => ~damaged /\ Inserts(Builtins[entry], v, building)
  BY <1>1, <1>4, Inserting
<1>6. PlaceInv'
  BY <1>1, <1>3, <1>5 DEF PlaceInv
<1> HIDE DEF v
<1> QED
  BY <1>1, <1>3, <1>4, <1>5, <1>6 DEF BuildInv, v

LEMMA RehashKeeps ==
    ASSUME BuildInv, RehashSlot \/ RehashDone
    PROVE  /\ BuildInv' /\ damaged' = damaged
           /\ UNCHANGED <<env, var, dir, entry>>
           /\ ~damaged => building' = building /\ SameBindings
<1>1. UNCHANGED <<env, var, dir, entry>>
  BY DEF RehashSlot, RehashDone
<1>2. CASE RehashSlot
  <2>1. /\ TableInv' /\ table' = table /\ damaged' = damaged
        /\ building' \in {building, "crashed"}
        /\ ~damaged => building' = building
    <3>1. TableInv
      BY DEF BuildInv
    <3> QED
      BY <1>2, <3>1, RehashSlotKeeps
  <2>2. PlaceInv'
    BY <1>1, <2>1 DEF BuildInv, PlaceInv, MoreDirs
  <2> QED
    BY <1>1, <2>1, <2>2 DEF BuildInv, SameBindings
<1>3. CASE RehashDone
  <2>1. /\ TableInv' /\ damaged' = damaged /\ building' = building
        /\ ~damaged => SameBindings
    <3>1. TableInv
      BY DEF BuildInv
    <3> QED
      BY <1>3, <3>1, RehashDoneKeeps DEF SameBindings
  <2>2. PlaceInv'
    BY <1>1, <2>1 DEF BuildInv, PlaceInv, MoreDirs
  <2> QED
    BY <1>1, <2>1, <2>2 DEF BuildInv
<1> QED
  BY <1>2, <1>3

LEMMA BuildCases == BuildTable <=> \/ Walk \/ LoadEntry \/ InsertBuiltin
                                   \/ RehashSlot \/ RehashDone
  BY DEF BuildTable, Walk

LEMMA InitBuilds == ASSUME TableInit PROVE BuildInv
<1> DEFINE size == getPrime[Slots]
<1>1. size \in Nat /\ IsPrime(size)
  BY SymbolTableAssumption, PrimeFound
<1>2. /\ env \in Envs /\ building = "variables" /\ var = 1 /\ dir = 1 /\ entry = 1
      /\ table = Map(size) /\ moved = NULL /\ damaged = FALSE
  BY DEF TableInit
<1> HIDE DEF size
<1>3. MapOK(table) /\ Clean(table)
  BY <1>1, <1>2, EmptyMap
<1>4. ~Crowded(table)
  <2>1. table.num = 0 /\ table.size = size
    BY <1>2 DEF Map
  <2> QED
    BY <1>1, <2>1 DEF Crowded
<1>5. TableInv
  BY <1>2, <1>3, <1>4 DEF TableInv, MapsOK, Sound
<1>6. PlaceInv
  BY <1>2 DEF PlaceInv
<1> QED
  BY <1>5, <1>6 DEF BuildInv

\* The invariant, in every state of the shell.
LEMMA Building == Spec => []BuildInv
<1>1. Init => BuildInv
  BY InitBuilds DEF Init
<1>2. BuildInv /\ [Next]_vars => BuildInv'
  <2> SUFFICES ASSUME BuildInv, [Next]_vars PROVE BuildInv'
    OBVIOUS
  <2>1. CASE Start
    <3>1. BuildTable
      BY <2>1 DEF Start
    <3> QED
      BY <3>1, BuildCases, WalkKeeps, LoadEntryKeeps, InsertBuiltinKeeps, RehashKeeps
  <2>2. CASE UNCHANGED tableVars
    BY <2>2 DEF tableVars, BuildInv, PlaceInv, MoreDirs, TableInv, MapsOK, Sound, Moving
  <2>3. CASE ~Start
    <3>1. UNCHANGED tableVars
      BY <2>3 DEF Next, EnterLine, Tokenize, BuildTree, Execute, FinishLine, vars
    <3> QED
      BY <2>2, <3>1
  <2> QED
    BY <2>1, <2>3
<1> QED
  BY <1>1, <1>2, PTL DEF Spec

-----------------------------------------------------------------------------
(* The table is the finite map that NameTable specifies.                     *)

\* What the table is to the ones who use it.
Bindings == [name \in Names |-> Lookup(table, name)]

LEMMA BindsOne ==
    ASSUME NEW name \in Names, NEW value,
           \A n \in Names : Lookup(table', n) = IF n = name THEN value ELSE Lookup(table, n)
    PROVE  Promise!Bind(name, value)
<1> DEFINE m == table'
<1>1. [n \in Names |-> Lookup(m, n)] = [Bindings EXCEPT ![name] = value]
  <2> HIDE DEF m
  <2>1. \A n \in Names : Lookup(m, n) = IF n = name THEN value ELSE Lookup(table, n)
    BY DEF m
  <2> QED
    BY <2>1 DEF Bindings
<1> QED
  BY <1>1 DEF Promise!Bind, Bindings

\* A step of the shell is one of NameTable or leaves every binding as it is, a
\* whole rehash included, unless a map was put in memory that is not zero.
THEOREM TableIsKept == Spec => TableKept
<1> DEFINE Kept ==
      \/ UNCHANGED table
      \/ damaged'
      \/ building = "entries" /\ entry <= Len(Entries)
         /\ Promise!Bind(Entries[entry].name, [path |-> <<var, dir>>, builtin |-> FALSE])
      \/ building = "builtins" /\ entry <= Len(Builtins)
         /\ Promise!Bind(Builtins[entry], [path |-> NULL, builtin |-> TRUE])
      \/ UNCHANGED [name \in Names |-> Lookup(table, name)]
<1>1. ASSUME BuildInv, [Next]_vars PROVE Kept
  <2>1. CASE LoadEntry
    <3> DEFINE e == Entries[entry]
               v == [path |-> <<var, dir>>, builtin |-> FALSE]
    <3>1. /\ building = "entries" /\ entry <= Len(Entries)
          /\ e.name \in Names
          /\ ~damaged' /\ e.runnable => \A n \in Names :
                Lookup(table', n) = IF n = e.name THEN v ELSE Lookup(table, n)
          /\ ~e.runnable => table' = table
      BY <1>1, <2>1, LoadEntryKeeps DEF LoadsEntry
    <3> HIDE DEF e, v
    <3>2. ~damaged' /\ e.runnable => Promise!Bind(e.name, v)
      BY <3>1, BindsOne
    <3> QED
      BY <3>1, <3>2 DEF e, v
  <2>2. CASE InsertBuiltin
    <3> DEFINE v == [path |-> NULL, builtin |-> TRUE]
    <3>1. /\ building = "builtins" /\ entry <= Len(Builtins) /\ Builtins[entry] \in Names
          /\ ~damaged' => Inserts(Builtins[entry], v, "builtins")
      BY <1>1, <2>2, InsertBuiltinKeeps
    <3> HIDE DEF v
    <3>2. ASSUME ~damaged' PROVE table' = table \/ Promise!Bind(Builtins[entry], v)
      BY <3>1, <3>2, BindsOne DEF Inserts
    <3> QED
      BY <3>1, <3>2 DEF v
  <2>3. CASE RehashSlot \/ RehashDone
    <3>1. damaged' = damaged /\ (~damaged => SameBindings)
      BY <1>1, <2>3, RehashKeeps
    <3>2. SameBindings =>
              [name \in Names |-> Lookup(table', name)]
                  = [name \in Names |-> Lookup(table, name)]
      BY DEF SameBindings
    <3> QED
      BY <3>1, <3>2
  <2>4. CASE Walk
    BY <1>1, <2>4, WalkKeeps
  <2>5. CASE ~Start
    BY <1>1, <2>5 DEF Next, EnterLine, Tokenize, BuildTree, Execute, FinishLine, vars,
       tableVars
  <2> QED
    BY <2>1, <2>2, <2>3, <2>4, <2>5, BuildCases DEF Start
<1>2. BuildInv /\ [Next]_vars => [Kept]_table
  BY <1>1
<1> QED
  BY <1>2, Building, PTL DEF Spec, TableKept

-----------------------------------------------------------------------------
(* What the table means, step by step.                                       *)

\* The directories whose entries have been looked at, without the current one.
Done == {p \in Reached : p[1] < var \/ (p[1] = var /\ p[2] < dir)}

Lists(p, name) ==
    \E k \in DOMAIN DirAt(p).entries :
        DirAt(p).entries[k] = [name |-> name, runnable |-> TRUE]

Readable(p) == DirAt(p).opens /\ DirAt(p).reads

Over == building \in {"builtins", "ready"}      \* no more directories

\* Where the walk through the environment is.
WayInv ==
    /\ \A p \in Done : Readable(p)
    /\ var <= Len(env) => \A d \in 1..dir - 1 : d <= Len(env[var]) /\ env[var][d] # EMPTY
    /\ building = "entries" => env[var][dir].opens /\ env[var][dir].reads
    /\ Over => Done = Loaded

LEMMA ReachedShape ==
    ASSUME PlaceInv
    PROVE  /\ \A p \in Reached :
                 /\ p = <<p[1], p[2]>> /\ p[1] \in Nat /\ p[2] \in Nat
                 /\ p[1] \in DOMAIN env /\ p[2] \in DOMAIN env[p[1]]
                 /\ \A m \in 1..p[2] : env[p[1]][m] # EMPTY
           /\ \A v \in DOMAIN env : \A d \in DOMAIN env[v] :
                 (\A m \in 1..d : env[v][m] # EMPTY) => <<v, d>> \in Reached
<1>1. \A v \in DOMAIN env : v \in Nat /\ \A d \in DOMAIN env[v] : d \in Nat
  BY EnvShape
<1>2. ASSUME NEW p \in Reached
      PROVE  /\ p = <<p[1], p[2]>> /\ p[1] \in Nat /\ p[2] \in Nat
             /\ p[1] \in DOMAIN env /\ p[2] \in DOMAIN env[p[1]]
             /\ \A m \in 1..p[2] : env[p[1]][m] # EMPTY
  <2>1. PICK v \in DOMAIN env : p \in {<<v, d>> : d \in {k \in DOMAIN env[v] :
                                           \A m \in 1..k : env[v][m] # EMPTY}}
    BY <1>2 DEF Reached
  <2>2. PICK d \in DOMAIN env[v] : p = <<v, d>> /\ \A m \in 1..d : env[v][m] # EMPTY
    BY <2>1
  <2>3. p[1] = v /\ p[2] = d
    BY <2>2
  <2> QED
    BY <1>1, <2>2, <2>3
<1>3. ASSUME NEW v \in DOMAIN env, NEW d \in DOMAIN env[v],
             \A m \in 1..d : env[v][m] # EMPTY
      PROVE  <<v, d>> \in Reached
  BY <1>3 DEF Reached
<1> QED
  BY <1>2, <1>3

\* The current component is reached.
LEMMA HereReached ==
    ASSUME PlaceInv, WayInv, var <= Len(env), MoreDirs
    PROVE  <<var, dir>> \in Reached
<1>1. var \in DOMAIN env /\ dir \in DOMAIN env[var] /\ dir \in Nat /\ dir # 0
  BY EnvShape DEF PlaceInv
<1>2. ASSUME NEW m \in 1..dir PROVE env[var][m] # EMPTY
  <2>1. m = dir \/ m \in 1..dir - 1
    BY <1>1
  <2>2. env[var][dir] # EMPTY
    BY DEF MoreDirs
  <2> QED
    BY <2>1, <2>2 DEF WayInv
<1> QED
  BY <1>1, <1>2, ReachedShape

LEMMA SameWay ==
    ASSUME UNCHANGED <<env, var, dir>>
    PROVE  /\ Done' = Done /\ Loaded' = Loaded
           /\ \A p : (Readable(p))' = Readable(p)
           /\ Reached' = Reached
  BY DEF Done, Loaded, Reached, DirAt, NotAfter, Readable

\* Nothing is reached behind the end of a variable.
LEMMA NextVariableWay ==
    ASSUME PlaceInv, WayInv, NextVariable
    PROVE  Done' = Done /\ WayInv'
<1>1. /\ var <= Len(env) /\ ~MoreDirs /\ var' = var + 1 /\ dir' = 1 /\ env' = env
      /\ building' = building
  BY DEF NextVariable
<1>2. building = "variables"
  BY DEF NextVariable, At
<1>3. var \in Nat /\ dir \in Nat /\ dir # 0
  BY DEF PlaceInv
<1>4. Reached' = Reached
  BY <1>1 DEF Reached
<1>5. ASSUME NEW p \in Reached
      PROVE  (p[1] < var \/ (p[1] = var /\ p[2] < dir))
                 <=> (p[1] < var + 1 \/ (p[1] = var + 1 /\ p[2] < 1))
  <2>1. /\ p[1] \in Nat /\ p[2] \in Nat /\ p[1] \in DOMAIN env /\ p[2] \in DOMAIN env[p[1]]
        /\ \A m \in 1..p[2] : env[p[1]][m] # EMPTY
    BY ReachedShape
  <2>2. p[2] # 0 /\ (p[1] = var => p[2] <= Len(env[var]) /\ Len(env[var]) \in Nat)
    BY <2>1, EnvShape
  <2>3. ASSUME p[1] = var, ~(p[2] < dir) PROVE FALSE
    <3>1. dir \in 1..p[2]
      BY <1>3, <2>1, <2>3
    <3>2. dir <= Len(env[var]) /\ env[var][dir] # EMPTY
      BY <1>3, <2>1, <2>2, <2>3, <3>1
    <3> QED
      BY <1>1, <3>2 DEF MoreDirs
  <2> QED
    BY <1>3, <2>1, <2>2, <2>3
<1>6. Done' = Done
  BY <1>1, <1>4, <1>5 DEF Done
<1>7. \A p : (Readable(p))' = Readable(p)
  BY <1>1 DEF Readable, DirAt
<1>8. ~Over' /\ building' # "entries"
  BY <1>1, <1>2 DEF Over
<1> QED
  BY <1>1, <1>6, <1>7, <1>8 DEF WayInv

LEMMA WayStays ==
    ASSUME WayInv, UNCHANGED <<env, var, dir>>,
           building' = "entries" => building = "entries" \/ Readable(<<var, dir>>),
           Over' => Over \/ Done = Loaded
    PROVE  WayInv' /\ Done' = Done
<1>1. Done' = Done /\ Loaded' = Loaded /\ \A p : (Readable(p))' = Readable(p)
  BY SameWay
<1>2. building' = "entries" => env[var][dir].opens /\ env[var][dir].reads
  BY DEF WayInv, Readable, DirAt
<1> QED
  BY <1>1, <1>2 DEF WayInv

\* One more directory has been looked at.
LEMMA CloseDirWay ==
    ASSUME PlaceInv, WayInv, CloseDir
    PROVE  Done' = Done \cup {<<var, dir>>} /\ <<var, dir>> \notin Done /\ WayInv'
<1>1. /\ var' = var /\ dir' = dir + 1 /\ env' = env /\ building' = "variables"
      /\ building = "entries"
  BY DEF CloseDir, At
<1>2. var \in Nat /\ dir \in Nat /\ dir # 0 /\ var <= Len(env) /\ MoreDirs
  BY <1>1 DEF PlaceInv
<1>3. <<var, dir>> \in Reached
  BY <1>2, HereReached
<1>4. Reached' = Reached
  BY <1>1 DEF Reached
<1>5. ASSUME NEW p \in Reached
      PROVE  (p[1] < var \/ (p[1] = var /\ p[2] < dir + 1))
                 <=> (p[1] < var \/ (p[1] = var /\ p[2] < dir)) \/ p = <<var, dir>>
  <2>1. p = <<p[1], p[2]>> /\ p[1] \in Nat /\ p[2] \in Nat
    BY ReachedShape
  <2>2. p = <<var, dir>> <=> p[1] = var /\ p[2] = dir
    BY <2>1
  <2> HIDE <2>1
  <2>3. p[1] \in Nat /\ p[2] \in Nat
    BY <2>1
  <2> QED
    BY <1>2, <2>2, <2>3
<1>6. Done' = Done \cup {<<var, dir>>}
  BY <1>1, <1>3, <1>4, <1>5 DEF Done
<1>7. <<var, dir>> \notin Done
  BY <1>2 DEF Done
<1>8. \A p : (Readable(p))' = Readable(p)
  BY <1>1 DEF Readable, DirAt
<1>9. \A p \in Done' : (Readable(p))'
  <2>1. Readable(<<var, dir>>)
    BY <1>1 DEF WayInv, Readable, DirAt
  <2>2. \A p \in Done : Readable(p)
    BY DEF WayInv
  <2> QED
    BY <1>6, <1>8, <2>1, <2>2
<1>10. ~Over' /\ building' # "entries"
  BY <1>1 DEF Over
<1>11. \A d \in 1..dir' - 1 : d <= Len(env'[var']) /\ env'[var'][d] # EMPTY
  <2>1. \A d \in 1..dir + 1 - 1 : d = dir \/ d \in 1..dir - 1
    BY <1>2
  <2> QED
    BY <1>1, <1>2, <2>1 DEF WayInv, MoreDirs
<1> QED
  BY <1>1, <1>6, <1>7, <1>9, <1>10, <1>11 DEF WayInv

\* The walk ends at the first directory that cannot be read, or behind the last
\* variable: the directories before that are those that are to be loaded.
LEMMA LoadedDone ==
    ASSUME PlaceInv, WayInv,
           \/ var > Len(env)
           \/ var <= Len(env) /\ MoreDirs /\ ~Readable(<<var, dir>>)
    PROVE  Done = Loaded
<1>1. var \in Nat /\ dir \in Nat /\ Len(env) \in Nat
  BY EnvShape DEF PlaceInv
<1>2. \A p \in Reached : p[1] \in Nat /\ p[2] \in Nat /\ p[1] <= Len(env)
  BY ReachedShape, EnvShape
<1>3. ASSUME NEW p \in Done PROVE p \in Loaded
  <2>1. p \in Reached /\ (p[1] < var \/ (p[1] = var /\ p[2] < dir))
    BY DEF Done
  <2>2. ASSUME NEW q \in Reached, NotAfter(q, p) PROVE Readable(q)
    <3>1. q[1] < var \/ (q[1] = var /\ q[2] < dir)
      BY <1>1, <1>2, <2>1, <2>2 DEF NotAfter
    <3> QED
      BY <3>1 DEF Done, WayInv
  <2> QED
    BY <2>1, <2>2 DEF Loaded, Readable
<1>4. ASSUME NEW p \in Loaded PROVE p \in Done
  <2>1. p \in Reached /\ p[1] \in Nat /\ p[2] \in Nat /\ p[1] <= Len(env)
    BY <1>2 DEF Loaded
  <2>2. CASE var > Len(env)
    BY <1>1, <2>1, <2>2 DEF Done
  <2>3. CASE var <= Len(env) /\ MoreDirs /\ ~Readable(<<var, dir>>)
    <3>1. <<var, dir>> \in Reached
      BY <2>3, HereReached
    <3>2. ~NotAfter(<<var, dir>>, p)
      BY <2>3, <3>1 DEF Loaded, Readable
    <3>3. ~(var < p[1] \/ (var = p[1] /\ dir <= p[2]))
      BY <3>2 DEF NotAfter
    <3> QED
      BY <1>1, <2>1, <3>3 DEF Done
  <2> QED
    BY <2>2, <2>3
<1> QED
  BY <1>3, <1>4

LEMMA WayKeeps ==
    ASSUME BuildInv, WayInv, BuildTable
    PROVE  WayInv' /\ (Done' = Done \/ CloseDir)
<1>1. PlaceInv
  BY DEF BuildInv
<1>2. CASE NextVariable
  BY <1>1, <1>2, NextVariableWay
<1>3. CASE CloseDir
  BY <1>1, <1>3, CloseDirWay
<1>4. CASE OpenDir
  BY <1>4, WayStays DEF OpenDir, Over, Readable, DirAt
<1>5. CASE DirFails
  <2>1. Done = Loaded
    BY <1>1, <1>5, LoadedDone DEF DirFails, Readable, DirAt
  <2> QED
    BY <1>5, <2>1, WayStays DEF DirFails
<1>6. CASE BuildEnds
  <2>1. Done = Loaded
    BY <1>1, <1>6, LoadedDone DEF BuildEnds
  <2> QED
    BY <1>6, <2>1, WayStays DEF BuildEnds
<1>7. CASE TableReady
  BY <1>7, WayStays DEF TableReady, At, Over
<1>8. CASE LoadEntry
  <2>1. /\ building = "entries" /\ UNCHANGED <<env, var, dir>>
        /\ building' \in {"entries", "crashed"}
    BY <1>8, LoadEntryKeeps DEF LoadsEntry
  <2> QED
    BY <2>1, WayStays DEF Over
<1>9. CASE InsertBuiltin
  BY <1>9, InsertBuiltinKeeps, WayStays DEF Over
<1>10. CASE RehashSlot \/ RehashDone
  <2>1. UNCHANGED <<env, var, dir>> /\ building' \in {building, "crashed"}
    BY <1>10 DEF RehashSlot, RehashDone
  <2> QED
    BY <2>1, WayStays DEF Over
<1> QED
  BY <1>2, <1>3, <1>4, <1>5, <1>6, <1>7, <1>8, <1>9, <1>10 DEF BuildTable

\* The directories that have had an executable of that name so far.
InThisOne(name) ==
    /\ building = "entries"
    /\ \E k \in 1..entry - 1 : Entries[k] = [name |-> name, runnable |-> TRUE]
Places(name) == {p \in Done : Lists(p, name)} \cup {p \in {<<var, dir>>} : InThisOne(name)}

BuiltinSoFar(name) == Over /\ \E k \in 1..entry - 1 : Builtins[k] = name

Latest(S) == CHOOSE p \in S : \A q \in S : NotAfter(q, p)

\* What a name stands for so far.
SoFar(name) ==
    IF BuiltinSoFar(name) THEN [path |-> NULL, builtin |-> TRUE]
    ELSE IF Places(name) = {} THEN NULL
    ELSE [path |-> Latest(Places(name)), builtin |-> FALSE]

MeansSoFar(name) ==
    /\ Lookup(table, name) = SoFar(name)
    /\ Places(name) # {} => Lookup(table, name) # NULL /\ ~BuiltinSoFar(name)

BoundInv ==
    /\ building = "entries" => entry <= Len(Entries) + 1
    /\ Over => entry <= Len(Builtins) + 1
    /\ building = "ready" => entry > Len(Builtins)
    /\ ~damaged /\ building # "crashed" => \A name \in Names : MeansSoFar(name)

LEMMA MeaningKept ==
    ASSUME NEW name \in Names, MeansSoFar(name), Lookup(table', name) = Lookup(table, name),
           (Places(name))' = Places(name), (BuiltinSoFar(name))' <=> BuiltinSoFar(name)
    PROVE  (MeansSoFar(name))'
<1>1. (SoFar(name))' = SoFar(name)
  BY DEF SoFar
<1>2. (Lookup(table, name))' = Lookup(table', name)
  BY DEF Lookup, Stop, Free, Wild, Matching
<1> QED
  BY <1>1, <1>2 DEF MeansSoFar

\* The places without the current directory only change when one is left.
LEMMA SamePlaces ==
    ASSUME NEW name \in Names, env' = env, Done' = Done,
           (InThisOne(name))' <=> InThisOne(name),
           InThisOne(name) => UNCHANGED <<var, dir>>
    PROVE  (Places(name))' = Places(name)
<1>1. \A p : (Lists(p, name))' <=> Lists(p, name)
  BY DEF Lists, DirAt
<1>2. {p \in Done' : (Lists(p, name))'} = {p \in Done : Lists(p, name)}
  BY <1>1
<1>3. {p \in {<<var', dir'>>} : (InThisOne(name))'} = {p \in {<<var, dir>>} : InThisOne(name)}
  OBVIOUS
<1> QED
  BY <1>2, <1>3 DEF Places

LEMMA WalkMeaning ==
    ASSUME BuildInv, WayInv, BoundInv, Walk
    PROVE  BoundInv'
<1>1. /\ table' = table /\ damaged' = damaged /\ building' # "crashed" /\ env' = env
      /\ building # "crashed"
  BY WalkKeeps DEF Walk, NextVariable, OpenDir, DirFails, CloseDir, BuildEnds, TableReady, At
<1>2. PlaceInv /\ PlaceInv' /\ entry \in Nat /\ entry # 0
  BY WalkKeeps DEF BuildInv, PlaceInv
<1>3. Builtins \in Seq(Names) /\ Len(Builtins) \in Nat
  BY SymbolTableAssumption, LenProperties
<1>4. Walk => BuildTable
  BY BuildCases
<1>5. ASSUME NEW name \in Names
      PROVE  (Places(name))' = Places(name) /\ ((BuiltinSoFar(name))' <=> BuiltinSoFar(name))
  <2>1. CASE NextVariable
    <3>1. Done' = Done /\ ~InThisOne(name) /\ ~(InThisOne(name))' /\ ~Over /\ ~Over'
      BY <1>2, <2>1, NextVariableWay DEF NextVariable, At, InThisOne, Over
    <3> QED
      BY <1>1, <3>1, SamePlaces DEF BuiltinSoFar
  <2>2. CASE OpenDir \/ DirFails \/ BuildEnds
    <3>1. Done' = Done /\ ~InThisOne(name) /\ ~Over /\ entry' = 1
      BY <1>4, <2>2, WayKeeps DEF OpenDir, DirFails, BuildEnds, CloseDir, At, InThisOne, Over, Walk
    <3>2. 1..entry' - 1 = {}
      BY <3>1
    <3>3. ~(InThisOne(name))' /\ ~(BuiltinSoFar(name))' /\ ~BuiltinSoFar(name)
      BY <3>1, <3>2 DEF InThisOne, BuiltinSoFar
    <3> QED
      BY <1>1, <3>1, <3>3, SamePlaces
  <2>3. CASE CloseDir
    <3>1. /\ Done' = Done \cup {<<var, dir>>} /\ building = "entries" /\ entry > Len(Entries)
          /\ ~(InThisOne(name))' /\ ~Over /\ ~Over'
      BY <1>2, <2>3, CloseDirWay DEF CloseDir, At, InThisOne, Over
    <3>2. DOMAIN Entries = 1..entry - 1
      <4>1. entry <= Len(Entries) + 1
        BY <3>1 DEF BoundInv
      <4>2. Len(Entries) \in Nat /\ DOMAIN Entries = 1..Len(Entries)
        BY <1>2, <3>1, EntriesShape
      <4>3. entry > Len(Entries)
        BY <3>1
      <4> QED
        BY <1>2, <4>1, <4>2, <4>3
    <3>3. InThisOne(name) <=> Lists(<<var, dir>>, name)
      BY <3>1, <3>2 DEF InThisOne, Lists, DirAt, Entries
    <3>4. \A p : (Lists(p, name))' <=> Lists(p, name)
      BY <1>1 DEF Lists, DirAt
    <3>5. (Places(name))' = {p \in Done' : Lists(p, name)}
      BY <3>1, <3>4 DEF Places
    <3> QED
      BY <3>1, <3>3, <3>5 DEF Places, BuiltinSoFar
  <2>4. CASE TableReady
    <3>1. /\ Done' = Done /\ ~InThisOne(name) /\ ~(InThisOne(name))'
          /\ Over /\ Over' /\ entry' = entry
      BY <2>4, SameWay DEF TableReady, At, InThisOne, Over
    <3> QED
      BY <1>1, <3>1, SamePlaces DEF BuiltinSoFar
  <2> QED
    BY <2>1, <2>2, <2>3, <2>4 DEF Walk
<1>6. ~damaged' => \A name \in Names : (MeansSoFar(name))'
  BY <1>1, <1>5, MeaningKept DEF BoundInv
<1>7. CASE NextVariable \/ CloseDir
  <2>1. building' = "variables"
    BY <1>7 DEF NextVariable, CloseDir, At
  <2> QED
    BY <1>6, <2>1 DEF BoundInv, Over
<1>8. CASE OpenDir \/ DirFails \/ BuildEnds
  <2>1. entry' = 1 /\ building' \in {"entries", "builtins"}
    BY <1>8 DEF OpenDir, DirFails, BuildEnds
  <2>2. building' = "entries" => Len(Entries)' \in Nat
    BY <1>2, EntriesShape
  <2>3. building' = "entries" => entry' <= Len(Entries)' + 1
    <3> HIDE <1>8
    <3>1. Len(Entries)' \in Nat => 1 <= Len(Entries)' + 1
      OBVIOUS
    <3> QED
      BY <2>1, <2>2, <3>1
  <2>4. entry' <= Len(Builtins) + 1
    <3>1. entry' = 1
      BY <2>1
    <3> QED
      BY <1>3, <3>1
  <2> QED
    BY <1>6, <2>1, <2>3, <2>4 DEF BoundInv
<1>9. CASE TableReady
  <2>1. /\ entry' = entry /\ entry > Len(Builtins) /\ building' = "ready" /\ Over
    BY <1>9 DEF TableReady, At, Over
  <2> QED
    BY <1>6, <2>1 DEF BoundInv
<1> QED
  BY <1>7, <1>8, <1>9 DEF Walk

\* The last place of a name is the one that has been added.
LEMMA AddedIsLatest ==
    ASSUME NEW v \in Nat, NEW d \in Nat, NEW S,
           \A q \in S : q = <<q[1], q[2]>> /\ q[1] \in Nat /\ q[2] \in Nat
                        /\ (q[1] < v \/ (q[1] = v /\ q[2] < d) \/ q = <<v, d>>)
    PROVE  Latest(S \cup {<<v, d>>}) = <<v, d>>
<1> DEFINE T == S \cup {<<v, d>>}
<1>1. \A q \in T : q = <<q[1], q[2]>> /\ q[1] \in Nat /\ q[2] \in Nat
                   /\ (q[1] < v \/ (q[1] = v /\ q[2] <= d))
  OBVIOUS
<1>2. \A q \in T : NotAfter(q, <<v, d>>)
  BY <1>1 DEF NotAfter
<1>3. <<v, d>> \in T
  OBVIOUS
<1> HIDE DEF T
<1>4. ASSUME NEW p \in T, \A q \in T : NotAfter(q, p)
      PROVE  p = <<v, d>>
  <2>1. v < p[1] \/ (v = p[1] /\ d <= p[2])
    BY <1>3, <1>4 DEF NotAfter
  <2>2. p[1] = v /\ p[2] = d
    BY <1>1, <2>1
  <2> QED
    BY <1>1, <2>2
<1>5. Latest(T) = <<v, d>>
  BY <1>2, <1>3, <1>4 DEF Latest
<1> QED
  BY <1>5 DEF T

LEMMA LoadEntryMeaning ==
    ASSUME BuildInv, WayInv, BoundInv, LoadEntry
    PROVE  BoundInv'
<1> DEFINE e == Entries[entry]
           v == [path |-> <<var, dir>>, builtin |-> FALSE]
<1>1. /\ PlaceInv
      /\ building = "entries" /\ UNCHANGED <<env, var, dir>> /\ entry' = entry + 1
      /\ entry \in 1..Len(Entries) /\ Len(Entries) \in Nat /\ entry \in Nat
      /\ e.name \in Names /\ e \in [name: Names, runnable: BOOLEAN]
      /\ ~damaged' => ~damaged
      /\ building' \in {"entries", "crashed"}
      /\ ~damaged' /\ e.runnable =>
            \A n \in Names : Lookup(table', n) = IF n = e.name THEN v ELSE Lookup(table, n)
      /\ ~e.runnable => table' = table
  BY LoadEntryKeeps, EntriesShape DEF LoadsEntry, BuildInv
<1> HIDE DEF e, v
<1>2. Entries' = Entries
  BY <1>1 DEF Entries
<1>3. ~Over /\ ~Over'
  BY <1>1 DEF Over
<1>4. building' = "entries" => entry' <= Len(Entries)' + 1
  <2>1. entry + 1 <= Len(Entries) + 1
    <3>1. entry \in 1..Len(Entries) /\ Len(Entries) \in Nat
      BY <1>1
    <3> QED
      BY <3>1
  <2> QED
    BY <1>1, <1>2, <2>1
<1>5. ASSUME ~damaged', building' # "crashed", NEW name \in Names
      PROVE  (MeansSoFar(name))'
  <2>1. Done' = Done /\ MeansSoFar(name) /\ building' = "entries" /\ ~damaged
    <3>1. Done' = Done
      BY <1>1, SameWay
    <3> QED
      BY <1>1, <1>5, <3>1 DEF BoundInv
  <2>2. e = [name |-> name, runnable |-> TRUE] <=> e.name = name /\ e.runnable
    BY <1>1
  <2>3. (InThisOne(name))' <=> InThisOne(name) \/ (e.name = name /\ e.runnable)
    <3>1. entry' - 1 = entry /\ 1..entry = 1..entry - 1 \cup {entry}
      <4>1. entry' = entry + 1 /\ entry \in 1..Len(Entries) /\ Len(Entries) \in Nat
        BY <1>1
      <4> QED
        BY <4>1
    <3>2. (InThisOne(name))' <=> \E k \in 1..entry : Entries[k] = [name |-> name, runnable |-> TRUE]
      BY <1>2, <2>1, <3>1 DEF InThisOne
    <3>3. InThisOne(name) <=> \E k \in 1..entry - 1 : Entries[k] = [name |-> name, runnable |-> TRUE]
      BY <1>1 DEF InThisOne
    <3> QED
      BY <2>2, <3>1, <3>2, <3>3 DEF e
  <2>4. ~BuiltinSoFar(name) /\ ~(BuiltinSoFar(name))'
    BY <1>3 DEF BuiltinSoFar
  <2>5. CASE e.name = name /\ e.runnable
    <3>1. (Places(name))' = Places(name) \cup {<<var, dir>>}
      <4>1. \A p : (Lists(p, name))' <=> Lists(p, name)
        BY <1>1 DEF Lists, DirAt
      <4>2. {p \in Done' : (Lists(p, name))'} = {p \in Done : Lists(p, name)}
        BY <2>1, <4>1
      <4>3. {p \in {<<var', dir'>>} : (InThisOne(name))'} = {<<var, dir>>}
        BY <1>1, <2>3, <2>5
      <4> QED
        BY <4>2, <4>3 DEF Places
    <3>2. Latest(Places(name) \cup {<<var, dir>>}) = <<var, dir>>
      <4>1. \A q \in Done : q = <<q[1], q[2]>> /\ q[1] \in Nat /\ q[2] \in Nat
                            /\ (q[1] < var \/ (q[1] = var /\ q[2] < dir))
        BY <1>1, ReachedShape DEF Done
      <4>2. var \in Nat /\ dir \in Nat
        BY <1>1 DEF PlaceInv
      <4>3. \A q \in Places(name) : q \in Done \/ q = <<var, dir>>
        BY DEF Places
      <4>4. \A q \in Places(name) : q = <<q[1], q[2]>> /\ q[1] \in Nat /\ q[2] \in Nat
                     /\ (q[1] < var \/ (q[1] = var /\ q[2] < dir) \/ q = <<var, dir>>)
        BY <4>1, <4>2, <4>3
      <4> HIDE <1>1, <1>5, <2>1, <2>5, <3>1
      <4> QED
        BY <4>2, <4>4, AddedIsLatest
    <3>3. (SoFar(name))' = v
      BY <2>4, <3>1, <3>2 DEF SoFar, v
    <3>4. Lookup(table', name) = v
      BY <1>1, <1>5, <2>5
    <3>5. (Lookup(table, name))' = Lookup(table', name)
      BY DEF Lookup, Stop, Free, Wild, Matching
    <3>6. v # NULL
      <4>1. <<var, dir>> \in Path
        BY <1>1 DEF PlaceInv, Path
      <4>2. v \in Value
        BY <4>1 DEF v, Value
      <4> QED
        BY <4>2, NullIsNoValue
    <3> QED
      BY <2>4, <3>3, <3>4, <3>5, <3>6 DEF MeansSoFar
  <2>6. CASE ~(e.name = name /\ e.runnable)
    <3>1. Lookup(table', name) = Lookup(table, name)
      BY <1>1, <1>5, <2>6
    <3>2. (Places(name))' = Places(name)
      BY <1>1, <2>1, <2>3, <2>6, SamePlaces
    <3> QED
      BY <2>1, <2>4, <3>1, <3>2, MeaningKept
  <2> QED
    BY <2>5, <2>6
<1> QED
  BY <1>1, <1>3, <1>4, <1>5 DEF BoundInv, Over

\* A builtin finds its name unbound, or the name has a file and the shell crashes.
LEMMA InsertBuiltinMeaning ==
    ASSUME BuildInv, WayInv, BoundInv, InsertBuiltin
    PROVE  /\ BoundInv'
           /\ building' = "crashed" /\ ~damaged => Places(Builtins[entry]) # {}
<1> DEFINE b == Builtins[entry]
           v == [path |-> NULL, builtin |-> TRUE]
<1>1. /\ building = "builtins" /\ entry \in DOMAIN Builtins /\ b \in Names
      /\ UNCHANGED <<env, var, dir>> /\ entry' = entry + 1
      /\ building' \in {"builtins", "crashed"}
      /\ building' = "crashed" => damaged' = damaged
      /\ ~damaged' => ~damaged /\ Inserts(b, v, "builtins")
  BY InsertBuiltinKeeps
<1> HIDE DEF b, v
<1>2. Len(Builtins) \in Nat /\ DOMAIN Builtins = 1..Len(Builtins)
  BY SymbolTableAssumption, LenProperties
<1>3. Over /\ (building' # "crashed" => Over')
  BY <1>1 DEF Over
<1>4. entry' <= Len(Builtins) + 1 /\ entry' - 1 = entry /\ 1..entry = 1..entry - 1 \cup {entry}
  <2>1. entry' = entry + 1 /\ entry \in 1..Len(Builtins)
    BY <1>1, <1>2
  <2> QED
    BY <1>2, <2>1
<1>5. ~BuiltinSoFar(b)
  <2>1. ASSUME NEW k \in 1..entry - 1, Builtins[k] = b PROVE FALSE
    <3>1. k \in DOMAIN Builtins /\ k # entry
      <4>1. entry \in 1..Len(Builtins)
        BY <1>1, <1>2
      <4> QED
        BY <1>2, <4>1
    <3> QED
      BY <1>1, <2>1, <3>1, SymbolTableAssumption DEF b
  <2> QED
    BY <2>1 DEF BuiltinSoFar
<1>6. ~damaged' => Inserts(b, v, "builtins") /\ MeansSoFar(b)
  BY <1>1 DEF BoundInv
<1>7. ASSUME building' = "crashed", ~damaged PROVE Places(b) # {}
  <2>1. Lookup(table, b) # NULL /\ MeansSoFar(b)
    BY <1>1, <1>6, <1>7 DEF Inserts
  <2> QED
    BY <1>5, <2>1 DEF MeansSoFar, SoFar
<1>8. ASSUME ~damaged', building' # "crashed", NEW name \in Names
      PROVE  (MeansSoFar(name))'
  <2>1. /\ Lookup(table, b) = NULL /\ MeansSoFar(b) /\ MeansSoFar(name)
        /\ Lookup(table', name) = IF name = b THEN v ELSE Lookup(table, name)
    <3>1. v.path = NULL
      BY DEF v
    <3> QED
      BY <1>1, <1>6, <1>8, <3>1 DEF Inserts, BoundInv
  <2>2. Places(b) = {}
    BY <2>1 DEF MeansSoFar
  <2>3. (Places(name))' = Places(name)
    <3>1. Done' = Done
      BY <1>1, SameWay
    <3> QED
      BY <1>1, <3>1, SamePlaces DEF InThisOne
  <2>4. (BuiltinSoFar(name))' <=> BuiltinSoFar(name) \/ name = b
    <3>1. (BuiltinSoFar(name))' <=> \E k \in 1..entry : Builtins[k] = name
      BY <1>3, <1>4, <1>8 DEF BuiltinSoFar
    <3>2. BuiltinSoFar(name) <=> \E k \in 1..entry - 1 : Builtins[k] = name
      BY <1>3 DEF BuiltinSoFar
    <3> QED
      BY <1>4, <3>1, <3>2 DEF b
  <2>5. CASE name = b
    <3>1. (SoFar(name))' = v /\ (Places(name))' = {}
      BY <2>2, <2>3, <2>4, <2>5 DEF SoFar, v
    <3>2. (Lookup(table, name))' = Lookup(table', name)
      BY DEF Lookup, Stop, Free, Wild, Matching
    <3> QED
      BY <2>1, <2>5, <3>1, <3>2 DEF MeansSoFar
  <2>6. CASE name # b
    BY <2>1, <2>3, <2>4, <2>6, MeaningKept
  <2> QED
    BY <2>5, <2>6
<1>9. building' # "entries" /\ building' # "ready"
  BY <1>1
<1> QED
  BY <1>4, <1>7, <1>8, <1>9 DEF BoundInv, b

LEMMA RehashMeaning ==
    ASSUME BuildInv, WayInv, BoundInv, RehashSlot \/ RehashDone
    PROVE  BoundInv' /\ (~damaged => building' # "crashed" \/ building = "crashed")
<1>1. /\ UNCHANGED <<env, var, dir, entry>> /\ damaged' = damaged
      /\ ~damaged => building' = building /\ SameBindings
  BY RehashKeeps
<1>2. Entries' = Entries
  BY <1>1 DEF Entries
<1>3. building' \in {building, "crashed"}
  BY DEF RehashSlot, RehashDone
<1>4. ASSUME ~damaged, building # "crashed", NEW name \in Names
      PROVE  (MeansSoFar(name))'
  <2>1. Done' = Done
    BY <1>1, SameWay
  <2>2. /\ (InThisOne(name))' <=> InThisOne(name)
        /\ (BuiltinSoFar(name))' <=> BuiltinSoFar(name)
    BY <1>1, <1>2, <1>4 DEF InThisOne, BuiltinSoFar, Over
  <2>3. (Places(name))' = Places(name)
    BY <1>1, <2>1, <2>2, SamePlaces
  <2>4. Lookup(table', name) = Lookup(table, name) /\ MeansSoFar(name)
    BY <1>1, <1>4 DEF SameBindings, BoundInv
  <2> QED
    BY <2>2, <2>3, <2>4, MeaningKept
<1>5. Over' => Over
  BY <1>3 DEF Over
<1> QED
  BY <1>1, <1>2, <1>3, <1>4, <1>5 DEF BoundInv

LEMMA InitMeaning == ASSUME TableInit PROVE WayInv /\ BoundInv
<1>1. PlaceInv
  BY InitBuilds DEF BuildInv
<1>2. building = "variables" /\ var = 1 /\ dir = 1 /\ entry = 1 /\ table = Map(getPrime[Slots])
  BY DEF TableInit
<1>3. ~Over /\ building # "entries" /\ building # "ready"
  BY <1>2 DEF Over
<1>4. Done = {}
  <2>1. ASSUME NEW p \in Reached, p[1] < 1 \/ (p[1] = 1 /\ p[2] < 1) PROVE FALSE
    <3>1. p[1] \in 1..Len(env) /\ p[2] \in 1..Len(env[p[1]])
      BY <1>1, ReachedShape, EnvShape
    <3>2. p[1] \in Nat /\ p[1] # 0 /\ p[2] \in Nat /\ p[2] # 0
      BY <3>1
    <3> QED
      BY <2>1, <3>2
  <2> QED
    BY <1>2, <2>1 DEF Done
<1>5. WayInv
  BY <1>2, <1>3, <1>4 DEF WayInv
<1>6. ASSUME NEW name \in Names PROVE MeansSoFar(name)
  <2>1. MapOK(table) /\ Held(table) = {}
    <3>1. getPrime[Slots] \in Nat /\ IsPrime(getPrime[Slots])
      BY SymbolTableAssumption, PrimeFound
    <3>2. MapOK(table)
      BY InitBuilds DEF BuildInv, TableInv, MapsOK
    <3> QED
      BY <1>2, <3>2 DEF Held, Free, Map
  <2>2. Lookup(table, name) = NULL
    BY <2>1, NoEntry
  <2>3. Places(name) = {} /\ ~BuiltinSoFar(name)
    BY <1>3, <1>4 DEF Places, InThisOne, BuiltinSoFar
  <2> QED
    BY <2>2, <2>3 DEF MeansSoFar, SoFar
<1> QED
  BY <1>3, <1>5, <1>6 DEF BoundInv

\* What is true of the table while it is built and afterwards.
TableMeans == BuildInv /\ WayInv /\ BoundInv

LEMMA Meaningful == Spec => []TableMeans
<1>1. Init => TableMeans
  BY InitBuilds, InitMeaning DEF Init, TableMeans
<1>2. TableMeans /\ [Next]_vars => TableMeans'
  <2> SUFFICES ASSUME BuildInv, WayInv, BoundInv, [Next]_vars PROVE TableMeans'
    BY DEF TableMeans
  <2>1. CASE BuildTable
    <3>1. BuildInv'
      BY <2>1, BuildCases, WalkKeeps, LoadEntryKeeps, InsertBuiltinKeeps, RehashKeeps
    <3>2. WayInv'
      BY <2>1, WayKeeps
    <3>3. BoundInv'
      BY <2>1, BuildCases, WalkMeaning, LoadEntryMeaning, InsertBuiltinMeaning, RehashMeaning
    <3> QED
      BY <3>1, <3>2, <3>3 DEF TableMeans
  <2>2. CASE UNCHANGED tableVars
    <3>1. UNCHANGED <<env, building, var, dir, entry, table, fresh, moved, damaged>>
      BY <2>2 DEF tableVars
    <3>2. BuildInv'
      BY <3>1 DEF BuildInv, PlaceInv, MoreDirs, TableInv, MapsOK, Sound, Moving
    <3>3. WayInv'
      BY <3>1, WayStays DEF Over
    <3>4. Entries' = Entries /\ Done' = Done /\ (Over' <=> Over)
      BY <3>1 DEF Entries, Done, Reached, Over
    <3>5. ASSUME NEW name \in Names, MeansSoFar(name) PROVE (MeansSoFar(name))'
      <4>1. /\ (InThisOne(name))' <=> InThisOne(name)
            /\ (BuiltinSoFar(name))' <=> BuiltinSoFar(name)
        BY <3>1, <3>4 DEF InThisOne, BuiltinSoFar
      <4>2. (Places(name))' = Places(name)
        BY <3>1, <3>4, <4>1, SamePlaces
      <4>3. Lookup(table', name) = Lookup(table, name)
        BY <3>1
      <4> QED
        BY <3>5, <4>1, <4>2, <4>3, MeaningKept
    <3>6. BoundInv'
      BY <3>1, <3>4, <3>5 DEF BoundInv
    <3> QED
      BY <3>2, <3>3, <3>6 DEF TableMeans
  <2>3. CASE ~Start
    <3>1. UNCHANGED tableVars
      BY <2>3 DEF Next, EnterLine, Tokenize, BuildTree, Execute, FinishLine, vars
    <3> QED
      BY <2>2, <3>1
  <2> QED
    BY <2>1, <2>3 DEF Start
<1> QED
  BY <1>1, <1>2, PTL DEF Spec

\* When no more directories follow, a name has had those that Having names.
LEMMA PlacesAreHaving ==
    ASSUME WayInv, Over, NEW name \in Names
    PROVE  Places(name) = Having(name)
<1>1. Done = Loaded /\ ~InThisOne(name)
  BY DEF WayInv, InThisOne, Over
<1> QED
  BY <1>1 DEF Places, Having, Lists

\* The table is complete when the last builtin is in it.
LEMMA CompleteMeans ==
    ASSUME TableMeans, Over, entry > Len(Builtins), ~damaged, NEW name \in Names
    PROVE  Lookup(table, name) = Meaning(name)
<1>1. BuildInv /\ WayInv /\ BoundInv /\ PlaceInv
  BY DEF TableMeans, BuildInv
<1>2. building # "crashed" /\ entry <= Len(Builtins) + 1
  BY <1>1 DEF Over, BoundInv
<1>3. Lookup(table, name) = SoFar(name) /\ Places(name) = Having(name)
  BY <1>1, <1>2, PlacesAreHaving DEF BoundInv, MeansSoFar
<1>4. BuiltinSoFar(name) <=> IsBuiltin(name)
  <2>1. Len(Builtins) \in Nat /\ DOMAIN Builtins = 1..Len(Builtins)
    BY SymbolTableAssumption, LenProperties
  <2>2. entry \in Nat
    BY <1>1 DEF PlaceInv
  <2>3. DOMAIN Builtins = 1..entry - 1
    BY <1>2, <2>1, <2>2
  <2> QED
    BY <2>3 DEF BuiltinSoFar, IsBuiltin
<1> QED
  BY <1>3, <1>4 DEF SoFar, Meaning, Latest

\* When the start is over a name stands for the file of the last directory that
\* has it, or for the builtin.
THEOREM LastOneWins == Spec => LastDirectoryWins
<1> DEFINE Wins == building' = "ready" /\ ~damaged =>
                       \A name \in Names : Lookup(table, name) = Meaning(name)
<1>1. ASSUME TableMeans, [Next]_vars, building' # building PROVE Wins
  <2> SUFFICES ASSUME building' = "ready", ~damaged, NEW name \in Names
               PROVE  Lookup(table, name) = Meaning(name)
    OBVIOUS
  <2>1. BuildInv /\ WayInv /\ BoundInv /\ PlaceInv
    BY <1>1 DEF TableMeans, BuildInv
  <2>2. Start
    BY <1>1 DEF Next, EnterLine, Tokenize, BuildTree, Execute, FinishLine, vars, tableVars
  <2>3. TableReady
    <3>1. ~LoadEntry /\ ~InsertBuiltin
      BY <2>1, LoadEntryKeeps, InsertBuiltinKeeps
    <3>2. ~RehashSlot /\ ~RehashDone
      BY <1>1 DEF RehashSlot, RehashDone
    <3> QED
      BY <2>2, <3>1, <3>2 DEF Start, BuildTable, NextVariable, OpenDir, DirFails, CloseDir,
         BuildEnds, At
  <2>4. Over /\ entry > Len(Builtins)
    BY <2>3 DEF TableReady, At, Over
  <2> QED
    BY <1>1, <2>4, CompleteMeans
<1>2. TableMeans /\ [Next]_vars => [Wins]_building
  BY <1>1
<1> QED
  BY <1>2, Meaningful, PTL DEF Spec, LastDirectoryWins

\* The start crashes if and only if a loaded directory has an executable with the
\* name of a builtin.
THEOREM CrashIsExplained == Spec => CrashExplained
<1> DEFINE shadowed == \E name \in Names : IsBuiltin(name) /\ Having(name) # {}
           Explained == ~damaged => LET hit == shadowed
                                    IN  /\ building' = "crashed" => hit
                                        /\ building' = "ready" => ~hit
<1>1. ASSUME TableMeans, [Next]_vars, building' # building, ~damaged
      PROVE  /\ building' = "crashed" => shadowed
             /\ building' = "ready" => ~shadowed
  <2>1. BuildInv /\ WayInv /\ BoundInv /\ PlaceInv
    BY <1>1 DEF TableMeans, BuildInv
  <2>2. Start
    BY <1>1 DEF Next, EnterLine, Tokenize, BuildTree, Execute, FinishLine, vars, tableVars
  <2>3. ASSUME building' = "crashed" PROVE shadowed
    <3>1. ~Walk
      BY <2>1, <2>3, WalkKeeps
    <3>2. ~RehashSlot /\ ~RehashDone
      BY <1>1, <2>1, RehashKeeps
    <3>3. ~LoadEntry
      BY <1>1, <2>1, <2>3, LoadEntryKeeps
    <3>4. InsertBuiltin
      BY <2>2, <3>1, <3>2, <3>3, BuildCases DEF Start
    <3>5. /\ building = "builtins" /\ entry \in DOMAIN Builtins /\ Builtins[entry] \in Names
          /\ Places(Builtins[entry]) # {}
      BY <1>1, <2>1, <2>3, <3>4, InsertBuiltinKeeps, InsertBuiltinMeaning
    <3>6. Over
      BY <3>5 DEF Over
    <3> QED
      BY <2>1, <3>5, <3>6, PlacesAreHaving DEF IsBuiltin
  <2>4. ASSUME building' = "ready", NEW name \in Names, IsBuiltin(name) PROVE Having(name) = {}
    <3>1. TableReady
      <4>1. ~LoadEntry /\ ~InsertBuiltin
        BY <2>1, <2>4, LoadEntryKeeps, InsertBuiltinKeeps
      <4>2. ~RehashSlot /\ ~RehashDone
        BY <1>1, <2>1, RehashKeeps
      <4> QED
        BY <2>2, <2>4, <4>1, <4>2 DEF Start, BuildTable, NextVariable, OpenDir, DirFails,
           CloseDir, BuildEnds, At
    <3>2. Over /\ building # "crashed" /\ entry > Len(Builtins) /\ entry <= Len(Builtins) + 1
      BY <2>1, <3>1 DEF TableReady, At, Over, BoundInv
    <3>3. BuiltinSoFar(name)
      <4>1. Len(Builtins) \in Nat /\ DOMAIN Builtins = 1..Len(Builtins)
        BY SymbolTableAssumption, LenProperties
      <4>2. entry \in Nat
        BY <2>1 DEF PlaceInv
      <4>3. DOMAIN Builtins = 1..entry - 1
        BY <3>2, <4>1, <4>2
      <4> QED
        BY <2>4, <3>2, <4>3 DEF BuiltinSoFar, IsBuiltin
    <3> QED
      BY <1>1, <2>1, <3>2, <3>3, PlacesAreHaving DEF BoundInv, MeansSoFar
  <2> QED
    BY <2>3, <2>4
<1>2. TableMeans /\ [Next]_vars => [Explained]_building
  BY <1>1
<1> QED
  BY <1>2, Meaningful, PTL DEF Spec, CrashExplained

-----------------------------------------------------------------------------
(* The types.                                                                *)

\* The parser does not read past the tokens.
PosInv ==
    /\ pc \in {"start", "prompt", "scan", "scanned", "words", "redirections",
               "list", "parsed", "crashed"}
    /\ pos \in 0..Len(tokens)
    /\ pc \in {"start", "prompt", "scan", "scanned"} => pos = 0

LEMMA ParseKeepsPos == ASSUME LexInv, PosInv, Parse PROVE PosInv'
<1>1. tokens' = tokens /\ pc' \in {"words", "redirections", "list", "parsed", "crashed"}
  BY ParseShape DEF lexVars
<1>2. Len(tokens) \in Nat /\ pos \in Nat /\ pos <= Len(tokens)
  <2>1. Len(tokens) \in Nat
    BY LexShape
  <2> QED
    BY <2>1 DEF PosInv
<1>3. pos' \in 0..Len(tokens)
  <2>1. CASE StartParse
    <3>1. pos' = 0
      BY <2>1 DEF StartParse
    <3> QED
      BY <1>2, <3>1
  <2>2. CASE UNCHANGED pos
    BY <1>2, <2>2
  <2>3. CASE GetWord \/ ParseRedirection \/ NextCommand \/ ParseOperator
    <3>1. peek_token(pos) # "END"
      BY <2>3 DEF GetWord, ParseRedirection, NextCommand, ParseOperator, Redirections,
         ListOperators
    <3>2. ~(pos >= Len(tokens))
      BY <3>1 DEF peek_token
    <3>3. pos' = pos + 1 \/ (pos' = pos + 2 /\ pos + 1 < Len(tokens))
      BY <2>3 DEF GetWord, ParseRedirection, NextCommand, ParseOperator
    <3> QED
      BY <1>2, <3>2, <3>3
  <2> QED
    BY <2>1, <2>2, <2>3 DEF Parse, WordsEnd, PipelineEnds, ListEnds, parseVars
<1> QED
  BY <1>1, <1>3 DEF PosInv

LEMMA Positions == Spec => []PosInv
<1>1. Init => PosInv
  <2> SUFFICES ASSUME Init PROVE PosInv
    OBVIOUS
  <2>1. pc = "start" /\ pos = 0 /\ tokens = <<>>
    BY DEF Init, NoTree, lexer_init
  <2>2. 0 \in 0..Len(tokens)
    BY <2>1, EmptySeq
  <2> QED
    BY <2>1, <2>2 DEF PosInv
<1>2. LexInv /\ LexInv' /\ PosInv /\ [Next]_vars => PosInv'
  <2> SUFFICES ASSUME LexInv, LexInv', PosInv, [Next]_vars PROVE PosInv'
    OBVIOUS
  <2>1. Len(tokens') \in Nat
    BY DEF LexInv
  <2>2. 0 \in 0..Len(tokens')
    BY <2>1
  <2>3. CASE Start
    <3>1. pc = "start" /\ pc' \in {"start", "prompt", "crashed"} /\ UNCHANGED <<pos, tokens>>
      BY <2>3 DEF Start, lexVars, parseVars
    <3> QED
      BY <2>2, <3>1 DEF PosInv
  <2>4. ASSUME NEW l \in Typed[env], EnterLine(l) PROVE PosInv'
    <3>1. pc = "prompt" /\ pc' = "scan" /\ UNCHANGED <<pos, tokens>>
      BY <2>4 DEF EnterLine, parseVars
    <3> QED
      BY <2>2, <3>1 DEF PosInv
  <2>5. CASE Tokenize
    <3>1. pc = "scan" /\ pc' \in {"scan", "scanned"} /\ pos' = pos
      BY <2>5 DEF Tokenize, Scan, ReadBlank, ReadOperator, ReadLetter, Round,
                  LineScanned, parseVars
    <3> QED
      BY <2>2, <3>1 DEF PosInv
  <2>6. CASE BuildTree
    BY <2>6, ParseKeepsPos DEF BuildTree
  <2>7. CASE Execute
    <3>1. pc = "parsed" /\ pc' \in {"parsed", "crashed"} /\ UNCHANGED <<pos, tokens>>
      BY <2>7 DEF Execute, lexVars, parseVars
    <3> QED
      BY <3>1 DEF PosInv
  <2>8. CASE FinishLine
    <3>1. pc' = "prompt" /\ pos' = 0
      BY <2>8 DEF FinishLine, free_ast
    <3> QED
      BY <2>2, <3>1 DEF PosInv
  <2>9. CASE UNCHANGED vars
    BY <2>9 DEF vars, lexVars, parseVars, PosInv
  <2> QED
    BY <2>3, <2>4, <2>5, <2>6, <2>7, <2>8, <2>9 DEF Next
<1> QED
  BY <1>1, <1>2, Lexing, PTL DEF Spec

\* The number of elements that the table counts is the number of its entries, and
\* the lexer and the parser keep within the line and the tokens.
THEOREM FrontEndTypeCorrect == Spec => []TypeOK
<1>1. LexInv /\ ScanInv /\ PosInv /\ BuildInv => TypeOK
  <2> SUFFICES ASSUME LexInv, ScanInv, PosInv, BuildInv PROVE TypeOK
    OBVIOUS
  <2> DEFINE T == [type: TokenTypes, lexeme: Seq(Letters) \cup {NULL}]
  <2>1. tokens \in Seq(T)
    <3>1. tokens \in Seq(Tokens) /\ Len(tokens) \in Nat
      BY LexShape
    <3>2. "WORD" \in TokenTypes
      BY DEF TokenTypes
    <3>3. Tokens \subseteq T
      BY <3>2 DEF Tokens
    <3> HIDE DEF T
    <3>4. \A k \in 1..Len(tokens) : tokens[k] \in T
      BY <3>1, <3>3, ElementOfSeq
    <3>5. tokens = [k \in 1..Len(tokens) |-> tokens[k]]
      BY <3>1, LenProperties
    <3>6. tokens \in [1..Len(tokens) -> T]
      BY <3>4, <3>5
    <3> QED
      BY <3>1, <3>6, SeqDef
  <2>2. LexTypeOK
    <3>1. capacity \in Nat
      BY LexShape
    <3> HIDE DEF T
    <3>2. /\ line \in Seq(Chars) /\ Len(line) <= MaxLine /\ at \in 0..Len(line)
          /\ buf \in Seq(Letters) /\ Len(buf) <= MaxWord
      BY DEF LexInv, ScanInv
    <3> QED
      BY <2>1, <3>1, <3>2 DEF LexTypeOK, T
  <2>3. /\ building \in {"variables", "entries", "builtins", "ready", "crashed"}
        /\ DOMAIN table.slot = 0..table.size - 1
        /\ table.num = Cardinality(DOMAIN table.slot \ (Free(table) \cup Wild(table)))
    <3>1. MapOK(table) /\ PlaceInv
      BY DEF BuildInv, TableInv, MapsOK
    <3>2. DOMAIN table.slot = 0..table.size - 1
      BY <3>1, MapShape
    <3> QED
      BY <3>1, <3>2 DEF MapOK, Held, PlaceInv
  <2> QED
    BY <2>2, <2>3 DEF TypeOK, PosInv
<1> QED
  BY <1>1, Lexing, ScanSafety, Positions, Building, PTL

-----------------------------------------------------------------------------
(* From the words of the line to the files.                                  *)

\* What was looked up is the first word of a command of the line.
FoundInv ==
    /\ pc \notin {"parsed", "crashed"} => found = NULL
    /\ pc \notin {"start", "crashed"} => building = "ready"
    /\ found # NULL =>
          /\ pc \in {"parsed", "crashed"} /\ building = "ready"
          /\ Origin(tokens, found.name) /\ found.name \in Names
          /\ found.val = Lookup(table, found.name)

LEMMA OriginNamed ==
    ASSUME LexInv, TextInv, NEW word, Origin(tokens, word)
    PROVE  word \in Names
<1>1. PICK n \in 1..Len(tokens) : IsWord(tokens, n) /\ tokens[n].lexeme = word
  BY DEF Origin
<1>2. tokens[n] \in Tokens /\ tokens[n].type = "WORD" /\ ~Overlong(tokens[n])
  BY <1>1, LexShape, ElementOfSeq DEF IsWord, TextInv, Short
<1>3. word \in Seq(Letters) /\ Len(word) \in 1..MaxWord
  BY <1>1, <1>2 DEF Tokens, Overlong
<1>4. word \in [1..Len(word) -> Letters]
  BY <1>3, LenProperties
<1> QED
  BY <1>3, <1>4, NamesAssumption

LEMMA ExecuteFinds ==
    ASSUME LexInv, TextInv, LeadInv, FoundInv, Execute
    PROVE  FoundInv'
<1>1. /\ pc = "parsed" /\ pc' \in {"parsed", "crashed"} /\ building = "ready"
      /\ UNCHANGED <<tokens, building, table>>
  BY DEF Execute, lexVars, tableVars, FoundInv
<1>2. CASE found' = found
  BY <1>1, <1>2 DEF FoundInv
<1>3. ASSUME NEW c \in Commands(tree), c.argv[0] # NULL,
             found' = [name |-> c.argv[0], val |-> Lookup(table, c.argv[0])]
      PROVE  FoundInv'
  <2>1. Led(tokens, c.argv[0])
    BY <1>1, <1>3 DEF LeadInv, Parsing, TreeLed
  <2>2. Origin(tokens, c.argv[0])
    BY <1>3, <2>1 DEF Led
  <2>3. c.argv[0] \in Names
    BY <2>2, OriginNamed
  <2>4. found'.name = c.argv[0] /\ found'.val = Lookup(table, c.argv[0])
    BY <1>3
  <2> QED
    BY <1>1, <2>2, <2>3, <2>4 DEF FoundInv
<1> QED
  BY <1>2, <1>3 DEF Execute

LEMMA Finding == Spec => []FoundInv
<1>1. Init => FoundInv
  BY DEF Init, FoundInv
<1>2. LexInv /\ TextInv /\ LeadInv /\ FoundInv /\ [Next]_vars => FoundInv'
  <2> SUFFICES ASSUME LexInv, TextInv, LeadInv, FoundInv, [Next]_vars PROVE FoundInv'
    OBVIOUS
  <2>1. CASE Start
    <3>1. /\ pc = "start" /\ found' = found
          /\ pc' = CASE building' = "ready" -> "prompt"
                     [] building' = "crashed" -> "crashed"
                     [] OTHER -> "start"
      BY <2>1 DEF Start
    <3>2. pc' \in {"start", "crashed"} \/ (pc' = "prompt" /\ building' = "ready")
      BY <3>1
    <3> QED
      BY <3>1, <3>2 DEF FoundInv
  <2>2. CASE /\ pc \notin {"start", "crashed"} /\ building' = building
             /\ pc' \notin {"start"} /\ found' = NULL
    BY <2>2 DEF FoundInv
  <2>3. ASSUME NEW l \in Typed[env], EnterLine(l) PROVE FoundInv'
    <3>1. pc = "prompt" /\ pc' = "scan" /\ building' = building /\ found' = found
      BY <2>3 DEF EnterLine, tableVars
    <3> QED
      BY <2>2, <3>1 DEF FoundInv
  <2>4. CASE Tokenize
    <3>1. pc = "scan" /\ pc' \in {"scan", "scanned"} /\ building' = building /\ found' = found
      BY <2>4 DEF Tokenize, Scan, ReadBlank, ReadOperator, ReadLetter, Round,
                  LineScanned, tableVars
    <3> QED
      BY <2>2, <3>1 DEF FoundInv
  <2>5. CASE BuildTree
    <3>1. /\ pc \in {"scanned", "words", "redirections", "list"}
          /\ pc' \in {"words", "redirections", "list", "parsed", "crashed"}
          /\ building' = building /\ found' = found
      BY <2>5, ParseShape DEF BuildTree, tableVars
    <3> QED
      BY <2>2, <3>1 DEF FoundInv
  <2>6. CASE Execute
    BY <2>6, ExecuteFinds
  <2>7. CASE FinishLine
    <3>1. pc = "parsed" /\ pc' = "prompt" /\ building' = building /\ found' = NULL
      BY <2>7 DEF FinishLine, tableVars
    <3> QED
      BY <2>2, <3>1 DEF FoundInv
  <2>8. CASE UNCHANGED vars
    <3>1. UNCHANGED <<pc, found, building, tokens, table>>
      BY <2>8 DEF vars, lexVars, tableVars
    <3> QED
      BY <3>1 DEF FoundInv
  <2> QED
    BY <2>1, <2>3, <2>4, <2>5, <2>6, <2>7, <2>8 DEF Next
<1> QED
  BY <1>1, <1>2, Lexing, Texts, Leading, PTL DEF Spec

\* A command that is looked up begins a word of the line, at the line's start or
\* behind an operator that ends a command, and what is found is what the directories of
\* PATH and the builtins make it stand for.
THEOREM RunsOnlyWhatWasTyped == Spec => []RunsWhatWasTyped
<1>1. LexInv /\ TextInv /\ FoundInv /\ TableMeans => RunsWhatWasTyped
  <2> SUFFICES ASSUME LexInv, TextInv, FoundInv, TableMeans, found # NULL
               PROVE  RunsWhatWasTyped
    BY DEF RunsWhatWasTyped
  <2> DEFINE word == found.name
  <2>1. /\ Sourced /\ Origin(tokens, word) /\ word \in Names
        /\ found.val = Lookup(table, word) /\ building = "ready"
    BY DEF FoundInv, TextInv
  <2>2. line \in Seq(Chars) /\ Len(tokens) \in Nat
    BY LexShape
  <2>3. PICK k \in WordStarts :
            word = SubSeq(line, k, k + Len(word) - 1) /\ AtCommand(k)
    BY <2>1, <2>2, OriginTyped
  <2>4. \A m \in 1..k - 1 : (\A q \in m + 1..k - 1 : line[q] = " ")
                                => line[m] \in {" ", ";", "&", "|"}
    BY <2>3, Zenon DEF AtCommand, Blank, Stopper
  <2>5. ~damaged => found.val = Meaning(word)
    <3>1. Over /\ entry > Len(Builtins)
      BY <2>1 DEF TableMeans, BoundInv, Over
    <3> QED
      BY <2>1, <3>1, CompleteMeans
  <2> QED
    BY <2>3, <2>4, <2>5, Zenon DEF RunsWhatWasTyped
<1> QED
  BY <1>1, Lexing, Texts, Finding, Meaningful, PTL

-----------------------------------------------------------------------------
(* The tree of a line, and the crashes of the front end.                     *)

\* A crash of the parser or the executor is not the end of a line of the language,
\* unless the table's memory had something in it.
CrashInv ==
    /\ pc \notin {"start", "crashed"} => building = "ready"
    /\ pc = "crashed" /\ building = "ready" /\ ~damaged => ~Sentence

LEMMA ExecuteCrash ==
    ASSUME LexInv, TreeInv, BuildInv, Execute, pc' = "crashed", ~damaged, building = "ready"
    PROVE  ~Sentence
<1>1. pc = "parsed"
  BY DEF Execute
<1>2. PICK c \in Commands(tree) :
         c.argv[0] = NULL \/ Stop(table, c.argv[0]) \in Wild(table)
  BY <1>1 DEF Execute
<1>3. Wild(table) = {}
  BY DEF BuildInv, TableInv, Sound, Clean
<1>4. c.argv[0] = NULL
  BY <1>2, <1>3
<1>5. ~Runnable(c)
  BY <1>4 DEF Runnable
<1> QED
  BY <1>1, <1>2, <1>5, ParsedRight

LEMMA Crashes == Spec => []CrashInv
<1>1. Init => CrashInv
  BY DEF Init, CrashInv
<1>2. LexInv /\ ArgvInv /\ TreeInv /\ TableMeans /\ CrashInv /\ [Next]_vars => CrashInv'
  <2> SUFFICES ASSUME LexInv, ArgvInv, TreeInv, TableMeans, CrashInv, [Next]_vars
               PROVE  CrashInv'
    OBVIOUS
  <2>1. CASE Start
    <3>1. /\ pc = "start"
          /\ pc' = CASE building' = "ready" -> "prompt"
                     [] building' = "crashed" -> "crashed"
                     [] OTHER -> "start"
      BY <2>1 DEF Start
    <3>2. \/ pc' = "start"
          \/ pc' = "crashed" /\ building' = "crashed"
          \/ pc' = "prompt" /\ building' = "ready"
      BY <3>1
    <3> QED
      BY <3>2 DEF CrashInv
  <2>2. CASE /\ pc \notin {"start", "crashed"} /\ pc' # "crashed" /\ building' = building
    BY <2>2 DEF CrashInv
  <2>3. ASSUME NEW l \in Typed[env], EnterLine(l) PROVE CrashInv'
    BY <2>2, <2>3 DEF EnterLine, tableVars
  <2>4. CASE Tokenize
    <3>1. pc = "scan" /\ pc' \in {"scan", "scanned"} /\ building' = building
      BY <2>4 DEF Tokenize, Scan, ReadBlank, ReadOperator, ReadLetter, Round,
                  LineScanned, tableVars
    <3> QED
      BY <2>2, <3>1
  <2>5. CASE BuildTree
    <3>1. /\ pc \in {"scanned", "words", "redirections", "list"}
          /\ building' = building /\ Parse
      BY <2>5 DEF BuildTree, tableVars, Parse, StartParse, GetWord, WordsEnd,
                  ParseRedirection, NextCommand, PipelineEnds, ParseOperator, ListEnds
    <3>2. CASE pc' = "crashed"
      <4>1. ParseRedirection
        BY <3>1, <3>2 DEF Parse, StartParse, GetWord, WordsEnd, NextCommand, PipelineEnds,
                          ParseOperator, ListEnds
      <4>2. ~Sentence
        BY <3>2, <4>1, RedirectionCrash
      <4>3. ~Sentence'
        BY <3>1, <4>2, ParseShape, SentenceStays DEF lexVars
      <4> QED
        BY <3>2, <4>3 DEF CrashInv
    <3> QED
      BY <2>2, <3>1, <3>2
  <2>6. CASE Execute
    <3>1. /\ pc = "parsed" /\ building' = building /\ damaged' = damaged /\ tokens' = tokens
          /\ building = "ready"
      BY <2>6 DEF Execute, tableVars, lexVars, CrashInv
    <3>2. ASSUME pc' = "crashed", ~damaged PROVE ~Sentence'
      BY <2>6, <3>1, <3>2, ExecuteCrash, SentenceStays DEF TableMeans
    <3> QED
      BY <3>1, <3>2 DEF CrashInv
  <2>7. CASE FinishLine
    BY <2>2, <2>7 DEF FinishLine, tableVars
  <2>8. CASE UNCHANGED vars
    <3>1. UNCHANGED <<pc, building, damaged, tokens>>
      BY <2>8 DEF vars, tableVars, lexVars
    <3> QED
      BY <3>1, SentenceStays DEF CrashInv
  <2> QED
    BY <2>1, <2>3, <2>4, <2>5, <2>6, <2>7, <2>8 DEF Next
<1> QED
  BY <1>1, <1>2, Lexing, Arrays, Treeing, Meaningful, PTL DEF Spec

\* The parser makes the tree of a line of the language, all of it and in its order,
\* and of every other line it leaves a rest or an incomplete command; no line of the
\* language crashes the front end when rehash got clean memory.
THEOREM TreeIsRight == Spec => []TreeRight
<1>1. LexInv /\ TreeInv /\ CrashInv => TreeRight
  <2> SUFFICES ASSUME LexInv, TreeInv, CrashInv PROVE TreeRight
    OBVIOUS
  <2>1. ASSUME pc = "parsed", Sentence PROVE pos = Len(tokens) /\ Spelling = tokens
    BY <2>1, ParsedRight
  <2>2. ASSUME pc = "parsed", ~Sentence
        PROVE  \/ pos < Len(tokens)
               \/ \E c \in Commands(tree) :
                     \/ c.argc = 0
                     \/ \E k \in DOMAIN c.redir : c.redir[k].filename = NULL
    BY <2>2, ParsedRight DEF Complete
  <2>3. pc = "crashed" /\ building = "ready" /\ ~damaged => ~Sentence
    BY DEF CrashInv
  <2> QED
    BY <2>1, <2>2, <2>3 DEF TreeRight
<1> QED
  BY <1>1, Lexing, Treeing, Crashes, PTL

=============================================================================
