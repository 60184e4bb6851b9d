---------------------------- MODULE CommonProofs ----------------------------
(* Facts about numbers, primes and sequences that several proofs need.       *)
EXTENDS Primes, SequencesExt, SequenceTheorems, FiniteSetTheorems,
        WellFoundedInduction, TLAPS

-----------------------------------------------------------------------------
(* Numbers.                                                                  *)

\* Every finite set of numbers has a least one.
LEMMA Least ==
    ASSUME NEW S \in SUBSET Nat, IsFiniteSet(S), S # {}
    PROVE  \E x \in S : \A y \in S : x <= y
<1> DEFINE Below(x) == {y \in S : y <= x}
           Segments == {Below(x) : x \in S}
<1>1. PICK U \in Segments : \A V \in Segments : <<V, U>> \notin StrictSubsetOrdering(S)
  <2>1. Segments \subseteq SUBSET S /\ Segments # {}
    OBVIOUS
  <2> HIDE DEF Segments
  <2>2. IsWellFoundedOn(StrictSubsetOrdering(S), SUBSET S)
    BY FS_StrictSubsetOrderingWellFounded, FS_FiniteSubsetsOfFinite
  <2> QED
    BY <2>1, <2>2, WFMin, Zenon
<1>2. PICK x \in S : U = Below(x)
  OBVIOUS
<1>3. ASSUME NEW y \in S, ~(x <= y)
      PROVE  FALSE
  <2>1. y \in Nat /\ x \in Nat /\ y < x
    BY <1>3
  <2>2. Below(y) \subseteq Below(x)
    <3>1. \A z \in S : z <= y => z <= x
      BY <2>1
    <3> QED
      BY <3>1
  <2>3. x \in Below(x) /\ x \notin Below(y)
    BY <2>1
  <2>4. <<Below(y), U>> \in StrictSubsetOrdering(S)
    BY <2>2, <2>3, <1>2 DEF StrictSubsetOrdering
  <2> QED
    BY <2>4, <1>1
<1> QED
  BY <1>3

\* And so has every other.
LEMMA LeastNumber ==
    ASSUME NEW S \in SUBSET Nat, S # {}
    PROVE  \E x \in S : \A y \in S : x <= y
<1>1. PICK n \in S : TRUE
  OBVIOUS
<1> DEFINE T == {y \in S : y <= n}
<1>2. T \in SUBSET Nat /\ n \in T
  <2>1. n \in Nat /\ n <= n
    OBVIOUS
  <2> QED
    BY <2>1
<1>3. IsFiniteSet(T)
  BY <1>2, FS_BoundedSetOfNaturals
<1> HIDE DEF T
<1>4. PICK x \in T : \A y \in T : x <= y
  BY <1>2, <1>3, Least
<1>5. x \in S /\ x <= n
  BY <1>4 DEF T
<1>6. ASSUME NEW y \in S PROVE x <= y
  <2>1. CASE y <= n
    BY <1>4, <2>1 DEF T
  <2>2. CASE ~(y <= n)
    BY <1>5, <2>2
  <2> QED
    BY <2>1, <2>2
<1> QED
  BY <1>5, <1>6

LEMMA GreatestNumber ==
    ASSUME NEW S \in SUBSET Nat, NEW n \in Nat, S # {}, \A x \in S : x <= n
    PROVE  \E x \in S : \A y \in S : y <= x
<1> DEFINE Rest == {n - x : x \in S}
<1>1. Rest \in SUBSET Nat /\ Rest # {}
  <2>1. \A x \in S : n - x \in Nat
    OBVIOUS
  <2> QED
    BY <2>1
<1> HIDE DEF Rest
<1>2. PICK r \in Rest : \A q \in Rest : r <= q
  BY <1>1, LeastNumber
<1>3. PICK x \in S : r = n - x
  BY DEF Rest
<1>4. ASSUME NEW y \in S PROVE y <= x
  <2>1. r <= n - y
    BY <1>2 DEF Rest
  <2>2. x \in Nat /\ y \in Nat
    OBVIOUS
  <2> QED
    BY <2>1, <2>2, <1>3
<1> QED
  BY <1>4

\* Induction, with a set for the statement.
LEMMA Induction ==
    ASSUME NEW S \in SUBSET Nat, 0 \in S, \A n \in S : n + 1 \in S
    PROVE  \A n \in Nat : n \in S
<1> DEFINE T == Nat \ S
<1>1. CASE T = {}
  BY <1>1
<1>2. CASE T # {}
  <2>1. PICK x \in T : \A y \in T : x <= y
    <3>1. T \in SUBSET Nat
      OBVIOUS
    <3> HIDE DEF T
    <3> QED
      BY <1>2, <3>1, LeastNumber
  <2>2. x \in Nat /\ x # 0 /\ x \notin S
    OBVIOUS
  <2>3. x - 1 \in Nat /\ ~(x <= x - 1) /\ (x - 1) + 1 = x
    BY <2>2
  <2>4. x - 1 \in S
    BY <2>1, <2>3
  <2> QED
    BY <2>2, <2>3, <2>4
<1> QED
  BY <1>1, <1>2

\* What leads from each number to the next.
Steps(S) == [Nat -> [S -> S]]

Recursive(f, S, base, step) ==
    /\ f = [n \in Nat |-> f[n]]
    /\ f[0] = base
    /\ \A n \in Nat : f[n] \in S
    /\ \A n \in Nat \ {0} : f[n] = step[n][f[n - 1]]

\* Functions on the numbers can be defined by recursion.
LEMMA Recursion ==
    ASSUME NEW S, NEW base \in S, NEW step, step \in Steps(S)
    PROVE  \E f : Recursive(f, S, base, step)
<1> DEFINE Upto(f, n) == /\ f \in [0..n -> S]
                         /\ \A i \in 0..n : f[i] = IF i = 0 THEN base
                                                   ELSE step[i][f[i - 1]]
           None == {n \in Nat : ~ \E f : Upto(f, n)}
           Some(n) == CHOOSE f : Upto(f, n)
           value == [n \in Nat |-> Some(n)[n]]
<1>1. ASSUME NEW m \in Nat, NEW n \in Nat, m <= n, NEW f, Upto(f, m), NEW g, Upto(g, n)
      PROVE  \A i \in 0..m : f[i] = g[i]
  <2> DEFINE Apart == {i \in 0..m : f[i] # g[i]}
  <2>1. CASE Apart # {}
    <3>1. PICK x \in Apart : \A y \in Apart : x <= y
      <4>1. Apart \in SUBSET Nat
        OBVIOUS
      <4> HIDE DEF Apart
      <4> QED
        BY <2>1, <4>1, LeastNumber
    <3>2. x \in 0..m /\ x \in 0..n /\ f[x] # g[x]
      BY <1>1
    <3>3. x = 0 => f[x] = base /\ g[x] = base
      BY <1>1, <3>2
    <3>4. x # 0 => f[x] = step[x][f[x - 1]] /\ g[x] = step[x][g[x - 1]]
      BY <1>1, <3>2
    <3>5. x # 0 => x - 1 \in 0..m /\ ~(x <= x - 1)
      BY <3>2
    <3>6. x # 0 => f[x - 1] = g[x - 1]
      BY <3>1, <3>5
    <3> HIDE DEF Apart, Upto
    <3> QED
      BY <3>2, <3>3, <3>4, <3>6
  <2> QED
    BY <2>1
<1>2. ASSUME None # {} PROVE FALSE
  <2>1. PICK x \in None : \A y \in None : x <= y
    <3>1. None \in SUBSET Nat
      OBVIOUS
    <3> HIDE DEF None
    <3> QED
      BY <1>2, <3>1, LeastNumber
  <2>2. x \in Nat /\ ~ \E f : Upto(f, x)
    OBVIOUS
  <2>3. x # 0
    <3>1. ASSUME x = 0 PROVE Upto([i \in 0..0 |-> base], x)
      BY <3>1
    <3> HIDE DEF Upto
    <3> QED
      BY <2>2, <3>1
  <2>4. x - 1 \in Nat /\ ~(x <= x - 1)
    BY <2>2, <2>3
  <2>5. x - 1 \notin None
    BY <2>1, <2>4
  <2>6. PICK f : Upto(f, x - 1)
    BY <2>4, <2>5
  <2> DEFINE g == [i \in 0..x |-> IF i = x THEN step[x][f[x - 1]] ELSE f[i]]
  <2>7. f[x - 1] \in S
    BY <2>4, <2>6
  <2>8. ASSUME NEW i \in 0..x
        PROVE  g[i] \in S /\ g[i] = IF i = 0 THEN base ELSE step[i][g[i - 1]]
    <3>1. CASE i = x
      <4>1. g[i] = step[x][f[x - 1]] /\ g[i - 1] = f[x - 1]
        BY <2>2, <2>3, <3>1
      <4>2. step[x][f[x - 1]] \in S
        BY <2>2, <2>7 DEF Steps
      <4> HIDE DEF g, Upto
      <4> QED
        BY <2>2, <2>3, <3>1, <4>1, <4>2
    <3>2. CASE i # x
      <4>1. i \in 0..x - 1 /\ g[i] = f[i] /\ (i # 0 => g[i - 1] = f[i - 1])
        BY <2>2, <3>2
      <4>2. f[i] \in S /\ f[i] = IF i = 0 THEN base ELSE step[i][f[i - 1]]
        BY <2>6, <4>1
      <4> HIDE DEF g, Upto
      <4> QED
        BY <4>1, <4>2
    <3> QED
      BY <3>1, <3>2
  <2>9. Upto(g, x)
    <3>1. g = [i \in 0..x |-> g[i]]
      OBVIOUS
    <3> HIDE DEF g
    <3> QED
      BY <2>8, <3>1
  <2> HIDE DEF Upto
  <2> QED
    BY <2>2, <2>9
<1>3. ASSUME NEW n \in Nat PROVE Upto(Some(n), n)
  <2> HIDE DEF Upto
  <2> QED
    BY <1>2
<1> HIDE DEF Some
<1>4. ASSUME NEW n \in Nat
      PROVE  value[n] \in S /\ value[n] = IF n = 0 THEN base ELSE step[n][value[n - 1]]
  <2>1. n \in 0..n /\ Upto(Some(n), n)
    BY <1>3
  <2>2. Some(n)[n] \in S
    BY <2>1
  <2>3. n = 0 => Some(n)[n] = base
    BY <2>1
  <2>4. n # 0 => Some(n)[n] = step[n][Some(n)[n - 1]]
    BY <2>1
  <2>5. n # 0 => Some(n)[n - 1] = Some(n - 1)[n - 1]
    <3>1. ASSUME n # 0
          PROVE  n - 1 \in Nat /\ n - 1 <= n /\ n - 1 \in 0..n - 1
      BY <3>1
    <3>2. n # 0 => Upto(Some(n - 1), n - 1)
      BY <1>3, <3>1
    <3> HIDE DEF Upto
    <3> QED
      BY <1>1, <2>1, <3>1, <3>2
  <2>6. n # 0 => n - 1 \in Nat
    OBVIOUS
  <2> HIDE DEF Upto
  <2> QED
    BY <2>2, <2>3, <2>4, <2>5, <2>6
<1>5. value = [n \in Nat |-> value[n]]
  OBVIOUS
<1> HIDE DEF value
<1>6. value[0] = base /\ \A n \in Nat \ {0} : value[n] = step[n][value[n - 1]]
  BY <1>4
<1> QED
  BY <1>4, <1>5, <1>6 DEF Recursive

-----------------------------------------------------------------------------
(* Primes.                                                                   *)

Divides(k, n) == \E q \in Nat : n = k * q

LEMMA Division ==
    ASSUME NEW a \in Nat, NEW n \in Nat \ {0}
    PROVE  /\ a % n \in 0..n - 1
           /\ \E q \in Nat : a = n * q + (a % n)
<1>1. a % n \in 0..n - 1 /\ a = n * (a \div n) + (a % n)
  OBVIOUS
<1>2. a \div n \in Nat
  OBVIOUS
<1> QED
  BY <1>1, <1>2

\* Remainders that differ by a multiple of the divisor are the same.
LEMMA OneRemainder ==
    ASSUME NEW n \in Nat \ {0}, NEW r \in 0..n - 1, NEW s \in 0..n - 1,
           NEW p \in Int, NEW q \in Int, n * p + r = n * q + s
    PROVE  p = q /\ r = s
<1>1. CASE p > q
  <2>1. n * p >= n * (q + 1)
    BY <1>1
  <2> QED
    BY <2>1
<1>2. CASE p < q
  <2>1. n * q >= n * (p + 1)
    BY <1>2
  <2> QED
    BY <2>1
<1>3. CASE p = q
  BY <1>3
<1> QED
  BY <1>1, <1>2, <1>3

LEMMA NoRemainder ==
    ASSUME NEW a \in Nat, NEW n \in Nat \ {0}
    PROVE  a % n = 0 <=> Divides(n, a)
<1>1. PICK q \in Nat : a = n * q + (a % n)
  BY Division
<1>2. a % n \in 0..n - 1
  BY Division
<1>3. ASSUME a % n = 0 PROVE Divides(n, a)
  <2>1. a = n * q
    BY <1>1, <1>3
  <2> QED
    BY <2>1 DEF Divides
<1>4. ASSUME NEW p \in Nat, a = n * p PROVE a % n = 0
  BY <1>1, <1>2, <1>4, OneRemainder
<1> QED
  BY <1>3, <1>4 DEF Divides

LEMMA DividesProduct ==
    ASSUME NEW k \in Nat, NEW m \in Nat, NEW n \in Nat, Divides(k, m)
    PROVE  Divides(k, n * m)
<1>1. PICK q \in Nat : m = k * q
  BY DEF Divides
<1>2. n * m = k * (n * q) /\ n * q \in Nat
  BY <1>1
<1> QED
  BY <1>2 DEF Divides

LEMMA DividesDivisor ==
    ASSUME NEW k \in Nat, NEW m \in Nat, NEW n \in Nat, Divides(k, m), Divides(m, n)
    PROVE  Divides(k, n)
<1>1. PICK p \in Nat : m = k * p
  BY DEF Divides
<1>2. PICK q \in Nat : n = m * q
  BY DEF Divides
<1>3. n = k * (p * q) /\ p * q \in Nat
  BY <1>1, <1>2
<1> QED
  BY <1>3 DEF Divides

\* A number that is larger than 1 has a prime divisor: its least one.
LEMMA PrimeDivisor ==
    ASSUME NEW n \in Nat, n > 1
    PROVE  \E p \in Nat : IsPrime(p) /\ Divides(p, n)
<1> DEFINE S == {k \in Nat : k > 1 /\ Divides(k, n)}
<1>1. n \in S
  <2>1. n = n * 1
    OBVIOUS
  <2> QED
    BY <2>1 DEF Divides
<1>2. PICK p \in S : \A k \in S : p <= k
  <2> HIDE DEF S
  <2>1. S \in SUBSET Nat
    BY DEF S
  <2> QED
    BY <1>1, <2>1, LeastNumber
<1>3. p \in Nat /\ p > 1 /\ Divides(p, n)
  OBVIOUS
<1>4. ASSUME NEW k \in 2..p - 1, p % k = 0 PROVE FALSE
  <2>1. k \in Nat /\ k > 1 /\ k < p
    BY <1>3
  <2>2. Divides(k, p)
    BY <1>3, <1>4, <2>1, NoRemainder
  <2>3. Divides(k, n)
    BY <1>3, <2>1, <2>2, DividesDivisor
  <2>4. k \in S
    BY <2>1, <2>3
  <2> QED
    BY <1>2, <1>3, <2>1, <2>4
<1> QED
  BY <1>3, <1>4 DEF IsPrime

\* The numbers up to n have a common multiple.
LEMMA CommonMultiple ==
    ASSUME NEW n \in Nat
    PROVE  \E m \in Nat \ {0} : \A k \in 1..n : Divides(k, m)
<1> DEFINE Has(i) == \E m \in Nat \ {0} : \A k \in 1..i : Divides(k, m)
           S == {i \in Nat : ~Has(i)}
<1>1. Has(0)
  <2>1. 1 \in Nat \ {0} /\ 1..0 = {}
    OBVIOUS
  <2> QED
    BY <2>1
<1>2. ASSUME S # {} PROVE FALSE
  <2>1. PICK i \in S : \A j \in S : i <= j
    <3> HIDE DEF S
    <3>1. S \in SUBSET Nat
      BY DEF S
    <3> QED
      BY <1>2, <3>1, LeastNumber
  <2>2. i \in Nat /\ ~Has(i)
    OBVIOUS
  <2> HIDE DEF Has
  <2>3. i # 0
    BY <1>1, <2>2
  <2>4. i - 1 \in Nat /\ Has(i - 1)
    <3>1. i - 1 \in Nat /\ ~(i <= i - 1)
      BY <2>2, <2>3
    <3> QED
      BY <2>1, <3>1
  <2>5. PICK m \in Nat \ {0} : \A k \in 1..i - 1 : Divides(k, m)
    BY <2>4 DEF Has
  <2>6. i * m \in Nat \ {0}
    BY <2>2, <2>3
  <2>7. ASSUME NEW k \in 1..i PROVE Divides(k, i * m)
    <3>1. k \in Nat
      BY <2>2
    <3>2. CASE k \in 1..i - 1
      BY <2>2, <2>5, <3>1, <3>2, DividesProduct
    <3>3. CASE k = i
      BY <2>2, <3>3 DEF Divides
    <3> QED
      BY <2>2, <3>2, <3>3
  <2> QED
    BY <2>2, <2>6, <2>7 DEF Has
<1> QED
  BY <1>2

\* There are primes beyond every number.
LEMMA PrimesGoOn ==
    ASSUME NEW n \in Nat
    PROVE  \E p \in Nat : p >= n /\ IsPrime(p)
<1>1. PICK m \in Nat \ {0} : \A k \in 1..n : Divides(k, m)
  BY CommonMultiple
<1>2. m + 1 \in Nat /\ m + 1 > 1
  OBVIOUS
<1>3. PICK p \in Nat : IsPrime(p) /\ Divides(p, m + 1)
  BY <1>2, PrimeDivisor
<1>4. p > 1
  BY <1>3 DEF IsPrime
<1>5. ASSUME Divides(p, m) PROVE FALSE
  <2>1. PICK q \in Nat : m + 1 = p * q
    BY <1>3 DEF Divides
  <2>2. PICK r \in Nat : m = p * r
    BY <1>5 DEF Divides
  <2>3. CASE q <= r
    <3>1. p * q <= p * r
      BY <2>3
    <3> QED
      BY <2>1, <2>2, <3>1
  <2>4. CASE ~(q <= r)
    <3>1. p * q >= p * (r + 1)
      BY <2>4
    <3> QED
      BY <1>4, <2>1, <2>2, <3>1
  <2> QED
    BY <2>3, <2>4
<1>6. p \notin 1..n
  BY <1>1, <1>5
<1>7. p >= n
  BY <1>4, <1>6
<1> QED
  BY <1>3, <1>7

\* getPrime returns a prime: its loop ends at the first one.
LEMMA PrimeFound ==
    ASSUME NEW n \in Nat
    PROVE  getPrime[n] \in Nat /\ getPrime[n] >= n /\ IsPrime(getPrime[n])
<1> DEFINE From(i) == {p \in Nat : p >= i /\ IsPrime(p)}
           FirstFrom(i) == CHOOSE p \in From(i) : \A q \in From(i) : p <= q
           Search(f) == [i \in Nat |-> IF IsPrime(i) THEN i ELSE f[i + 1]]
           search == [i \in Nat |-> FirstFrom(i)]
<1>1. ASSUME NEW i \in Nat
      PROVE  FirstFrom(i) \in From(i) /\ \A q \in From(i) : FirstFrom(i) <= q
  <2>1. From(i) \in SUBSET Nat /\ From(i) # {}
    BY PrimesGoOn
  <2> HIDE DEF From
  <2>2. \E p \in From(i) : \A q \in From(i) : p <= q
    BY <2>1, LeastNumber
  <2> QED
    BY <2>2
<1>2. ASSUME NEW i \in Nat
      PROVE  FirstFrom(i) = IF IsPrime(i) THEN i ELSE FirstFrom(i + 1)
  <2>1. \A p, q \in Nat : p <= q /\ q <= p => p = q
    OBVIOUS
  <2>2. i + 1 \in Nat
    OBVIOUS
  <2>3. CASE IsPrime(i)
    <3>1. i \in From(i) /\ \A q \in From(i) : i <= q
      BY <2>3
    <3> QED
      BY <1>1, <2>1, <2>3, <3>1
  <2>4. CASE ~IsPrime(i)
    <3>1. From(i) = From(i + 1)
      <4>1. ASSUME NEW p \in Nat, IsPrime(p) PROVE p >= i <=> p >= i + 1
        BY <2>4, <4>1
      <4> QED
        BY <4>1
    <3> HIDE DEF From
    <3> QED
      BY <2>4, <3>1
  <2> QED
    BY <2>3, <2>4
<1>3. search = Search(search)
  <2>1. \A i \in Nat : i + 1 \in Nat
    OBVIOUS
  <2> HIDE DEF FirstFrom
  <2> QED
    BY <1>2, <2>1
<1>4. getPrime = Search(getPrime)
  <2>1. getPrime = CHOOSE f : f = Search(f)
    BY DEF getPrime
  <2> HIDE DEF Search, search
  <2> QED
    BY <1>3, <2>1
<1>5. \A i \in Nat : getPrime[i] = IF IsPrime(i) THEN i ELSE getPrime[i + 1]
  BY <1>4
<1> DEFINE Fails == {i \in Nat : getPrime[i] # FirstFrom(i)}
<1> DEFINE Gap(i) == FirstFrom(i) - i
           Gaps == {Gap(i) : i \in Fails}
<1> HIDE DEF FirstFrom
<1>6. ASSUME NEW i \in Nat PROVE FirstFrom(i) \in Nat /\ FirstFrom(i) >= i /\ IsPrime(FirstFrom(i))
  BY <1>1
<1>7. ASSUME Fails # {} PROVE FALSE
  <2>1. PICK g \in Gaps : \A h \in Gaps : g <= h
    <3>1. Gaps \in SUBSET Nat /\ Gaps # {}
      BY <1>6, <1>7
    <3> HIDE DEF Gaps
    <3> QED
      BY <3>1, LeastNumber
  <2>2. PICK i \in Fails : g = Gap(i)
    OBVIOUS
  <2>3. i \in Nat /\ getPrime[i] # FirstFrom(i) /\ i + 1 \in Nat
    OBVIOUS
  <2>4. ~IsPrime(i)
    BY <1>2, <1>5, <2>3
  <2>5. getPrime[i + 1] # FirstFrom(i + 1) /\ FirstFrom(i + 1) = FirstFrom(i)
    BY <1>2, <1>5, <2>3, <2>4
  <2>6. i + 1 \in Fails
    BY <2>3, <2>5
  <2>7. Gap(i + 1) \in Gaps
    BY <2>6
  <2>8. Gap(i + 1) < Gap(i) /\ Gap(i) \in Int /\ Gap(i + 1) \in Int
    BY <1>6, <2>3, <2>5
  <2> QED
    BY <2>1, <2>2, <2>7, <2>8
<1> QED
  BY <1>6, <1>7

\* A prime that divides neither of two smaller numbers does not divide their
\* product.
LEMMA NoCommonDivisor ==
    ASSUME NEW p \in Nat, IsPrime(p), NEW s \in 1..p - 1, NEW d \in 1..p - 1
    PROVE  ~Divides(p, s * d)
<1> DEFINE S == {k \in 1..p - 1 : Divides(p, s * k)}
<1>1. p > 1 /\ s \in Nat
  BY DEF IsPrime
<1>2. ASSUME S # {} PROVE FALSE
  <2>1. PICK k \in S : \A j \in S : k <= j
    <3>1. S \in SUBSET Nat
      OBVIOUS
    <3> HIDE DEF S
    <3> QED
      BY <1>2, <3>1, LeastNumber
  <2>2. k \in Nat \ {0} /\ k < p /\ Divides(p, s * k)
    OBVIOUS
  <2>3. PICK m \in Nat : s * k = p * m
    BY <2>2 DEF Divides
  <2>4. k # 1
    <3>1. ASSUME k = 1 PROVE FALSE
      <4>1. s = p * m /\ s > 0 /\ s < p
        BY <1>1, <2>3, <3>1
      <4>2. m # 0
        BY <1>1, <4>1
      <4>3. p * m >= p
        BY <4>2
      <4> QED
        BY <4>1, <4>3
    <3> QED
      BY <3>1
  <2>5. p % k # 0 /\ p % k \in 0..k - 1
    <3>1. k \in 2..p - 1
      BY <1>1, <2>2, <2>4
    <3> QED
      BY <2>2, <3>1, Division DEF IsPrime
  <2>6. PICK q \in Nat : p = k * q + (p % k)
    BY <2>2, Division
  <2> DEFINE r == p % k
  <2>7. r \in 1..p - 1 /\ r < k /\ p = k * q + r
    BY <1>1, <2>2, <2>5, <2>6
  <2> HIDE DEF r
  <2>8. s * r = p * (s - m * q) /\ s - m * q \in Int
    <3>1. s * r = s * (p - k * q)
      BY <1>1, <2>2, <2>7
    <3>2. s * (p - k * q) = s * p - (s * k) * q
      BY <1>1, <2>2
    <3>3. s * p - (p * m) * q = p * (s - m * q)
      BY <1>1, <2>3
    <3> QED
      BY <1>1, <2>3, <3>1, <3>2, <3>3
  <2>9. s - m * q >= 0
    <3> DEFINE c == s - m * q
    <3>1. c \in Int /\ s * r = p * c /\ s * r >= 0
      BY <1>1, <2>7, <2>8
    <3> HIDE DEF c
    <3>2. c < 0 => p * c < 0
      BY <1>1, <3>1
    <3>3. c >= 0
      BY <3>1, <3>2
    <3> QED
      BY <3>3 DEF c
  <2>10. Divides(p, s * r)
    <3>1. s - m * q \in Nat
      BY <2>8, <2>9
    <3> QED
      BY <2>8, <3>1 DEF Divides
  <2>11. r \in S
    BY <2>7, <2>10
  <2> QED
    BY <2>1, <2>2, <2>7, <2>11
<1> QED
  BY <1>2

\* A function can be defined by recursion to any smaller number.
Descends(f, m, T, down, step, base) ==
    \A v \in 0..m : f[v] = IF v \in T THEN step[v][f[down[v]]] ELSE base[v]

LEMMA Descent ==
    ASSUME NEW A, NEW m \in Nat, NEW T \in SUBSET (0..m),
           NEW base \in [0..m -> A], NEW step \in [0..m -> [A -> A]],
           NEW down, \A v \in T : down[v] \in 0..v - 1
    PROVE  \E f \in [0..m -> A] : Descends(f, m, T, down, step, base)
<1> DEFINE Upto(f, k) ==
               /\ \A v \in 0..k : f[v] \in A
               /\ \A v \in 0..k : f[v] = IF v \in T THEN step[v][f[down[v]]] ELSE base[v]
           S == {k \in Nat : k <= m => \E f : Upto(f, k)}
<1>1. ASSUME NEW v \in 0..m, NEW f, v \in T => f[down[v]] \in A
      PROVE  (IF v \in T THEN step[v][f[down[v]]] ELSE base[v]) \in A
  BY <1>1
<1>2. 0 \in S
  <2> DEFINE f == [v \in 0..0 |-> base[0]]
  <2>1. 0 \in 0..m /\ 0 \notin T
    <3>1. ASSUME 0 \in T PROVE FALSE
      <4>1. down[0] \in 0..0 - 1
        BY <3>1
      <4> QED
        BY <4>1
    <3> QED
      BY <3>1
  <2>2. Upto(f, 0)
    BY <2>1
  <2> HIDE DEF f, Upto
  <2> QED
    BY <2>2
<1>3. ASSUME NEW k \in S PROVE k + 1 \in S
  <2>1. k \in Nat /\ k + 1 \in Nat
    OBVIOUS
  <2>2. ASSUME k + 1 <= m PROVE \E f : Upto(f, k + 1)
    <3>1. k <= m /\ k + 1 \in 0..m
      BY <2>1, <2>2
    <3>2. PICK f : Upto(f, k)
      BY <3>1
    <3> DEFINE x == k + 1
               end == IF x \in T THEN step[x][f[down[x]]] ELSE base[x]
               g == [v \in 0..x |-> IF v = x THEN end ELSE f[v]]
    <3>3. x \in T => down[x] \in 0..k
      BY <2>1
    <3>4. end \in A
      BY <1>1, <3>1, <3>2, <3>3
    <3>5. g[x] = end
      BY <2>1
    <3>6. \A v \in 0..k : g[v] = f[v]
      BY <2>1
    <3> HIDE DEF g
    <3>7. ASSUME NEW v \in 0..x
          PROVE  g[v] \in A /\ g[v] = IF v \in T THEN step[v][g[down[v]]] ELSE base[v]
      <4>1. CASE v = x
        <5>1. x \in T => g[down[x]] = f[down[x]]
          BY <3>3, <3>6
        <5> QED
          BY <3>4, <3>5, <4>1, <5>1
      <4>2. CASE v # x
        <5>1. v \in 0..k
          BY <2>1, <4>2
        <5>2. v \in T => down[v] \in 0..k
          BY <2>1, <5>1
        <5>3. f[v] \in A /\ f[v] = IF v \in T THEN step[v][f[down[v]]] ELSE base[v]
          BY <3>2, <5>1
        <5>4. v \in T => g[down[v]] = f[down[v]]
          BY <3>6, <5>2
        <5> HIDE DEF Upto, end, x
        <5> QED
          BY <3>6, <5>1, <5>3, <5>4
      <4> QED
        BY <4>1, <4>2
    <3>8. Upto(g, k + 1)
      BY <3>7
    <3> HIDE DEF Upto
    <3> QED
      BY <3>8
  <2> HIDE DEF Upto
  <2> QED
    BY <2>1, <2>2
<1>4. m \in S
  <2>1. S \in SUBSET Nat
    OBVIOUS
  <2> HIDE DEF S
  <2> QED
    BY <1>2, <1>3, <2>1, Induction
<1>5. PICK f : Upto(f, m)
  BY <1>4
<1> DEFINE g == [v \in 0..m |-> f[v]]
<1>6. g \in [0..m -> A]
  BY <1>5
<1>7. \A v \in 0..m : g[v] = f[v]
  OBVIOUS
<1> HIDE DEF g
<1>8. ASSUME NEW v \in 0..m
      PROVE  g[v] = IF v \in T THEN step[v][g[down[v]]] ELSE base[v]
  <2>1. v \in T => down[v] \in 0..m
    <3>1. ASSUME v \in T PROVE down[v] \in 0..m
      <4>1. down[v] \in 0..v - 1
        BY <3>1
      <4> QED
        BY <4>1
    <3> QED
      BY <3>1
  <2>2. f[v] = IF v \in T THEN step[v][f[down[v]]] ELSE base[v]
    BY <1>5
  <2> HIDE DEF Upto
  <2> QED
    BY <1>7, <2>1, <2>2
<1> QED
  BY <1>6, <1>8 DEF Descends

-----------------------------------------------------------------------------
(* Folds from the left.                                                      *)

\* f has what comes of base when the steps of T are taken, up to each number.
Folds(f, T, A, base, step) ==
    /\ f[0] = base
    /\ \A i \in Nat : f[i] \in A
    /\ \A i \in Nat : f[i + 1] = IF i + 1 \in T THEN step[i + 1][f[i]] ELSE f[i]

LEMMA FoldsExist ==
    ASSUME NEW A, NEW base \in A, NEW m \in Nat, NEW step \in [1..m -> [A -> A]],
           NEW T \in SUBSET (1..m)
    PROVE  \E f : Folds(f, T, A, base, step)
<1> DEFINE to == [i \in Nat |-> [a \in A |-> IF i \in T THEN step[i][a] ELSE a]]
<1>1. to \in Steps(A)
  <2>1. ASSUME NEW i \in Nat, NEW a \in A
        PROVE  (IF i \in T THEN step[i][a] ELSE a) \in A
    BY <2>1
  <2> QED
    BY <2>1 DEF Steps
<1> DEFINE Next(i, a) == IF i \in T THEN step[i][a] ELSE a
<1>2. \A i \in Nat, a \in A : to[i][a] = Next(i, a)
  OBVIOUS
<1> HIDE DEF to
<1>3. PICK f : Recursive(f, A, base, to)
  BY <1>1, Recursion
<1>4. ASSUME NEW i \in Nat PROVE f[i + 1] = Next(i + 1, f[i])
  <2>1. i + 1 \in Nat \ {0} /\ (i + 1) - 1 = i
    OBVIOUS
  <2>2. f[i] \in A /\ f[i + 1] = to[i + 1][f[i]]
    BY <1>3, <2>1 DEF Recursive
  <2> HIDE DEF Next
  <2> QED
    BY <1>2, <2>1, <2>2
<1> QED
  BY <1>3, <1>4 DEF Recursive, Folds

\* Where no step is taken nothing changes.
LEMMA FoldsIdle ==
    ASSUME NEW A, NEW base, NEW step, NEW T, NEW f, Folds(f, T, A, base, step),
           NEW a \in Nat, NEW b \in Nat, a <= b, \A i \in a + 1..b : i \notin T
    PROVE  f[b] = f[a]
<1> DEFINE S == {i \in Nat : a + i <= b => f[a + i] = f[a]}
<1>1. 0 \in S /\ S \in SUBSET Nat
  BY a + 0 = a
<1>2. ASSUME NEW i \in S PROVE i + 1 \in S
  <2>1. i \in Nat /\ i + 1 \in Nat /\ a + i \in Nat /\ a + (i + 1) = (a + i) + 1
    OBVIOUS
  <2>2. ASSUME a + (i + 1) <= b PROVE f[a + (i + 1)] = f[a]
    <3>1. a + i <= b /\ (a + i) + 1 \in a + 1..b
      BY <2>1, <2>2
    <3>2. f[(a + i) + 1] = f[a + i]
      BY <2>1, <3>1 DEF Folds
    <3>3. f[a + i] = f[a]
      BY <3>1
    <3> QED
      BY <2>1, <3>2, <3>3
  <2> QED
    BY <2>1, <2>2
<1>3. b - a \in Nat /\ a + (b - a) = b /\ a + (b - a) <= b
  OBVIOUS
<1>4. b - a \in S
  <2> HIDE DEF S
  <2> QED
    BY <1>1, <1>2, <1>3, Induction
<1> QED
  BY <1>3, <1>4

\* The same steps lead to the same.
LEMMA FoldsAgree ==
    ASSUME NEW A, NEW base, NEW step, NEW T, NEW U,
           NEW f, Folds(f, T, A, base, step), NEW g, Folds(g, U, A, base, step),
           NEW b \in Nat, \A i \in 1..b : i \in T <=> i \in U
    PROVE  f[b] = g[b]
<1> DEFINE S == {i \in Nat : i <= b => f[i] = g[i]}
<1>1. 0 \in S /\ S \in SUBSET Nat
  BY DEF Folds
<1>2. ASSUME NEW i \in S PROVE i + 1 \in S
  <2>1. i \in Nat /\ i + 1 \in Nat
    OBVIOUS
  <2>2. ASSUME i + 1 <= b PROVE f[i + 1] = g[i + 1]
    <3>1. i <= b /\ i + 1 \in 1..b
      BY <2>1, <2>2
    <3>2. f[i] = g[i] /\ (i + 1 \in T <=> i + 1 \in U)
      BY <3>1
    <3>3. /\ f[i + 1] = IF i + 1 \in T THEN step[i + 1][f[i]] ELSE f[i]
          /\ g[i + 1] = IF i + 1 \in U THEN step[i + 1][g[i]] ELSE g[i]
      BY <2>1 DEF Folds
    <3> HIDE DEF S
    <3> QED
      BY <3>2, <3>3
  <2> QED
    BY <2>1, <2>2
<1>3. b \in S
  <2> HIDE DEF S
  <2> QED
    BY <1>1, <1>2, Induction
<1> QED
  BY <1>3

\* What MapThenFoldSet needs when the largest index is taken off first.
FoldsSets(w, m, A, base, step) ==
    /\ w \in [SUBSET (1..m) -> A]
    /\ w[{}] = base
    /\ \A T \in SUBSET (1..m) : \A x \in T :
          (\A y \in T : y <= x) => w[T] = step[x][w[T \ {x}]]

LEMMA FoldsSetsExist ==
    ASSUME NEW A, NEW base \in A, NEW m \in Nat, NEW step \in [1..m -> [A -> A]]
    PROVE  \E w : FoldsSets(w, m, A, base, step)
<1> DEFINE Of(T) == CHOOSE f : Folds(f, T, A, base, step)
           w == [T \in SUBSET (1..m) |-> Of(T)[m]]
<1>1. \A T \in SUBSET (1..m) : Folds(Of(T), T, A, base, step)
  BY FoldsExist
<1> HIDE DEF Of
<1>2. w \in [SUBSET (1..m) -> A]
  BY <1>1 DEF Folds
<1>3. w[{}] = base
  <2>1. {} \in SUBSET (1..m) /\ 0 \in Nat /\ 0 <= m
    OBVIOUS
  <2>2. Folds(Of({}), {}, A, base, step)
    BY <1>1, <2>1
  <2>3. Of({})[m] = Of({})[0]
    BY <2>1, <2>2, FoldsIdle
  <2> QED
    BY <2>1, <2>2, <2>3 DEF Folds
<1>4. ASSUME NEW T \in SUBSET (1..m), NEW x \in T, \A y \in T : y <= x
      PROVE  w[T] = step[x][w[T \ {x}]]
  <2> DEFINE U == T \ {x}
             f == Of(T)
             g == Of(U)
  <2>1. U \in SUBSET (1..m) /\ x \in 1..m /\ x \in Nat /\ x - 1 \in Nat /\ x - 1 <= m
        /\ (x - 1) + 1 = x
    OBVIOUS
  <2>2. Folds(f, T, A, base, step) /\ Folds(g, U, A, base, step)
    BY <1>1, <2>1
  <2>3. f[m] = f[x]
    <3>1. \A i \in x + 1..m : i \notin T
      BY <1>4, <2>1
    <3> HIDE DEF f
    <3> QED
      BY <2>1, <2>2, <3>1, FoldsIdle
  <2>4. g[m] = g[x - 1]
    <3>1. \A i \in (x - 1) + 1..m : i \notin U
      BY <1>4, <2>1
    <3> HIDE DEF g, U
    <3> QED
      BY <2>1, <2>2, <3>1, FoldsIdle
  <2>5. f[x - 1] = g[x - 1]
    <3>1. \A i \in 1..x - 1 : i \in T <=> i \in U
      BY <2>1
    <3> HIDE DEF f, g, U
    <3> QED
      BY <2>1, <2>2, <3>1, FoldsAgree
  <2>6. f[x] = step[x][f[x - 1]]
    BY <2>1, <2>2 DEF Folds
  <2>7. w[T] = f[m] /\ w[U] = g[m]
    BY <2>1
  <2> HIDE DEF w, f, g
  <2> QED
    BY <2>3, <2>4, <2>5, <2>6, <2>7
<1> HIDE DEF w
<1> QED
  BY <1>2, <1>3, <1>4 DEF FoldsSets

\* A function of sets that is built in this way has, for the first indices, what
\* comes of their steps one after the other.
TakesSteps(g, m, A, base, step) ==
    /\ g[{}] = base
    /\ \A T \in SUBSET (1..m) : \A x \in T :
          (\A y \in T : y <= x) /\ g[T \ {x}] \in A => g[T] = step[x][g[T \ {x}]]

\* f has what comes of the first steps, and end what comes of all of them.
FoldsTo(f, m, A, base, step, end) ==
    /\ f[0] = base
    /\ \A k \in 0..m : f[k] \in A
    /\ \A k \in 1..m : f[k - 1] \in A /\ f[k] = step[k][f[k - 1]]
    /\ f[m] = end

LEMMA FoldPrefixes ==
    ASSUME NEW A, NEW base \in A, NEW m \in Nat, NEW step \in [1..m -> [A -> A]],
           NEW g, TakesSteps(g, m, A, base, step)
    PROVE  \E f : FoldsTo(f, m, A, base, step, g[1..m])
<1> DEFINE f == [k \in 0..m |-> g[1..k]]
           S == {k \in Nat : k <= m => f[k] \in A}
<1>1. f[0] = base
  <2>1. 0 \in 0..m /\ 1..0 = {}
    OBVIOUS
  <2> QED
    BY <2>1 DEF TakesSteps
<1>2. ASSUME NEW k \in 1..m, f[k - 1] \in A PROVE f[k] = step[k][f[k - 1]]
  <2>1. k \in 0..m /\ k - 1 \in 0..m /\ 1..k \in SUBSET (1..m) /\ k \in 1..k
        /\ (1..k) \ {k} = 1..k - 1 /\ \A y \in 1..k : y <= k
    OBVIOUS
  <2>2. f[k] = g[1..k] /\ f[k - 1] = g[(1..k) \ {k}]
    BY <2>1
  <2> HIDE DEF f
  <2> QED
    BY <1>2, <2>1, <2>2 DEF TakesSteps
<1>3. f[m] = g[1..m]
  OBVIOUS
<1> HIDE DEF f
<1>4. \A k \in Nat : k \in S
  <2>1. 0 \in S /\ S \in SUBSET Nat
    BY <1>1
  <2>2. ASSUME NEW k \in S PROVE k + 1 \in S
    <3>1. k \in Nat /\ k + 1 \in Nat /\ (k + 1) - 1 = k
      OBVIOUS
    <3>2. ASSUME k + 1 <= m PROVE f[k + 1] \in A
      <4>1. k + 1 \in 1..m /\ f[k] \in A
        BY <3>1, <3>2
      <4>2. f[k + 1] = step[k + 1][f[k]]
        BY <1>2, <3>1, <4>1
      <4> QED
        BY <4>1, <4>2
    <3> QED
      BY <3>1, <3>2
  <2> HIDE DEF S
  <2> QED
    BY <2>1, <2>2, Induction
<1>5. \A k \in 0..m : f[k] \in A
  BY <1>4
<1>6. \A k \in 1..m : f[k - 1] \in A /\ f[k] = step[k][f[k - 1]]
  <2>1. ASSUME NEW k \in 1..m PROVE k - 1 \in 0..m
    OBVIOUS
  <2> QED
    BY <1>2, <1>5, <2>1
<1>7. FoldsTo(f, m, A, base, step, g[1..m])
  BY <1>1, <1>3, <1>5, <1>6 DEF FoldsTo
<1> QED
  BY <1>7

-----------------------------------------------------------------------------
(* Sequences of sequences that are joined.                                   *)

\* A function on the first n numbers is a sequence of n elements.
LEMMA FunctionIsSeq ==
    ASSUME NEW S, NEW n \in Nat, NEW s \in [1..n -> S]
    PROVE  s \in Seq(S) /\ Len(s) = n
<1>1. s \in Seq(S)
  BY SeqDef
<1>2. Len(s) \in Nat /\ 1..n = 1..Len(s)
  BY <1>1, LenProperties
<1>3. ~(n < Len(s)) /\ ~(Len(s) < n)
  <2>1. ASSUME n < Len(s) PROVE Len(s) \in 1..Len(s) /\ Len(s) \notin 1..n
    BY <1>2, <2>1
  <2>2. ASSUME Len(s) < n PROVE n \in 1..n /\ n \notin 1..Len(s)
    BY <1>2, <2>2
  <2> QED
    BY <1>2, <2>1, <2>2
<1> QED
  BY <1>1, <1>2, <1>3

\* f has the joined sequences of s up to each of the first n.
Joins(f, s, n) == f = [i \in 1..n |-> IF i = 1 THEN s[i] ELSE f[i - 1] \o s[i]]

LEMMA JoinsExists ==
    ASSUME NEW S, NEW n \in Nat, NEW s, \A i \in 1..n : s[i] \in Seq(S)
    PROVE  \E f : Joins(f, s, n) /\ \A i \in 1..n : f[i] \in Seq(S)
<1> DEFINE OfSeqs(f, m) == \A i \in 1..m : f[i] \in Seq(S)
           Possible(m) == \E f : Joins(f, s, m) /\ OfSeqs(f, m)
           Without == {m \in 0..n : ~Possible(m)}
<1>1. CASE Without = {}
  <2>1. n \in 0..n
    OBVIOUS
  <2> QED
    BY <1>1, <2>1
<1>2. CASE Without # {}
  <2>1. Without \in SUBSET Nat /\ IsFiniteSet(Without)
    <3>1. IsFiniteSet(0..n)
      BY FS_Interval
    <3> QED
      BY <3>1, FS_Subset
  <2> HIDE DEF Possible
  <2>2. PICK x \in Without : \A y \in Without : x <= y
    <3> HIDE DEF Without
    <3> QED
      BY <1>2, <2>1, Least
  <2>3. x \in 0..n /\ ~Possible(x)
    OBVIOUS
  <2>4. x # 0
    <3>1. Joins([i \in 1..0 |-> s[i]], s, 0)
      BY DEF Joins
    <3>2. Possible(0)
      BY <3>1 DEF Possible
    <3> QED
      BY <2>3, <3>2
  <2>5. x - 1 \in 0..n /\ x \in 1..n /\ ~(x <= x - 1)
    BY <2>3, <2>4
  <2>6. Possible(x - 1)
    <3>1. x - 1 \notin Without
      BY <2>2, <2>5
    <3> QED
      BY <2>5, <3>1
  <2>7. PICK f : Joins(f, s, x - 1) /\ OfSeqs(f, x - 1)
    BY <2>6 DEF Possible
  <2> DEFINE end == IF x = 1 THEN s[x] ELSE f[x - 1] \o s[x]
             g == [i \in 1..x |-> IF i = x THEN end ELSE f[i]]
  <2>8. ASSUME NEW i \in 1..x
        PROVE  g[i] = (IF i = 1 THEN s[i] ELSE g[i - 1] \o s[i]) /\ g[i] \in Seq(S)
    <3>1. CASE i = x
      <4>1. g[i] = end
        BY <3>1
      <4>2. CASE x = 1
        BY <2>5, <3>1, <4>1, <4>2
      <4>3. CASE x # 1
        <5>1. x - 1 \in 1..x /\ x - 1 # x /\ x - 1 \in 1..x - 1
          BY <2>5, <4>3
        <5>2. g[x - 1] = f[x - 1] /\ f[x - 1] \in Seq(S) /\ s[x] \in Seq(S)
          BY <2>5, <2>7, <5>1
        <5>3. end = f[x - 1] \o s[x]
          BY <4>3
        <5>4. f[x - 1] \o s[x] \in Seq(S)
          BY <5>2, ConcatProperties
        <5> HIDE DEF g, end
        <5> QED
          BY <3>1, <4>1, <4>3, <5>2, <5>3, <5>4
      <4> QED
        BY <4>2, <4>3
    <3>2. CASE i # x
      <4>1. i \in 1..x - 1 /\ g[i] = f[i]
        BY <2>5, <3>2
      <4>2. f[i] = IF i = 1 THEN s[i] ELSE f[i - 1] \o s[i]
        BY <2>7, <4>1 DEF Joins
      <4>3. i # 1 => g[i - 1] = f[i - 1]
        BY <2>5, <3>2
      <4> HIDE DEF g
      <4> QED
        BY <2>7, <4>1, <4>2, <4>3
    <3> QED
      BY <3>1, <3>2
  <2>9. Joins(g, s, x)
    <3>1. g = [i \in 1..x |-> g[i]]
      OBVIOUS
    <3> HIDE DEF g
    <3> QED
      BY <2>8, <3>1 DEF Joins
  <2>10. Possible(x)
    <3>1. OfSeqs(g, x)
      BY <2>8
    <3> HIDE DEF g
    <3> QED
      BY <2>9, <3>1 DEF Possible
  <2> QED
    BY <2>3, <2>10
<1> QED
  BY <1>1, <1>2

\* What is joined depends on the sequences only.
LEMMA JoinsAgree ==
    ASSUME NEW n \in Nat, NEW m \in Nat, n <= m, NEW s, NEW t,
           \A i \in 1..n : s[i] = t[i],
           NEW f, Joins(f, s, n), NEW g, Joins(g, t, m)
    PROVE  \A i \in 1..n : f[i] = g[i]
<1> DEFINE Apart == {i \in 1..n : f[i] # g[i]}
<1>1. CASE Apart # {}
  <2>1. Apart \in SUBSET Nat /\ IsFiniteSet(Apart)
    <3>1. IsFiniteSet(1..n)
      BY FS_Interval
    <3> QED
      BY <3>1, FS_Subset
  <2>2. PICK x \in Apart : \A y \in Apart : x <= y
    <3> HIDE DEF Apart
    <3> QED
      BY <1>1, <2>1, Least
  <2>3. x \in 1..n /\ x \in 1..m /\ f[x] # g[x]
    OBVIOUS
  <2>4. /\ f[x] = IF x = 1 THEN s[x] ELSE f[x - 1] \o s[x]
        /\ g[x] = IF x = 1 THEN t[x] ELSE g[x - 1] \o t[x]
    BY <2>3 DEF Joins
  <2>5. s[x] = t[x]
    BY <2>3
  <2>6. x # 1 => f[x - 1] = g[x - 1]
    <3>1. ASSUME x # 1 PROVE x - 1 \in 1..n /\ ~(x <= x - 1)
      BY <2>3, <3>1
    <3> QED
      BY <2>2, <3>1
  <2> HIDE DEF Apart
  <2> QED
    BY <2>3, <2>4, <2>5, <2>6
<1> QED
  BY <1>1

LEMMA JoinsNext ==
    ASSUME NEW n \in Nat, n # 0, NEW s, NEW t, \A i \in 1..n : t[i] = s[i],
           NEW f, Joins(f, s, n), NEW g, Joins(g, t, n + 1)
    PROVE  f[n] = g[n]
<1>1. n + 1 \in Nat /\ n <= n + 1 /\ n \in 1..n
  OBVIOUS
<1>2. \A i \in 1..n : f[i] = g[i]
  BY <1>1, JoinsAgree
<1> QED
  BY <1>1, <1>2

\* The last sequence is joined to the others.
LEMMA Joining ==
    ASSUME NEW S, NEW n \in Nat, NEW s \in [1..n -> Seq(S)]
    PROVE  /\ n = 0 => FlattenSeq(s) = <<>>
           /\ n # 0 => \E f : Joins(f, s, n) /\ FlattenSeq(s) = f[n]
           /\ FlattenSeq(s) \in Seq(S)
<1>1. s \in Seq(Seq(S)) /\ Len(s) = n
  BY FunctionIsSeq
<1>2. CASE n = 0
  <2>1. s = <<>>
    BY <1>1, <1>2
  <2> QED
    BY <1>1, <1>2, <2>1, EmptySeq DEF FlattenSeq
<1>3. CASE n # 0
  <2> DEFINE flatten == CHOOSE f : Joins(f, s, n)
  <2>1. FlattenSeq(s) = flatten[n]
    BY <1>1, <1>3 DEF FlattenSeq, Joins
  <2>2. \A i \in 1..n : s[i] \in Seq(S)
    OBVIOUS
  <2>3. PICK g : Joins(g, s, n) /\ \A i \in 1..n : g[i] \in Seq(S)
    BY <2>2, JoinsExists
  <2>4. Joins(flatten, s, n)
    BY <2>3
  <2> HIDE DEF flatten
  <2>5. n \in 1..n /\ n <= n
    BY <1>3
  <2>6. \A i \in 1..n : flatten[i] = g[i]
    BY <2>3, <2>4, <2>5, JoinsAgree
  <2> QED
    BY <1>3, <2>1, <2>3, <2>4, <2>5, <2>6
<1> QED
  BY <1>2, <1>3

\* n sequences of elements of S.
Pieces(S, n) == [1..n -> Seq(S)]

LEMMA JoinedGrows ==
    ASSUME NEW S, NEW n \in Nat, NEW s, NEW t,
           s \in Pieces(S, n), t \in Pieces(S, n + 1), \A i \in 1..n : t[i] = s[i]
    PROVE  /\ FlattenSeq(t) = FlattenSeq(s) \o t[n + 1]
           /\ FlattenSeq(s) \in Seq(S) /\ FlattenSeq(t) \in Seq(S)
<1>1. n + 1 \in Nat /\ n + 1 # 0 /\ n + 1 \in 1..n + 1 /\ n <= n + 1 /\ (n + 1) - 1 = n
  OBVIOUS
<1>2. PICK g : Joins(g, t, n + 1) /\ FlattenSeq(t) = g[n + 1]
  BY <1>1, Joining DEF Pieces
<1>3. g[n + 1] = IF n + 1 = 1 THEN t[n + 1] ELSE g[n] \o t[n + 1]
  BY <1>1, <1>2 DEF Joins
<1>4. FlattenSeq(s) \in Seq(S) /\ FlattenSeq(t) \in Seq(S)
  BY <1>1, Joining DEF Pieces
<1>5. t[n + 1] \in Seq(S)
  BY <1>1 DEF Pieces
<1>6. CASE n = 0
  <2>1. FlattenSeq(s) = <<>>
    BY <1>6, Joining DEF Pieces
  <2>3. g[n + 1] = t[n + 1]
    BY <1>3, <1>6
  <2>2. <<>> \o t[n + 1] = t[n + 1]
    BY <1>5, ConcatEmptySeq
  <2> QED
    BY <1>2, <1>4, <2>1, <2>2, <2>3
<1>7. CASE n # 0
  <2>1. PICK f : Joins(f, s, n) /\ FlattenSeq(s) = f[n]
    BY <1>7, Joining DEF Pieces
  <2>2. n \in 1..n /\ n + 1 # 1
    BY <1>7
  <2>3. f[n] = g[n]
    <3>1. Joins(f, s, n) /\ Joins(g, t, n + 1)
      BY <1>2, <2>1
    <3>2. \A i \in 1..n : t[i] = s[i]
      OBVIOUS
    <3> QED
      BY ONLY n \in Nat, <1>7, <3>1, <3>2, JoinsNext
  <2> QED
    BY <1>2, <1>3, <1>4, <2>1, <2>2, <2>3
<1> QED
  BY <1>6, <1>7

=============================================================================
