--------------------------- MODULE FrontEndProofs ---------------------------
(* Proofs about FrontEnd: tokenize finds the tokens of the line, and the     *)
(* parser makes the right arrays, commands and tree of them, for every       *)
(* alphabet, line, word limit and initial size of an array.                  *)
EXTENDS FrontEnd, CommonProofs

-----------------------------------------------------------------------------
(* The tokens.                                                               *)

\* What tokenize stores: words, and operators without a lexeme.
Tokens == [type: TokenTypes \ {"WORD"}, lexeme: {NULL}]
          \cup [type: {"WORD"}, lexeme: Seq(Letters)]

\* The word in buf will be a token.
Pending == IF buf = <<>> THEN 0 ELSE 1

\* Every token, the one in buf included, has taken a character of its own.
LexInv ==
    /\ line \in Seq(Chars) /\ Len(line) <= MaxLine
    /\ at \in 0..Len(line)
    /\ buf \in Seq(Letters)
    /\ tokens \in Seq(Tokens)
    /\ capacity = MAX_TOKENS
    /\ Len(tokens) + Pending <= at
    /\ pc # "scan" => buf = <<>>
    /\ pc \in {"start", "prompt"} => tokens = <<>>
    /\ env \in Envs

LEMMA LexShape ==
    ASSUME LexInv
    PROVE  /\ line \in Seq(Chars) /\ tokens \in Seq(Tokens) /\ buf \in Seq(Letters)
           /\ at \in Nat /\ Len(line) \in Nat /\ Len(tokens) \in Nat
           /\ Pending \in {0, 1} /\ Len(tokens) + Pending <= at
           /\ at <= Len(line) /\ Len(line) <= MaxLine
           /\ MaxLine \in Nat /\ MAX_TOKENS \in Nat /\ MaxLine < MAX_TOKENS
           /\ capacity = MAX_TOKENS
<1>1. line \in Seq(Chars) /\ tokens \in Seq(Tokens) /\ buf \in Seq(Letters)
  BY DEF LexInv
<1>2. Len(line) \in Nat /\ Len(tokens) \in Nat /\ Pending \in {0, 1}
  BY <1>1 DEF Pending
<1>3. at \in Nat /\ at <= Len(line)
  BY <1>2 DEF LexInv
<1> QED
  BY <1>1, <1>2, <1>3, LexerAssumption DEF LexInv

LEMMA UpdateWord ==
    ASSUME LexInv
    PROVE  update_word \in Seq(Tokens) /\ Len(update_word) = Len(tokens) + Pending
<1>1. CASE buf = <<>>
  BY <1>1 DEF LexInv, update_word, Pending
<1>2. CASE buf # <<>>
  <2>1. [type |-> "WORD", lexeme |-> buf] \in Tokens
    BY DEF LexInv, Tokens
  <2> QED
    BY <1>2, <2>1 DEF LexInv, update_word, Pending
<1> QED
  BY <1>1, <1>2

\* A round of the loop never finds the array full.
LEMMA RoundShape ==
    ASSUME LexInv, Round
    PROVE  /\ capacity' = MAX_TOKENS /\ pc' = "scan" /\ line' = line
           /\ at \in Nat /\ Len(line) \in Nat /\ at + 1 <= Len(line)
           /\ Len(tokens) \in Nat /\ Pending \in {0, 1}
<1>1. at < Len(line) /\ pc = "scan" /\ UNCHANGED <<pc, line>>
      /\ capacity' = IF Len(tokens) = capacity THEN 2 * capacity ELSE capacity
  BY DEF Round
<1>2. Len(tokens) # capacity
  BY <1>1, LexShape
<1> QED
  BY <1>1, <1>2, LexShape

\* The next character is part of an operator.
AtOperator == CharAt(at + 1) \notin Letters \cup {" "}

LEMMA OperatorShape ==
    ASSUME LexInv, at + 1 <= Len(line), AtOperator
    PROVE  /\ [type |-> Operator(at + 1), lexeme |-> NULL] \in Tokens
           /\ Doubled(at + 1) => at + 2 <= Len(line)
<1>1. at \in Nat /\ Len(line) \in Nat /\ line \in Seq(Chars)
  BY LexShape
<1>2. CharAt(at + 1) \in {";", "&", "|", ">", "<"}
  <2>1. CharAt(at + 1) = line[at + 1]
    BY DEF CharAt
  <2>2. at + 1 \in 1..Len(line)
    BY <1>1
  <2>3. line[at + 1] \in Chars
    BY <1>1, <2>2, ElementOfSeq
  <2> QED
    BY <2>1, <2>3 DEF Chars, AtOperator
<1>3. Operator(at + 1) \in TokenTypes \ {"WORD"}
  <2>1. CASE Doubled(at + 1)
    BY <2>1 DEF Operator, Doubled, TokenTypes, ListOperators, Redirections
  <2>2. CASE ~Doubled(at + 1)
    BY <1>2, <2>2 DEF Operator, TokenTypes, ListOperators, Redirections
  <2> QED
    BY <2>1, <2>2
<1>4. Doubled(at + 1) => at + 2 <= Len(line)
  <2>1. CASE ~(at + 1 + 1 <= Len(line))
    BY <2>1 DEF Doubled, CharAt
  <2>2. CASE at + 1 + 1 <= Len(line)
    <3>1. at + 1 + 1 = at + 2
      BY <1>1
    <3> QED
      BY <2>2, <3>1
  <2> QED
    BY <2>1, <2>2
<1> QED
  BY <1>3, <1>4 DEF Tokens

LEMMA ScanKeepsLexInv == ASSUME LexInv, Scan, env' = env PROVE LexInv'
<1>1. update_word \in Seq(Tokens) /\ Len(update_word) = Len(tokens) + Pending
  BY UpdateWord
<1>2. CASE ReadBlank
  <2>1. /\ tokens' = update_word /\ buf' = <<>> /\ at' = at + 1 /\ Round
    BY <1>2 DEF ReadBlank
  <2>2. Pending' = 0
    BY <2>1 DEF Pending
  <2> QED
    BY <1>1, <2>1, <2>2, RoundShape DEF LexInv
<1>3. CASE ReadOperator
  <2>1. /\ tokens' = Append(update_word, [type |-> Operator(at + 1), lexeme |-> NULL])
        /\ buf' = <<>> /\ Round /\ AtOperator
        /\ at' = IF Doubled(at + 1) THEN at + 2 ELSE at + 1
    BY <1>3 DEF ReadOperator, AtOperator
  <2>2. Pending' = 0
    BY <2>1 DEF Pending
  <2>3. /\ [type |-> Operator(at + 1), lexeme |-> NULL] \in Tokens
        /\ Doubled(at + 1) => at + 2 <= Len(line)
    BY <2>1, RoundShape, OperatorShape
  <2>4. tokens' \in Seq(Tokens) /\ Len(tokens') = Len(tokens) + Pending + 1
    <3>1. Len(Append(update_word, [type |-> Operator(at + 1), lexeme |-> NULL]))
             = Len(update_word) + 1
      BY <1>1, <2>3, AppendProperties
    <3>2. Append(update_word, [type |-> Operator(at + 1), lexeme |-> NULL]) \in Seq(Tokens)
      BY <1>1, <2>3, AppendProperties
    <3> QED
      BY <1>1, <2>1, <3>1, <3>2
  <2>5. at' \in 0..Len(line) /\ at' >= at + 1
    <3>1. at \in Nat /\ Len(line) \in Nat /\ at + 1 <= Len(line)
      BY <2>1, RoundShape
    <3>2. at' = at + 1 \/ (at' = at + 2 /\ at + 2 <= Len(line))
      BY <2>1, <2>3
    <3> QED
      BY <3>1, <3>2
  <2>6. Len(tokens') + Pending' <= at'
    <3>1. /\ at \in Nat /\ Len(tokens) \in Nat /\ Pending \in {0, 1}
          /\ Len(tokens) + Pending <= at
      BY LexShape
    <3>2. at' \in Nat
      BY <2>1, <2>3, <3>1
    <3> QED
      BY <2>2, <2>4, <2>5, <3>1, <3>2
  <2>7. capacity' = MAX_TOKENS /\ pc' = "scan" /\ line' = line
    BY <2>1, RoundShape
  <2> QED
    BY <2>1, <2>4, <2>5, <2>6, <2>7 DEF LexInv
<1>4. CASE ReadLetter
  <2>1. /\ buf' = Append(buf, CharAt(at + 1)) /\ CharAt(at + 1) \in Letters
        /\ at' = at + 1 /\ tokens' = tokens /\ Round
    BY <1>4 DEF ReadLetter
  <2>2. buf' \in Seq(Letters) /\ Pending' = 1
    BY <2>1 DEF LexInv, Pending
  <2> QED
    BY <2>1, <2>2, RoundShape DEF LexInv
<1>5. CASE LineScanned
  <2>1. /\ tokens' = update_word /\ buf' = <<>> /\ pc' = "scanned"
        /\ UNCHANGED <<line, at, capacity>>
    BY <1>5 DEF LineScanned
  <2>2. Pending' = 0
    BY <2>1 DEF Pending
  <2> QED
    BY <1>1, <2>1, <2>2 DEF LexInv
<1> QED
  BY <1>2, <1>3, <1>4, <1>5 DEF Scan

LEMMA BuildKeepsEnv == ASSUME BuildTable PROVE env' = env
  BY DEF BuildTable, NextVariable, OpenDir, DirFails, LoadEntry, CloseDir, BuildEnds,
         InsertBuiltin, TableReady, RehashSlot, RehashDone

\* The parser reads the tokens and leaves the lexer's state alone.
LEMMA ParseShape ==
    ASSUME Parse
    PROVE  /\ UNCHANGED lexVars
           /\ pc \in {"scanned", "words", "redirections", "list"}
           /\ pc' \in {"words", "redirections", "list", "parsed", "crashed"}
  BY DEF Parse, StartParse, GetWord, WordsEnd, ParseRedirection, NextCommand,
         PipelineEnds, ParseOperator, ListEnds, StartPipeline, StartCommand

LEMMA Lexing == Spec => []LexInv
<1>1. Init => LexInv
  <2> SUFFICES ASSUME Init PROVE LexInv
    OBVIOUS
  <2>1. /\ line = <<>> /\ at = 0 /\ buf = <<>> /\ tokens = <<>>
        /\ capacity = MAX_TOKENS /\ pc = "start"
    BY DEF Init, lexer_init
  <2>2. env \in Envs
    BY DEF Init, TableInit
  <2>3. MaxLine \in Nat
    BY LexerAssumption
  <2>4. Pending = 0
    BY <2>1 DEF Pending
  <2> QED
    BY <2>1, <2>2, <2>3, <2>4 DEF LexInv
<1>2. LexInv /\ [Next]_vars => LexInv'
  <2> SUFFICES ASSUME LexInv, [Next]_vars PROVE LexInv'
    OBVIOUS
  <2>1. CASE Start
    <3>1. pc = "start" /\ pc' \in {"start", "prompt", "crashed"} /\ env' = env
      BY <2>1, BuildKeepsEnv DEF Start
    <3> QED
      BY <2>1, <3>1 DEF Start, LexInv, lexVars, Pending
  <2>2. ASSUME NEW l \in Typed[env], EnterLine(l) PROVE LexInv'
    <3>1. l \in Seq(Chars) /\ Len(l) <= MaxLine /\ Len(l) \in Nat
      BY TypedAssumption DEF LexInv
    <3> QED
      BY <2>2, <3>1 DEF EnterLine, LexInv, Pending, tableVars
  <2>3. CASE Tokenize
    BY <2>3, ScanKeepsLexInv DEF Tokenize, tableVars
  <2>4. CASE BuildTree
    BY <2>4, ParseShape DEF BuildTree, LexInv, lexVars, Pending, tableVars
  <2>5. CASE Execute
    BY <2>5 DEF Execute, LexInv, lexVars, Pending, tableVars
  <2>6. CASE FinishLine
    <3>1. /\ line' = <<>> /\ at' = 0 /\ tokens' = <<>> /\ pc' = "prompt"
          /\ capacity' = capacity /\ env' = env /\ buf' = buf
      BY <2>6 DEF FinishLine, free_tokens, tableVars
    <3>2. buf = <<>> /\ MaxLine \in Nat
      BY <2>6, LexerAssumption DEF FinishLine, LexInv
    <3>3. Pending' = 0
      BY <3>1, <3>2 DEF Pending
    <3> QED
      BY <3>1, <3>2, <3>3 DEF LexInv
  <2>7. CASE UNCHANGED vars
    BY <2>7 DEF vars, LexInv, lexVars, Pending, tableVars
  <2> QED
    BY <2>1, <2>2, <2>3, <2>4, <2>5, <2>6, <2>7 DEF Next
<1> QED
  BY <1>1, <1>2, PTL DEF Spec

\* tokenize never stores a token past the end of the array that lexer_init made,
\* and never replaces it, for every line that fits my_readline's buffer.
THEOREM TokensAlwaysFit == Spec => []TokensFit
<1>1. LexInv => TokensFit
  BY LexShape DEF TokensFit
<1> QED
  BY <1>1, Lexing, PTL

-----------------------------------------------------------------------------
(* Where tokens start.                                                       *)

TokenStarts == WordStarts \cup OperatorStarts
StartsUpTo(b) == {m \in TokenStarts : m <= b}

\* The characters that operators of two characters are made of.
Doubling == {"&", "|", ">"}

LEMMA StartShape ==
    ASSUME line \in Seq(Chars)
    PROVE  /\ DOMAIN line = 1..Len(line) /\ Len(line) \in Nat
           /\ TokenStarts \subseteq 1..Len(line)
           /\ \A b : StartsUpTo(b) \subseteq 1..Len(line)
                     /\ IsFiniteSet(StartsUpTo(b)) /\ Cardinality(StartsUpTo(b)) \in Nat
<1>1. DOMAIN line = 1..Len(line) /\ Len(line) \in Nat
  BY LenProperties
<1>2. TokenStarts \subseteq 1..Len(line)
  BY <1>1 DEF TokenStarts, WordStarts, OperatorStarts
<1>3. IsFiniteSet(1..Len(line))
  BY <1>1, FS_Interval
<1>4. ASSUME NEW b
      PROVE  /\ StartsUpTo(b) \subseteq 1..Len(line)
             /\ IsFiniteSet(StartsUpTo(b)) /\ Cardinality(StartsUpTo(b)) \in Nat
  <2>1. StartsUpTo(b) \subseteq 1..Len(line)
    BY <1>2 DEF StartsUpTo
  <2> QED
    BY <1>3, <2>1, FS_Subset, FS_CardinalityType
<1> QED
  BY <1>1, <1>2, <1>4

\* The tokens of the first b characters.
Right(toks, b) ==
    /\ Len(toks) = Cardinality(StartsUpTo(b))
    /\ \A n \in 1..Len(toks) :
          \E k \in TokenStarts :
              k <= b /\ Cardinality(StartsUpTo(k)) = n /\ toks[n] = TokenAt(k)

LEMMA RightSkips ==
    ASSUME line \in Seq(Chars), NEW toks, NEW b \in Nat, NEW e \in Nat, b <= e,
           Right(toks, b), \A m \in b + 1..e : m \notin TokenStarts
    PROVE  Right(toks, e)
<1>1. ASSUME NEW m \in TokenStarts PROVE m <= b <=> m <= e
  <2>1. m \in Nat
    BY StartShape
  <2> QED
    BY <2>1
<1>2. StartsUpTo(e) = StartsUpTo(b)
  BY <1>1 DEF StartsUpTo
<1> QED
  BY <1>1, <1>2 DEF Right

LEMMA RightAppends ==
    ASSUME line \in Seq(Chars), NEW T, NEW toks \in Seq(T), NEW b \in Nat, NEW e \in Nat,
           NEW k \in TokenStarts, b < k, k <= e, TokenAt(k) \in T,
           Right(toks, b), \A m \in b + 1..e : m \in TokenStarts => m = k
    PROVE  Right(Append(toks, TokenAt(k)), e)
<1> DEFINE more == Append(toks, TokenAt(k))
<1>1. k \in Nat /\ \A m \in TokenStarts : m \in Nat
  BY StartShape
<1>2. ASSUME NEW f \in {e, k} PROVE StartsUpTo(f) = StartsUpTo(b) \cup {k}
  <2>1. \A m \in TokenStarts : m <= f <=> m <= b \/ m = k
    BY <1>1
  <2> QED
    BY <2>1 DEF StartsUpTo
<1>3. k \notin StartsUpTo(b)
  BY <1>1 DEF StartsUpTo
<1>4. Cardinality(StartsUpTo(b) \cup {k}) = Cardinality(StartsUpTo(b)) + 1
  BY <1>3, StartShape, FS_AddElement
<1>5. /\ Len(more) = Len(toks) + 1 /\ Len(toks) \in Nat
      /\ \A n \in 1..Len(toks) : more[n] = toks[n]
      /\ more[Len(toks) + 1] = TokenAt(k)
  BY AppendProperties
<1> HIDE DEF more
<1>6. Len(more) = Cardinality(StartsUpTo(e))
  BY <1>2, <1>4, <1>5 DEF Right
<1>7. ASSUME NEW n \in 1..Len(more)
      PROVE  \E j \in TokenStarts :
                 j <= e /\ Cardinality(StartsUpTo(j)) = n /\ more[n] = TokenAt(j)
  <2>1. CASE n = Len(more)
    <3>1. Cardinality(StartsUpTo(k)) = n
      BY <1>2, <1>6, <2>1
    <3> QED
      BY <1>5, <2>1, <3>1
  <2>2. CASE n # Len(more)
    <3>1. n \in 1..Len(toks)
      BY <1>5, <2>2
    <3>2. PICK j \in TokenStarts :
              j <= b /\ Cardinality(StartsUpTo(j)) = n /\ toks[n] = TokenAt(j)
      BY <3>1 DEF Right
    <3>3. j <= e
      BY <1>1, <3>2
    <3> QED
      BY <1>5, <3>1, <3>2, <3>3
  <2> QED
    BY <2>1, <2>2
<1> QED
  BY <1>6, <1>7 DEF Right, more

\* Tokens that are right up to the end of the line are those of the line.
LEMMA RightIsAll ==
    ASSUME line \in Seq(Chars), NEW T, NEW toks \in Seq(T), Right(toks, Len(line))
    PROVE  toks = LineTokens
<1> DEFINE starts == WordStarts \cup OperatorStarts
           Nth(n) == CHOOSE k \in starts : Cardinality({m \in starts : m <= k}) = n
<1>1. /\ Len(line) \in Nat /\ starts = TokenStarts
      /\ \A k \in starts : k \in Nat /\ k <= Len(line)
  BY StartShape DEF TokenStarts
<1>2. StartsUpTo(Len(line)) = starts
  BY <1>1 DEF StartsUpTo
<1>3. \A k : {m \in starts : m <= k} = StartsUpTo(k)
  BY <1>1 DEF StartsUpTo
<1>4. LineTokens = [n \in 1..Cardinality(starts) |-> TokenAt(Nth(n))]
  BY DEF LineTokens
<1>5. Len(toks) = Cardinality(starts) /\ DOMAIN toks = 1..Len(toks)
      /\ toks = [n \in 1..Len(toks) |-> toks[n]]
  BY <1>2, LenProperties DEF Right
<1>6. ASSUME NEW j \in starts, NEW k \in starts, j < k
      PROVE  Cardinality(StartsUpTo(j)) # Cardinality(StartsUpTo(k))
  <2>1. StartsUpTo(j) \subseteq StartsUpTo(k)
    BY <1>1, <1>6 DEF StartsUpTo
  <2>2. k \in StartsUpTo(k) /\ k \notin StartsUpTo(j)
    BY <1>1, <1>6 DEF StartsUpTo
  <2> QED
    BY <2>1, <2>2, StartShape, FS_Subset
<1>7. ASSUME NEW n \in 1..Len(toks)
      PROVE  toks[n] = TokenAt(Nth(n))
  <2>1. PICK k \in starts : Cardinality(StartsUpTo(k)) = n /\ toks[n] = TokenAt(k)
    BY <1>1 DEF Right
  <2>2. \A j \in starts : Cardinality(StartsUpTo(j)) = n => j = k
    BY <1>1, <1>6, <2>1
  <2>3. Nth(n) = k
    <3> HIDE DEF starts
    <3> QED
      BY <1>3, <2>1, <2>2
  <2> QED
    BY <2>1, <2>3
<1> HIDE DEF starts, Nth
<1> QED
  BY <1>4, <1>5, <1>7

-----------------------------------------------------------------------------
(* Operators of two characters.                                              *)

LEMMA SecondShape ==
    \A k : Second(k) <=> /\ line[k] \in Doubling
                         /\ \E run \in 1..k - 1 :
                               /\ \A m \in run..k : line[m] = line[k]
                               /\ run = 1 \/ line[run - 1] # line[k]
                               /\ (k - run) % 2 = 1
  BY Zenon DEF Second, Doubling

LEMMA SecondHolds ==
    ASSUME NEW k \in Nat, NEW run \in 1..k - 1, line[k] \in Doubling,
           \A m \in run..k : line[m] = line[k],
           run = 1 \/ line[run - 1] # line[k],
           (k - run) % 2 = 1
    PROVE  Second(k)
  BY SecondShape

LEMMA DoublingShape == " " \notin Doubling /\ Doubling \cap Letters = {}
<1>1. " " \notin Doubling
  BY DEF Doubling
<1>2. Doubling \cap Letters = {}
  BY LexerAssumption DEF Doubling
<1> QED
  BY <1>1, <1>2

\* The second character stands behind the same one.
LEMMA SecondFollowsSame ==
    ASSUME NEW k \in Nat, Second(k)
    PROVE  k > 1 /\ line[k - 1] = line[k] /\ line[k] \in Doubling
<1>1. PICK run \in 1..k - 1 : \A m \in run..k : line[m] = line[k]
  BY SecondShape
<1>2. k > 1 /\ k - 1 \in run..k
  BY <1>1
<1> QED
  BY <1>1, <1>2, SecondShape

LEMMA Parity ==
    ASSUME NEW d \in Nat
    PROVE  /\ (d + 2) % 2 = 1 <=> d % 2 = 1
           /\ (d + 1) % 2 = 1 <=> d % 2 # 1
           /\ d % 2 \in {0, 1}
  OBVIOUS

\* Neither does a third one belong to an operator whose second one stands
\* before it, nor is one that has the same before it anything but a second one,
\* unless that is a second one itself.
LEMMA SecondAlternates ==
    ASSUME NEW k \in Nat \ {0}, line[k] = line[k + 1], line[k] \in Doubling
    PROVE  Second(k + 1) <=> ~Second(k)
<1>1. ASSUME Second(k), Second(k + 1) PROVE FALSE
  <2>1. PICK r \in 1..k - 1 : /\ \A m \in r..k : line[m] = line[k]
                              /\ r = 1 \/ line[r - 1] # line[k]
                              /\ (k - r) % 2 = 1
    BY <1>1, SecondShape
  <2>2. PICK s \in 1..k : /\ \A m \in s..k + 1 : line[m] = line[k + 1]
                          /\ s = 1 \/ line[s - 1] # line[k + 1]
                          /\ (k + 1 - s) % 2 = 1
    BY <1>1, SecondShape
  <2>3. r = s
    <3>1. CASE r < s
      <4>1. s - 1 \in r..k /\ s # 1
        BY <3>1
      <4> QED
        BY <2>1, <2>2, <4>1
    <3>2. CASE s < r
      <4>1. r - 1 \in s..k + 1 /\ r # 1
        BY <3>2
      <4> QED
        BY <2>1, <2>2, <4>1
    <3> QED
      BY <3>1, <3>2
  <2>4. PICK d \in Nat : d = k - r
    OBVIOUS
  <2>5. k + 1 - s = d + 1
    BY <2>3, <2>4
  <2> QED
    BY <2>1, <2>2, <2>4, <2>5, Parity
<1>2. ASSUME ~Second(k) PROVE Second(k + 1)
  <2> DEFINE R == {m \in 1..k : \A q \in m..k : line[q] = line[k]}
  <2>1. R \in SUBSET Nat /\ k \in R /\ IsFiniteSet(R)
    <3>1. IsFiniteSet(1..k)
      BY FS_Interval
    <3>2. R \in SUBSET (1..k)
      OBVIOUS
    <3>3. k \in R
      OBVIOUS
    <3> QED
      BY <3>1, <3>2, <3>3, FS_Subset
  <2>2. PICK r \in R : \A m \in R : r <= m
    BY <2>1, Least
  <2>3. r \in 1..k /\ \A q \in r..k : line[q] = line[k]
    OBVIOUS
  <2>4. r = 1 \/ line[r - 1] # line[k]
    <3>1. SUFFICES ASSUME r # 1, line[r - 1] = line[k] PROVE FALSE
      OBVIOUS
    <3>2. r - 1 \in 1..k /\ \A q \in r - 1..k : q = r - 1 \/ q \in r..k
      BY <2>3, <3>1
    <3>3. r - 1 \in R
      BY <2>3, <3>1, <3>2
    <3> QED
      BY <2>2, <2>3, <3>3
  <2> HIDE DEF R
  <2>5. (k - r) % 2 # 1
    <3>1. SUFFICES ASSUME (k - r) % 2 = 1 PROVE FALSE
      OBVIOUS
    <3>2. r \in 1..k - 1
      <4>1. r # k
        BY <3>1, Parity
      <4> QED
        BY <2>3, <4>1
    <3> QED
      BY <1>2, <2>3, <2>4, <3>1, <3>2, SecondShape
  <2>6. PICK d \in Nat : d = k - r
    BY <2>3
  <2>7. k + 1 - r = d + 1 /\ (k + 1 - r) % 2 = 1
    BY <2>3, <2>5, <2>6, Parity
  <2>8. r \in 1..(k + 1) - 1 /\ \A m \in r..k + 1 : line[m] = line[k + 1]
    <3>1. \A m \in r..k + 1 : m \in r..k \/ m = k + 1
      BY <2>3
    <3> QED
      BY <2>3, <3>1
  <2>9. /\ line[k + 1] \in Doubling
        /\ r = 1 \/ line[r - 1] # line[k + 1]
        /\ (k + 1 - r) % 2 = 1
    BY <2>4, <2>7
  <2> QED
    BY <2>8, <2>9, SecondHolds
<1> QED
  BY <1>1, <1>2

-----------------------------------------------------------------------------
(* The invariant.                                                            *)

\* Where the word in buf begins, as the number of characters before it.
Before == at - Len(buf)

\* While the line is scanned buf has the characters after Before, which begin a
\* word, the tokens are those of the characters up to there, and what is read
\* next is not the second character of an operator.
Scanning ==
    /\ Before \in Nat
    /\ \A q \in 1..Len(buf) : buf[q] = line[Before + q]
    /\ ~IsLetter(Before)
    /\ at < Len(line) => ~Second(at + 1)
    /\ Right(tokens, Before)

ScanInv ==
    /\ Len(buf) <= MaxWord
    /\ pc = "scan" => Scanning
    /\ pc = "scanned" => TokensRight

\* What the state of the loop gives.
LEMMA ScanShape ==
    ASSUME LexInv, Scanning
    PROVE  /\ line \in Seq(Chars) /\ tokens \in Seq(Tokens) /\ buf \in Seq(Letters)
           /\ DOMAIN line = 1..Len(line) /\ Len(line) \in Nat
           /\ at \in Nat /\ at <= Len(line) /\ Len(buf) \in Nat
           /\ Before \in Nat /\ Before + Len(buf) = at
           /\ \A k \in 1..Len(line) : line[k] \in Chars
           /\ \A k \in Before + 1..at : IsLetter(k)
<1>1. /\ line \in Seq(Chars) /\ tokens \in Seq(Tokens) /\ buf \in Seq(Letters)
      /\ at \in Nat /\ at <= Len(line) /\ Before \in Nat
  BY LexShape DEF Scanning
<1>2. DOMAIN line = 1..Len(line) /\ Len(line) \in Nat /\ Len(buf) \in Nat
  BY <1>1, LenProperties
<1>3. Before + Len(buf) = at
  BY <1>1, <1>2 DEF Before
<1>4. \A k \in 1..Len(line) : line[k] \in Chars
  BY <1>1, ElementOfSeq
<1>5. ASSUME NEW k \in Before + 1..at PROVE IsLetter(k)
  <2>1. k - Before \in 1..Len(buf) /\ Before + (k - Before) = k /\ k \in 1..Len(line)
    BY <1>1, <1>2, <1>3
  <2>2. buf[k - Before] \in Letters
    BY <1>1, <2>1, ElementOfSeq
  <2>3. line[k] \in Letters
    BY <2>1, <2>2 DEF Scanning
  <2> QED
    BY <1>2, <2>1, <2>3 DEF IsLetter
<1> QED
  BY <1>1, <1>2, <1>3, <1>4, <1>5

\* What no token starts with.
LEMMA NoStart ==
    ASSUME NEW k
    PROVE  /\ IsLetter(k) /\ IsLetter(k - 1) => k \notin TokenStarts
           /\ line[k] = " " => k \notin TokenStarts
           /\ Second(k) => k \notin TokenStarts
<1>1. Second(k) => line[k] \notin Letters
  BY SecondShape, DoublingShape
<1>2. " " \notin Letters
  BY LexerAssumption
<1> QED
  BY <1>1, <1>2 DEF TokenStarts, WordStarts, OperatorStarts, IsLetter

LEMMA WordBegins ==
    ASSUME LexInv, Scanning, buf # <<>>
    PROVE  Before + 1 \in WordStarts
<1>1. /\ DOMAIN line = 1..Len(line) /\ Len(line) \in Nat
      /\ at \in Nat /\ at <= Len(line) /\ Len(buf) \in Nat \ {0}
      /\ Before \in Nat /\ Before + Len(buf) = at
      /\ \A k \in Before + 1..at : IsLetter(k)
  BY ScanShape, EmptySeq
<1> DEFINE b == Before + 1
<1>2. b \in 1..at /\ b - 1 = Before
  BY <1>1
<1>3. IsLetter(b) /\ ~IsLetter(b - 1) /\ b \in DOMAIN line
  BY <1>1, <1>2 DEF Scanning
<1> HIDE DEF b
<1>4. b \in WordStarts
  BY <1>3 DEF WordStarts
<1> QED
  BY <1>4 DEF b

\* The word in buf is the one that starts there, once it has ended.
LEMMA WordRead ==
    ASSUME LexInv, Scanning, buf # <<>>, ~IsLetter(at + 1)
    PROVE  /\ Before + 1 \in WordStarts
           /\ TokenAt(Before + 1) = [type |-> "WORD", lexeme |-> buf]
<1> DEFINE b == Before + 1
<1>1. /\ line \in Seq(Chars) /\ DOMAIN line = 1..Len(line) /\ Len(line) \in Nat
      /\ at \in Nat /\ at <= Len(line) /\ Len(buf) \in Nat \ {0}
      /\ Before \in Nat /\ Before + Len(buf) = at /\ buf \in Seq(Letters)
      /\ \A k \in Before + 1..at : IsLetter(k)
  BY ScanShape, EmptySeq
<1>2. b \in 1..at /\ b - 1 = Before
  BY <1>1
<1>3. b \in WordStarts
  BY WordBegins
<1>4. (CHOOSE m \in b..Len(line) : (\A q \in b..m : IsLetter(q)) /\ ~IsLetter(m + 1)) = at
  <2>1. at \in b..Len(line) /\ \A q \in b..at : IsLetter(q)
    BY <1>1, <1>2
  <2>2. ASSUME NEW m \in b..Len(line), \A q \in b..m : IsLetter(q), ~IsLetter(m + 1)
        PROVE  m = at
    <3>1. CASE m < at
      <4>1. m + 1 \in b..at
        BY <1>1, <1>2, <3>1
      <4> QED
        BY <2>1, <2>2, <4>1
    <3>2. CASE m > at
      <4>1. at + 1 \in b..m
        BY <1>1, <1>2, <3>2
      <4> QED
        BY <2>2, <4>1
    <3> QED
      BY <1>1, <1>2, <3>1, <3>2
  <2> HIDE DEF b
  <2> QED
    BY <2>1, <2>2
<1>5. SubSeq(line, b, at) = buf
  <2>1. /\ SubSeq(line, b, at) \in Seq(Chars) /\ Len(SubSeq(line, b, at)) = at - b + 1
        /\ \A q \in 1..at - b + 1 : SubSeq(line, b, at)[q] = line[b + q - 1]
    <3>1. b \in 1..Len(line) + 1 /\ at \in b - 1..Len(line) /\ b <= at
      BY <1>1, <1>2
    <3> HIDE DEF b
    <3> QED
      BY <1>1, <3>1, SubSeqProperties
  <2>2. at - b + 1 = Len(buf) /\ \A q \in 1..Len(buf) : b + q - 1 = Before + q
    BY <1>1
  <2>3. buf \in Seq(Chars)
    BY <1>1, SeqMonotonic DEF Chars
  <2>4. \A q \in 1..Len(buf) : buf[q] = line[Before + q]
    BY DEF Scanning
  <2> HIDE DEF b
  <2>5. \A q \in 1..Len(buf) : SubSeq(line, b, at)[q] = buf[q]
    BY <2>1, <2>2, <2>4
  <2> QED
    BY <2>1, <2>2, <2>3, <2>5, SeqEqual
<1>6. Word(b) = buf
  BY <1>4, <1>5 DEF Word
<1> HIDE DEF b
<1>7. TokenAt(b) = [type |-> "WORD", lexeme |-> buf]
  BY <1>3, <1>6 DEF TokenAt
<1> QED
  BY <1>3, <1>7 DEF b

\* When no letter follows, update_word makes the tokens right up to here.
LEMMA UpdatedRight ==
    ASSUME LexInv, Scanning, ~IsLetter(at + 1)
    PROVE  Right(update_word, at)
<1>1. /\ line \in Seq(Chars) /\ at \in Nat /\ Len(buf) \in Nat /\ tokens \in Seq(Tokens)
      /\ Before \in Nat /\ Before + Len(buf) = at /\ buf \in Seq(Letters)
      /\ \A k \in Before + 1..at : IsLetter(k)
  BY ScanShape
<1>2. CASE buf = <<>>
  <2>1. Before = at /\ update_word = tokens
    BY <1>1, <1>2 DEF update_word
  <2> QED
    BY <2>1 DEF Scanning
<1>3. CASE buf # <<>>
  <2> DEFINE word == [type |-> "WORD", lexeme |-> buf]
  <2>1. /\ Before + 1 \in TokenStarts /\ TokenAt(Before + 1) = word
        /\ update_word = Append(tokens, word) /\ word \in Tokens
    BY <1>1, <1>3, WordRead DEF TokenStarts, update_word, Tokens
  <2>2. Before < Before + 1 /\ Before + 1 <= at
    <3>1. Len(buf) # 0
      BY <1>1, <1>3, EmptySeq
    <3> QED
      BY <1>1, <3>1
  <2>3. ASSUME NEW m \in Before + 1..at, m \in TokenStarts PROVE m = Before + 1
    <3>1. CASE m # Before + 1
      <4>1. m - 1 \in Before + 1..at
        BY <1>1, <3>1
      <4> QED
        BY <1>1, <2>3, <4>1, NoStart
    <3> QED
      BY <3>1
  <2>4. Right(tokens, Before)
    BY DEF Scanning
  <2> HIDE DEF word
  <2> QED
    BY <1>1, <2>1, <2>2, <2>3, <2>4, RightAppends
<1> QED
  BY <1>2, <1>3

-----------------------------------------------------------------------------
(* The rounds of the loop.                                                   *)

\* What is said of the line stays true while the line is the same.
LEMMA SameLine ==
    ASSUME line' = line
    PROVE  /\ \A k : IsLetter(k)' = IsLetter(k) /\ Second(k)' = Second(k)
           /\ \A k : TokenAt(k)' = TokenAt(k)
           /\ TokenStarts' = TokenStarts /\ WordStarts' = WordStarts
           /\ LineTokens' = LineTokens
           /\ \A toks, b : Right(toks, b)' = Right(toks, b)
<1>1. \A k : IsLetter(k)' = IsLetter(k)
  BY DEF IsLetter
<1>2. \A k : Second(k)' = Second(k)
  BY DEF Second
<1>3. WordStarts' = WordStarts /\ OperatorStarts' = OperatorStarts
  BY <1>1, <1>2 DEF WordStarts, OperatorStarts
<1>4. ASSUME NEW k PROVE OperatorText(k)' = OperatorText(k)
  <2>1. Second(k + 1)' = Second(k + 1)
    BY <1>2
  <2> DEFINE Twice(c) == CASE c = "&" -> "&&" [] c = "|" -> "||" [] c = ">" -> ">>"
  <2>2. OperatorText(k) = IF k + 1 \in DOMAIN line /\ Second(k + 1)
                          THEN Twice(line[k]) ELSE line[k]
    BY Zenon DEF OperatorText
  <2>3. OperatorText(k)' = IF k + 1 \in DOMAIN line' /\ Second(k + 1)'
                           THEN Twice(line'[k]) ELSE line'[k]
    BY Zenon DEF OperatorText
  <2> HIDE DEF Twice
  <2> QED
    BY <2>1, <2>2, <2>3
<1>5. \A k : Word(k)' = Word(k)
  BY DEF Word, IsLetter
<1>6. \A k : TokenAt(k)' = TokenAt(k)
  BY <1>3, <1>4, <1>5 DEF TokenAt
<1>7. TokenStarts' = TokenStarts
  BY <1>3 DEF TokenStarts
<1>8. \A toks, b : Right(toks, b)' = Right(toks, b)
  BY <1>6, <1>7 DEF Right, StartsUpTo
<1>9. LineTokens' = LineTokens
  BY <1>3, <1>6 DEF LineTokens
<1> QED
  BY <1>1, <1>2, <1>3, <1>6, <1>7, <1>8, <1>9

\* Behind the line there is nothing that an operator is made of.
Nothing == ""

LEMMA CharAtShape ==
    /\ \A k : CharAt(k) = IF k <= Len(line) THEN line[k] ELSE Nothing
    /\ Nothing \notin Doubling
<1>1. \A k : CharAt(k) = IF k <= Len(line) THEN line[k] ELSE Nothing
  BY Zenon DEF CharAt, Nothing
<1>2. Nothing \notin Doubling
  BY DEF Nothing, Doubling
<1> QED
  BY <1>1, <1>2

\* A round begins at a character of the line.
LEMMA RoundBegins ==
    ASSUME LexInv, Scanning, Round
    PROVE  /\ at + 1 \in 1..Len(line) /\ CharAt(at + 1) = line[at + 1]
           /\ line[at + 1] \in Chars /\ at + 1 \in DOMAIN line
           /\ ~Second(at + 1) /\ line' = line /\ pc' = "scan"
           /\ at \in Nat /\ Len(line) \in Nat
<1>1. at \in Nat /\ Len(line) \in Nat /\ at < Len(line) /\ line' = line /\ pc' = "scan"
  BY ScanShape DEF Round
<1>2. at + 1 \in 1..Len(line)
  BY <1>1
<1>3. CharAt(at + 1) = line[at + 1]
  BY <1>1, <1>2, CharAtShape
<1> QED
  BY <1>1, <1>2, <1>3, ScanShape DEF Scanning

\* The operator that is read is the one that stands there.
LEMMA OperatorRead ==
    ASSUME LexInv, Scanning, Round, AtOperator
    PROVE  /\ at + 1 \in OperatorStarts
           /\ TokenAt(at + 1) = [type |-> Operator(at + 1), lexeme |-> NULL]
           /\ Doubled(at + 1) <=> /\ at + 2 \in DOMAIN line
                                  /\ line[at + 1] = line[at + 2]
                                  /\ line[at + 1] \in Doubling
           /\ Doubled(at + 1) => Second(at + 2)
<1> DEFINE k == at + 1
           Twice(c) == CASE c = "&" -> "&&" [] c = "|" -> "||" [] c = ">" -> ">>"
<1>1. /\ k \in 1..Len(line) /\ CharAt(k) = line[k] /\ k \in DOMAIN line
      /\ ~Second(k) /\ at \in Nat /\ Len(line) \in Nat /\ DOMAIN line = 1..Len(line)
      /\ k + 1 = at + 2
  BY RoundBegins, ScanShape
<1>2. k \in OperatorStarts /\ k \notin WordStarts
  BY <1>1 DEF OperatorStarts, WordStarts, IsLetter, AtOperator
<1>3. Doubled(k) <=> k + 1 \in DOMAIN line /\ line[k] = line[k + 1] /\ line[k] \in Doubling
  <2>1. Doubled(k) <=> line[k] \in Doubling /\ CharAt(k + 1) = line[k]
    BY <1>1, Zenon DEF Doubled, Doubling
  <2>2. CASE k + 1 \in DOMAIN line
    <3>1. CharAt(k + 1) = line[k + 1]
      BY <1>1, <2>2, CharAtShape
    <3> HIDE DEF k
    <3> QED
      BY <2>1, <2>2, <3>1
  <2>3. CASE k + 1 \notin DOMAIN line
    <3>1. CharAt(k + 1) = Nothing
      BY <1>1, <2>3, CharAtShape
    <3> HIDE DEF k
    <3> QED
      BY <2>1, <2>3, <3>1, CharAtShape
  <2> QED
    BY <2>2, <2>3
<1>4. k + 1 \in DOMAIN line /\ Second(k + 1) <=> Doubled(k)
  <2>1. ASSUME k + 1 \in DOMAIN line, Second(k + 1) PROVE Doubled(k)
    <3>1. k + 1 \in Nat /\ (k + 1) - 1 = k
      BY <1>1
    <3>2. line[k] = line[k + 1] /\ line[k + 1] \in Doubling
      BY <2>1, <3>1, SecondFollowsSame
    <3> HIDE DEF k
    <3> QED
      BY <1>3, <2>1, <3>2
  <2>2. ASSUME Doubled(k) PROVE k + 1 \in DOMAIN line /\ Second(k + 1)
    <3>1. k \in Nat \ {0}
      BY RoundBegins
    <3> HIDE DEF k
    <3> QED
      BY <1>1, <1>3, <2>2, <3>1, SecondAlternates
  <2> QED
    BY <2>1, <2>2
<1>5. OperatorText(k) = Operator(k)
  <2>1. OperatorText(k) = IF k + 1 \in DOMAIN line /\ Second(k + 1)
                          THEN Twice(line[k]) ELSE line[k]
    BY Zenon DEF OperatorText
  <2>2. Operator(k) = IF ~Doubled(k) THEN CharAt(k) ELSE Twice(CharAt(k))
    BY Zenon DEF Operator
  <2> HIDE DEF Twice, k
  <2> QED
    BY <1>1, <1>4, <2>1, <2>2
<1>6. TokenAt(k) = [type |-> Operator(k), lexeme |-> NULL]
  <2> HIDE DEF k
  <2> QED
    BY <1>2, <1>5 DEF TokenAt
<1> HIDE DEF k
<1>7. QED
  BY <1>1, <1>2, <1>3, <1>4, <1>6 DEF k

\* The state after a round that ends a word.
LEMMA RoundEnds ==
    ASSUME NEW e \in Nat, line' = line, buf' = <<>>, at' = e, tokens' \in Seq(Tokens),
           Right(tokens', e), ~IsLetter(e), e < Len(line) => ~Second(e + 1)
    PROVE  Scanning'
<1>1. Before' = e
  <2>1. Len(buf') = 0
    BY EmptySeq
  <2> QED
    BY <2>1 DEF Before
<1>2. Right(tokens, Before)'
  BY <1>1, SameLine
<1>3. ~IsLetter(Before)' /\ (at' < Len(line') => ~Second(at + 1)')
  BY <1>1, SameLine
<1>4. \A q \in 1..Len(buf') : FALSE
  BY EmptySeq
<1> QED
  BY <1>1, <1>2, <1>3, <1>4 DEF Scanning

LEMMA BlankKeeps == ASSUME LexInv, Scanning, ReadBlank PROVE Scanning'
<1> DEFINE k == at + 1
<1>1. /\ k \in 1..Len(line) /\ line' = line /\ line \in Seq(Chars)
      /\ tokens' = update_word /\ buf' = <<>> /\ at' = k
  BY RoundBegins, ScanShape DEF ReadBlank
<1>2. /\ at \in Nat /\ k \in Nat /\ at <= k /\ k + 1 \in Nat /\ (k + 1) - 1 = k
      /\ \A m \in at + 1..k : m = k
  <2>1. Round
    BY DEF ReadBlank
  <2> QED
    BY <2>1, RoundBegins
<1>3. line[k] = " "
  BY RoundBegins DEF ReadBlank
<1>4. k \notin TokenStarts /\ ~IsLetter(k)
  BY <1>3, NoStart, LexerAssumption DEF IsLetter
<1>5. Right(update_word, at)
  BY <1>4, UpdatedRight
<1> HIDE DEF k
<1>6. Right(update_word, k)
  <2>1. \A m \in at + 1..k : m \notin TokenStarts
    BY <1>2, <1>4
  <2> QED
    BY <1>1, <1>2, <1>5, <2>1, RightSkips
<1>7. ~Second(k + 1)
  <2>1. line[k] \notin Doubling
    BY <1>3, DoublingShape
  <2> QED
    BY <1>2, <2>1, SecondFollowsSame
<1>8. tokens' \in Seq(Tokens)
  BY <1>1, UpdateWord
<1> QED
  BY <1>1, <1>2, <1>4, <1>6, <1>7, <1>8, RoundEnds

LEMMA OperatorKeeps == ASSUME LexInv, Scanning, ReadOperator PROVE Scanning'
<1> DEFINE k == at + 1
           token == [type |-> Operator(k), lexeme |-> NULL]
           e == IF Doubled(k) THEN at + 2 ELSE k
<1>1. /\ k \in 1..Len(line) /\ line' = line /\ at \in Nat /\ line \in Seq(Chars)
      /\ Len(line) \in Nat /\ DOMAIN line = 1..Len(line)
  BY RoundBegins, ScanShape DEF ReadOperator
<1>2. /\ tokens' = Append(update_word, token) /\ buf' = <<>> /\ at' = e
  BY DEF ReadOperator
<1>3. /\ Round /\ CharAt(k) = line[k] /\ AtOperator
  BY RoundBegins DEF ReadOperator, AtOperator
<1>4. /\ k \in TokenStarts /\ TokenAt(k) = token
      /\ Doubled(k) => at + 2 \in DOMAIN line /\ line[k] = line[at + 2] /\ Second(at + 2)
      /\ at + 2 \in DOMAIN line /\ line[k] = line[at + 2] /\ line[k] \in Doubling
            => Doubled(k)
  BY <1>3, OperatorRead DEF TokenStarts
<1>5. token \in Tokens /\ update_word \in Seq(Tokens)
  <2>1. at + 1 <= Len(line)
    BY <1>1
  <2> QED
    BY <1>3, <2>1, OperatorShape, UpdateWord
<1>6. ~IsLetter(k) /\ (Doubled(k) => ~IsLetter(at + 2))
  BY <1>3, <1>4 DEF IsLetter, AtOperator
<1>7. Right(update_word, at)
  BY <1>6, UpdatedRight
<1>8. e \in Nat /\ at < k /\ k <= e /\ k + 1 = at + 2 /\ k \in Nat
  BY <1>1
<1>9. ASSUME NEW m \in at + 1..e, m \in TokenStarts PROVE m = k
  <2>1. m = k \/ (m = at + 2 /\ Doubled(k))
    BY <1>1
  <2> HIDE DEF k, e
  <2> QED
    BY <1>4, <1>9, <2>1, NoStart
<1>10. Right(Append(update_word, token), e)
  <2> HIDE DEF k, e, token
  <2> QED
    BY <1>1, <1>4, <1>5, <1>7, <1>8, <1>9, RightAppends
<1>11. ASSUME e < Len(line), Second(e + 1) PROVE FALSE
  <2>1. e + 1 \in Nat /\ (e + 1) - 1 = e /\ e + 1 \in DOMAIN line /\ e \in Nat \ {0}
    BY <1>1, <1>8, <1>11
  <2>2. line[e] = line[e + 1] /\ line[e] \in Doubling
    <3> HIDE DEF e
    <3>1. line[(e + 1) - 1] = line[e + 1] /\ line[e + 1] \in Doubling
      BY <1>11, <2>1, SecondFollowsSame
    <3> QED
      BY <2>1, <3>1
  <2>3. CASE Doubled(k)
    <3>1. Second(e)
      BY <1>4, <2>3
    <3> HIDE DEF e
    <3> QED
      BY <1>11, <2>1, <2>2, <3>1, SecondAlternates
  <2>4. CASE ~Doubled(k)
    <3>1. e = k /\ e + 1 = at + 2
      BY <1>8, <2>4
    <3> HIDE DEF e, k
    <3> QED
      BY <1>4, <2>1, <2>2, <2>4, <3>1
  <2> QED
    BY <2>3, <2>4
<1>12. ~IsLetter(e)
  BY <1>6
<1> HIDE DEF e, token
<1>13. tokens' \in Seq(Tokens)
  BY <1>2, <1>5
<1> QED
  BY <1>1, <1>2, <1>8, <1>10, <1>11, <1>12, <1>13, RoundEnds

LEMMA LetterKeeps ==
    ASSUME LexInv, Scanning, ReadLetter
    PROVE  Scanning' /\ Len(buf') <= MaxWord
<1> DEFINE k == at + 1
<1>1. /\ at \in Nat /\ Len(line) \in Nat /\ k \in 1..Len(line) /\ line' = line
      /\ CharAt(k) = line[k] /\ Round
  BY RoundBegins DEF ReadLetter
<1>2. /\ buf' = Append(buf, line[k]) /\ at' = k /\ tokens' = tokens /\ line[k] \in Letters
  BY <1>1 DEF ReadLetter
<1>3. /\ buf \in Seq(Letters) /\ Len(buf) \in Nat /\ Before \in Nat
      /\ Before + Len(buf) = at
  BY ScanShape
<1>4. /\ Len(buf') = Len(buf) + 1 /\ buf'[Len(buf) + 1] = line[k]
      /\ \A q \in 1..Len(buf) : buf'[q] = buf[q]
  BY <1>2, <1>3, AppendProperties
<1>5. Before' = Before
  <2>1. k - (Len(buf) + 1) = Before
    BY <1>3
  <2> QED
    BY <1>2, <1>4, <2>1 DEF Before
<1>6. ASSUME NEW q \in 1..Len(buf')
      PROVE  buf'[q] = line[Before + q]
  <2>1. CASE q = Len(buf) + 1
    <3>1. Before + q = k
      BY <1>3, <2>1
    <3> QED
      BY <1>4, <2>1, <3>1
  <2>2. CASE q # Len(buf) + 1
    <3>1. q \in 1..Len(buf)
      BY <1>3, <1>4, <2>2
    <3> QED
      BY <1>4, <3>1 DEF Scanning
  <2> QED
    BY <2>1, <2>2
<1>7. ~Second(k + 1)
  <2>1. line[k] \notin Doubling
    BY <1>2, DoublingShape
  <2>2. k + 1 \in Nat /\ (k + 1) - 1 = k
    BY <1>1
  <2> HIDE DEF k
  <2> QED
    BY <2>1, <2>2, SecondFollowsSame
<1>8. Len(buf') <= MaxWord
  <2>1. Len(buf) < MaxWord /\ MaxWord \in Nat
    BY <1>1, LexerAssumption DEF Round
  <2> QED
    BY <1>3, <1>4, <2>1
<1> HIDE DEF k
<1>9. Scanning'
  <2>1. Right(tokens, Before) /\ ~IsLetter(Before) /\ Before \in Nat
    BY DEF Scanning
  <2>2. Right(tokens, Before)' /\ ~IsLetter(Before)' /\ ~Second(at + 1)'
    BY <1>1, <1>2, <1>5, <1>7, <2>1, SameLine
  <2> QED
    BY <1>1, <1>5, <1>6, <2>1, <2>2 DEF Scanning
<1> QED
  BY <1>8, <1>9

\* When the loop ends the tokens are those of the line, or a word is too long.
LEMMA ScannedRight ==
    ASSUME LexInv, Scanning, Len(buf) <= MaxWord, LineScanned
    PROVE  TokensRight'
<1>1. /\ at = Len(line) \/ Len(buf) = MaxWord
      /\ tokens' = update_word /\ line' = line /\ at' = at
  BY DEF LineScanned
<1>2. /\ line \in Seq(Chars) /\ DOMAIN line = 1..Len(line) /\ Len(line) \in Nat
      /\ buf \in Seq(Letters) /\ tokens \in Seq(Tokens) /\ at \in Nat
      /\ Before \in Nat /\ Before + Len(buf) = at /\ Len(buf) \in Nat
  BY ScanShape
<1>3. CASE at = Len(line)
  <2>1. ~IsLetter(at + 1)
    <3>1. at + 1 \notin DOMAIN line
      BY <1>2, <1>3
    <3> QED
      BY <3>1 DEF IsLetter
  <2>2. Right(update_word, Len(line))
    BY <1>3, <2>1, UpdatedRight
  <2>3. update_word = LineTokens
    BY <1>2, <2>2, UpdateWord, RightIsAll
  <2> QED
    BY <1>1, <2>3, SameLine DEF TokensRight
<1>4. CASE Len(buf) = MaxWord
  <2> DEFINE word == [type |-> "WORD", lexeme |-> buf]
  <2>1. buf # <<>>
    BY <1>4, EmptySeq, LexerAssumption
  <2>2. Before + 1 \in WordStarts /\ Before + 1 + MaxWord - 1 = at
    BY <1>2, <1>4, <2>1, WordBegins
  <2>3. tokens' = Append(tokens, word) /\ word \in Tokens
    BY <1>1, <1>2, <2>1 DEF update_word, Tokens
  <2>4. word.type = "WORD" /\ Len(word.lexeme) = MaxWord
    BY <1>4
  <2> HIDE DEF word
  <2>5. Len(tokens') > 0 /\ tokens'[Len(tokens')] = word
    <3>1. Len(tokens') = Len(tokens) + 1 /\ tokens'[Len(tokens) + 1] = word
      BY <1>2, <2>3, AppendProperties
    <3>2. Len(tokens) \in Nat
      BY <1>2
    <3> QED
      BY <3>1, <3>2
  <2>6. Before + 1 \in WordStarts' /\ Before + 1 + MaxWord - 1 = at'
    BY <1>1, <2>2, SameLine
  <2>7. \E k \in WordStarts' : k + MaxWord - 1 = at'
    BY <2>6
  <2> QED
    BY <2>4, <2>5, <2>7, Zenon DEF TokensRight
<1> QED
  BY <1>1, <1>3, <1>4

LEMMA ScanStep ==
    ASSUME LexInv, ScanInv, Scan
    PROVE  ScanInv'
<1>1. pc = "scan" /\ Scanning
  BY DEF Scan, ReadBlank, ReadOperator, ReadLetter, LineScanned, Round, ScanInv
<1>2. MaxWord \in Nat /\ Len(<<>>) = 0
  BY LexerAssumption, EmptySeq
<1>3. CASE ReadBlank
  <2>1. pc' = "scan" /\ buf' = <<>>
    BY <1>1, <1>3 DEF ReadBlank, Round
  <2> QED
    BY <1>1, <1>2, <1>3, <2>1, BlankKeeps DEF ScanInv
<1>4. CASE ReadOperator
  <2>1. pc' = "scan" /\ buf' = <<>>
    BY <1>1, <1>4 DEF ReadOperator, Round
  <2> QED
    BY <1>1, <1>2, <1>4, <2>1, OperatorKeeps DEF ScanInv
<1>5. CASE ReadLetter
  <2>1. pc' = "scan"
    BY <1>1, <1>5 DEF ReadLetter, Round
  <2> QED
    BY <1>1, <1>5, <2>1, LetterKeeps DEF ScanInv
<1>6. CASE LineScanned
  <2>1. pc' = "scanned" /\ buf' = <<>>
    BY <1>6 DEF LineScanned
  <2> QED
    BY <1>1, <1>2, <1>6, <2>1, ScannedRight DEF ScanInv
<1> QED
  BY <1>3, <1>4, <1>5, <1>6 DEF Scan

\* A line is scanned from its start.
LEMMA LineBegins ==
    ASSUME LexInv, NEW l \in Typed[env], EnterLine(l)
    PROVE  ScanInv'
<1>1. /\ pc = "prompt" /\ pc' = "scan" /\ line' = l /\ at' = 0
      /\ buf' = buf /\ tokens' = tokens
  BY DEF EnterLine
<1>2. buf = <<>> /\ tokens = <<>> /\ l \in Seq(Chars)
  BY <1>1, TypedAssumption DEF LexInv
<1>3. Len(buf') = 0 /\ Len(tokens') = 0 /\ Len(buf') <= MaxWord
  <2>1. MaxWord \in Nat
    BY LexerAssumption
  <2>2. Len(buf') = 0 /\ Len(tokens') = 0
    BY <1>1, <1>2, EmptySeq
  <2> QED
    BY <2>1, <2>2
<1>4. Before' = 0
  BY <1>1, <1>3 DEF Before
<1>5. line' \in Seq(Chars) /\ 0 \notin DOMAIN line'
  <2>1. DOMAIN line' = 1..Len(line')
    BY <1>1, <1>2, LenProperties
  <2> QED
    BY <1>1, <1>2, <2>1
<1>6. ~IsLetter(0)'
  BY <1>5 DEF IsLetter
<1>7. ~Second(1)'
  BY DEF Second
<1>8. Right(<<>>, 0)'
  <2>1. \A k \in DOMAIN line' : k \in Nat /\ k # 0
    BY <1>1, <1>2, LenProperties
  <2>2. \A k \in TokenStarts' : k \in DOMAIN line'
    BY DEF TokenStarts, WordStarts, OperatorStarts
  <2>3. StartsUpTo(0)' = {}
    BY <2>1, <2>2 DEF StartsUpTo
  <2> QED
    BY <2>3, FS_EmptySet, EmptySeq DEF Right
<1>9. Scanning'
  <2>1. Right(tokens, Before)'
    BY <1>1, <1>2, <1>4, <1>8
  <2>2. ~IsLetter(Before)' /\ ~Second(at + 1)'
    BY <1>1, <1>4, <1>6, <1>7
  <2> QED
    BY <1>3, <1>4, <2>1, <2>2 DEF Scanning
<1> QED
  BY <1>1, <1>3, <1>9 DEF ScanInv

\* The lexer's loop is the only one to change what it has read.
LEMMA ScanSafety == Spec => []ScanInv
<1>1. Init => ScanInv
  <2> SUFFICES ASSUME Init PROVE ScanInv
    OBVIOUS
  <2>1. pc = "start" /\ Len(buf) = 0
    BY EmptySeq DEF Init, lexer_init
  <2>2. MaxWord \in Nat
    BY LexerAssumption
  <2>3. Len(buf) <= MaxWord
    BY <2>1, <2>2
  <2> QED
    BY <2>1, <2>3 DEF ScanInv
<1>2. LexInv /\ ScanInv /\ [Next]_vars => ScanInv'
  <2> SUFFICES ASSUME LexInv, ScanInv, [Next]_vars PROVE ScanInv'
    OBVIOUS
  <2>1. CASE Start
    <3>1. pc' \in {"start", "prompt", "crashed"} /\ buf' = buf
      BY <2>1 DEF Start, lexVars
    <3> QED
      BY <3>1 DEF ScanInv
  <2>2. ASSUME NEW l \in Typed[env], EnterLine(l) PROVE ScanInv'
    BY <2>2, LineBegins
  <2>3. CASE Tokenize
    BY <2>3, ScanStep DEF Tokenize
  <2>4. CASE BuildTree
    <3>1. pc' \notin {"scan", "scanned"} /\ buf' = buf
      BY <2>4, ParseShape DEF BuildTree, lexVars
    <3> QED
      BY <3>1 DEF ScanInv
  <2>5. CASE Execute
    <3>1. pc' \in {"parsed", "crashed"} /\ buf' = buf
      BY <2>5 DEF Execute, lexVars
    <3> QED
      BY <3>1 DEF ScanInv
  <2>6. CASE FinishLine
    <3>1. pc' = "prompt" /\ buf' = buf
      BY <2>6 DEF FinishLine
    <3> QED
      BY <3>1 DEF ScanInv
  <2>7. CASE UNCHANGED vars
    <3>1. /\ pc' = pc /\ line' = line /\ at' = at /\ buf' = buf /\ tokens' = tokens
      BY <2>7 DEF vars, lexVars
    <3>2. Before' = Before
      BY <3>1 DEF Before
    <3>3. Scanning' <=> Scanning
      <4>1. Right(tokens, Before)' <=> Right(tokens, Before)
        BY <3>1, <3>2, SameLine
      <4>2. IsLetter(Before)' <=> IsLetter(Before)
        BY <3>1, <3>2, SameLine
      <4>3. Second(at + 1)' <=> Second(at + 1)
        BY <3>1, SameLine
      <4> QED
        BY <3>1, <3>2, <4>1, <4>2, <4>3 DEF Scanning
    <3>4. TokensRight' <=> TokensRight
      BY <3>1, SameLine DEF TokensRight
    <3> QED
      BY <3>1, <3>3, <3>4 DEF ScanInv
  <2> QED
    BY <2>1, <2>2, <2>3, <2>4, <2>5, <2>6, <2>7 DEF Next
<1> QED
  BY <1>1, <1>2, Lexing, PTL DEF Spec

\* tokenize finds the tokens of every line, those of two characters from the
\* left, unless a word of MaxWord letters ends its loop.
THEOREM TokensAreRight == Spec => []TokensRight
<1>1. ScanInv => TokensRight
  BY DEF ScanInv, TokensRight
<1> QED
  BY <1>1, ScanSafety, PTL

-----------------------------------------------------------------------------
(* Where the words of commands come from.                                    *)

\* Token n begins at character k.
Source(n, k) ==
    /\ k \in TokenStarts /\ Cardinality(StartsUpTo(k)) = n
    /\ tokens[n].type = TokenAt(k).type
    /\ k \in WordStarts =>
          tokens[n].lexeme = SubSeq(line, k, k + Len(tokens[n].lexeme) - 1)

Sourced == \A n \in 1..Len(tokens) : \E k \in TokenStarts : Source(n, k)

\* A word ends where no letter follows.
LEMMA WordShape ==
    ASSUME line \in Seq(Chars), NEW k \in WordStarts
    PROVE  \E m \in k..Len(line) : Word(k) = SubSeq(line, k, m)
<1>1. DOMAIN line = 1..Len(line) /\ Len(line) \in Nat /\ k \in 1..Len(line) /\ IsLetter(k)
  BY StartShape DEF WordStarts
<1> DEFINE Ends == {m \in k..Len(line) : ~IsLetter(m + 1)}
<1>2. Len(line) \in Ends
  <2>1. Len(line) + 1 \notin DOMAIN line
    BY <1>1
  <2> QED
    BY <1>1, <2>1 DEF IsLetter
<1>3. PICK m \in Ends : \A j \in Ends : m <= j
  <2>1. IsFiniteSet(k..Len(line)) /\ Ends \subseteq k..Len(line)
    BY <1>1, FS_Interval
  <2>2. Ends \in SUBSET Nat /\ IsFiniteSet(Ends)
    BY <1>1, <2>1, FS_Subset
  <2> HIDE DEF Ends
  <2> QED
    BY <1>2, <2>2, Least
<1>4. ASSUME NEW q \in k..m PROVE IsLetter(q)
  <2>1. CASE q = k
    BY <1>1, <2>1
  <2>2. CASE q # k
    <3>1. q - 1 \in k..Len(line) /\ ~(m <= q - 1) /\ (q - 1) + 1 = q
      BY <1>1, <1>3, <2>2
    <3>2. q - 1 \notin Ends
      BY <1>3, <3>1
    <3> QED
      BY <3>1, <3>2
  <2> QED
    BY <2>1, <2>2
<1>5. m \in k..Len(line) /\ (\A q \in k..m : IsLetter(q)) /\ ~IsLetter(m + 1)
  BY <1>4
<1> QED
  BY <1>5 DEF Word

\* The types of the tokens and the characters they begin with.
LEMMA TypeAt ==
    ASSUME line \in Seq(Chars), NEW k \in TokenStarts
    PROVE  /\ k \in WordStarts <=> TokenAt(k).type = "WORD"
           /\ k \in WordStarts => TokenAt(k).lexeme = Word(k)
           /\ TokenAt(k).type \in ListOperators \cup {"|"} =>
                 k \notin WordStarts /\ line[k] \in {";", "&", "|"}
<1>1. CASE k \in WordStarts
  BY <1>1 DEF TokenAt, ListOperators
<1>2. CASE k \notin WordStarts
  <2>1. line[k] \in {";", "&", "|", ">", "<"}
    <3>1. k \in DOMAIN line /\ line[k] \notin Letters \cup {" "}
      BY <1>2 DEF TokenStarts, OperatorStarts
    <3>2. line[k] \in Chars
      BY <3>1, LenProperties, ElementOfSeq
    <3> QED
      BY <3>1, <3>2 DEF Chars
  <2>2. TokenAt(k).type = OperatorText(k)
    BY <1>2 DEF TokenAt
  <2>3. CASE k + 1 \in DOMAIN line /\ Second(k + 1)
    <3>1. line[k] \in Doubling
      <4>1. k \in Nat /\ k + 1 \in Nat /\ (k + 1) - 1 = k
        BY StartShape
      <4> QED
        BY <2>3, <4>1, SecondFollowsSame
    <3>2. OperatorText(k) = CASE line[k] = "&" -> "&&" [] line[k] = "|" -> "||"
                              [] line[k] = ">" -> ">>"
      BY <2>3, Zenon DEF OperatorText
    <3> QED
      BY <1>2, <2>2, <3>1, <3>2 DEF Doubling, ListOperators
  <2>4. CASE ~(k + 1 \in DOMAIN line /\ Second(k + 1))
    <3>1. OperatorText(k) = line[k]
      BY <2>4, Zenon DEF OperatorText
    <3> QED
      BY <1>2, <2>1, <2>2, <3>1 DEF ListOperators
  <2> QED
    BY <2>3, <2>4
<1> QED
  BY <1>1, <1>2

\* A token that is right has its source.
LEMMA RightSourced ==
    ASSUME line \in Seq(Chars), NEW n, NEW k \in TokenStarts,
           Cardinality(StartsUpTo(k)) = n, tokens[n] = TokenAt(k)
    PROVE  Source(n, k)
<1>1. ASSUME k \in WordStarts
      PROVE  tokens[n].lexeme = SubSeq(line, k, k + Len(tokens[n].lexeme) - 1)
  <2>1. PICK m \in k..Len(line) : Word(k) = SubSeq(line, k, m)
    BY <1>1, WordShape
  <2>2. k \in 1..Len(line) /\ Len(line) \in Nat
    BY StartShape
  <2>3. Len(SubSeq(line, k, m)) = m - k + 1
    BY <2>1, <2>2, SubSeqProperties
  <2>4. k + (m - k + 1) - 1 = m
    BY <2>1, <2>2
  <2>5. tokens[n].lexeme = SubSeq(line, k, m)
    BY <1>1, <2>1, TypeAt
  <2> QED
    BY <2>3, <2>4, <2>5
<1> QED
  BY <1>1 DEF Source

\* What the loop leaves when it ends, a word that was too long included.
LEMMA ScannedSourced ==
    ASSUME LexInv, Scanning, LineScanned
    PROVE  Sourced'
<1>1. /\ line \in Seq(Chars) /\ at \in Nat /\ Len(buf) \in Nat /\ tokens \in Seq(Tokens)
      /\ Before \in Nat /\ Before + Len(buf) = at /\ buf \in Seq(Letters)
      /\ DOMAIN line = 1..Len(line) /\ Len(line) \in Nat /\ at <= Len(line)
      /\ \A q \in 1..Len(buf) : buf[q] = line[Before + q]
  BY ScanShape DEF Scanning
<1>2. line' = line /\ tokens' = update_word
  BY DEF LineScanned
<1>3. /\ Len(tokens) = Cardinality(StartsUpTo(Before)) /\ Len(tokens) \in Nat
      /\ \A n \in 1..Len(tokens) :
            \E k \in TokenStarts : Cardinality(StartsUpTo(k)) = n /\ tokens[n] = TokenAt(k)
  BY <1>1 DEF Scanning, Right
<1>4. TokenStarts' = TokenStarts /\ WordStarts' = WordStarts
      /\ \A k : StartsUpTo(k)' = StartsUpTo(k) /\ TokenAt(k)' = TokenAt(k)
  BY <1>2, SameLine DEF StartsUpTo
<1>5. ASSUME NEW n \in 1..Len(tokens), tokens'[n] = tokens[n]
      PROVE  \E k \in TokenStarts : Source(n, k)'
  <2>1. PICK k \in TokenStarts : Cardinality(StartsUpTo(k)) = n /\ tokens[n] = TokenAt(k)
    BY <1>3
  <2>2. Source(n, k)
    BY <1>1, <2>1, RightSourced
  <2>3. Source(n, k)'
    BY <1>2, <1>4, <1>5, <2>2 DEF Source
  <2> QED
    BY <2>3
<1>6. CASE buf = <<>>
  <2>1. tokens' = tokens
    BY <1>2, <1>6 DEF update_word
  <2> QED
    BY <1>4, <1>5, <2>1 DEF Sourced
<1>7. CASE buf # <<>>
  <2> DEFINE word == [type |-> "WORD", lexeme |-> buf]
             b == Before + 1
  <2>1. tokens' = Append(tokens, word) /\ word \in Tokens
    BY <1>1, <1>2, <1>7 DEF update_word, Tokens
  <2>2. b \in WordStarts /\ b \in TokenStarts /\ b \in Nat /\ Before < b
    BY <1>1, <1>7, WordBegins DEF TokenStarts
  <2>3. word.type = "WORD" /\ word.lexeme = buf
    OBVIOUS
  <2> HIDE DEF word
  <2>4. /\ Len(tokens') = Len(tokens) + 1 /\ tokens'[Len(tokens) + 1] = word
        /\ \A n \in 1..Len(tokens) : tokens'[n] = tokens[n]
    BY <1>1, <2>1, AppendProperties
  <2>5. Cardinality(StartsUpTo(b)) = Len(tokens) + 1
    <3>1. StartsUpTo(b) = StartsUpTo(Before) \cup {b}
      <4>1. \A m \in TokenStarts : m \in Nat /\ (m <= b <=> m <= Before \/ m = b)
        BY <1>1, StartShape
      <4> HIDE DEF b
      <4> QED
        BY <2>2, <4>1 DEF StartsUpTo
    <3>2. b \notin StartsUpTo(Before)
      BY <1>1 DEF StartsUpTo
    <3> HIDE DEF b
    <3>3. IsFiniteSet(StartsUpTo(Before))
      BY <1>1, StartShape
    <3>4. Cardinality(StartsUpTo(Before) \cup {b}) = Cardinality(StartsUpTo(Before)) + 1
      BY <3>2, <3>3, FS_AddElement
    <3> QED
      BY <1>3, <3>1, <3>4
  <2>6. buf = SubSeq(line, b, b + Len(buf) - 1)
    <3> DEFINE s == SubSeq(line, b, b + Len(buf) - 1)
    <3>1. b + Len(buf) - 1 = at /\ b \in Int /\ b <= at
      BY <1>1, <1>7, EmptySeq
    <3>2. \A i \in b..at : line[i] \in Chars
      <4>1. \A i \in b..at : i \in 1..Len(line)
        BY <1>1, <3>1
      <4> QED
        BY <1>1, <4>1, ElementOfSeq
    <3>3. /\ SubSeq(line, b, at) \in Seq(Chars) /\ Len(SubSeq(line, b, at)) = at - b + 1
          /\ \A i \in 1..at - b + 1 : SubSeq(line, b, at)[i] = line[b + i - 1]
      BY <1>1, <3>1, <3>2, SubSeqProperties
    <3>4. s = SubSeq(line, b, at)
      BY <3>1
    <3>5. at - b + 1 = Len(buf) /\ \A i \in 1..Len(buf) : b + i - 1 = Before + i
      BY <1>1
    <3>6. s \in Seq(Chars) /\ Len(s) = Len(buf) /\ \A i \in 1..Len(buf) : s[i] = buf[i]
      BY <1>1, <3>3, <3>4, <3>5
    <3> HIDE DEF s
    <3>7. buf \in Seq(Chars)
      <4>1. \A i \in 1..Len(buf) : buf[i] \in Chars
        BY <1>1, ElementOfSeq DEF Chars
      <4> QED
        BY <1>1, <4>1, LenProperties, SeqDef
    <3>8. s = buf
      BY <3>6, <3>7, SeqEqual
    <3> QED
      BY <3>8 DEF s
  <2>7. TokenAt(b).type = "WORD"
    BY <1>1, <2>2, TypeAt
  <2> HIDE DEF b
  <2>8. PICK n : n = Len(tokens) + 1
    OBVIOUS
  <2>9. PICK k : k = b
    OBVIOUS
  <2>10. tokens'[n] = word
    BY <2>4, <2>8
  <2>11. /\ k \in TokenStarts' /\ Cardinality(StartsUpTo(k)') = n
         /\ tokens'[n].type = TokenAt(k)'.type
         /\ tokens'[n].lexeme = SubSeq(line', k, k + Len(tokens'[n].lexeme) - 1)
    BY <1>2, <1>4, <2>2, <2>3, <2>5, <2>6, <2>7, <2>8, <2>9, <2>10
  <2>12. Source(n, k)'
    BY <2>11 DEF Source
  <2>13. ASSUME NEW m \in 1..Len(tokens') PROVE \E j \in TokenStarts' : Source(m, j)'
    <3>1. CASE m \in 1..Len(tokens)
      <4>1. tokens'[m] = tokens[m]
        BY <2>4, <3>1
      <4> QED
        BY <1>4, <1>5, <3>1, <4>1
    <3>2. CASE m = n
      BY <2>11, <2>12, <3>2
    <3>3. Len(tokens') = Len(tokens) + 1 /\ Len(tokens) \in Nat
      BY <1>3, <2>4
    <3>4. m \in 1..Len(tokens) \/ m = n
      BY <2>8, <3>3
    <3> QED
      BY <3>1, <3>2, <3>4
  <2> QED
    BY <2>13 DEF Sourced
<1> QED
  BY <1>6, <1>7

\* No token is a word that is empty or longer than MaxWord.
Overlong(t) == t.type = "WORD" /\ Len(t.lexeme) \notin 1..MaxWord
Short(toks) == \A n \in 1..Len(toks) : ~Overlong(toks[n])

LEMMA ShortAppends ==
    ASSUME NEW toks \in Seq(Tokens), NEW t \in Tokens, Short(toks), ~Overlong(t)
    PROVE  Short(Append(toks, t))
<1> DEFINE more == Append(toks, t)
<1>1. /\ Len(toks) \in Nat /\ Len(more) = Len(toks) + 1
      /\ \A n \in 1..Len(toks) : more[n] = toks[n]
      /\ more[Len(toks) + 1] = t
  BY AppendProperties
<1> HIDE DEF more
<1>2. \A n \in 1..Len(more) : more[n] = t \/ n \in 1..Len(toks)
  BY <1>1
<1>3. Short(more)
  BY <1>1, <1>2 DEF Short
<1> QED
  BY <1>3 DEF more

LEMMA UpdatedShort ==
    ASSUME LexInv, Len(buf) <= MaxWord, Short(tokens)
    PROVE  Short(update_word)
<1>1. CASE buf = <<>>
  BY <1>1 DEF update_word
<1>2. CASE buf # <<>>
  <2> DEFINE word == [type |-> "WORD", lexeme |-> buf]
  <2>1. tokens \in Seq(Tokens) /\ buf \in Seq(Letters) /\ MaxWord \in Nat
    BY LexShape, LexerAssumption
  <2>2. word \in Tokens /\ word.lexeme = buf /\ update_word = Append(tokens, word)
    BY <1>2, <2>1 DEF Tokens, update_word
  <2>3. Len(buf) \in 1..MaxWord
    <3>1. Len(buf) \in Nat /\ Len(buf) # 0
      BY <1>2, <2>1, LenProperties, EmptySeq
    <3> QED
      BY <2>1, <3>1
  <2>4. ~Overlong(word)
    BY <2>2, <2>3 DEF Overlong
  <2> HIDE DEF word
  <2> QED
    BY <2>1, <2>2, <2>4, ShortAppends
<1> QED
  BY <1>1, <1>2

\* Once tokenize has returned, every token is from the line.
TextInv == Short(tokens) /\ (pc # "scan" => Sourced)

LEMMA ScanKeepsText ==
    ASSUME LexInv, ScanInv, TextInv, Scan
    PROVE  TextInv'
<1>1. /\ pc = "scan" /\ Scanning /\ Len(buf) <= MaxWord
      /\ Short(tokens) /\ Short(update_word) /\ update_word \in Seq(Tokens)
  <2>1. pc = "scan"
    BY DEF Scan, ReadBlank, ReadOperator, ReadLetter, LineScanned, Round
  <2>2. Scanning /\ Len(buf) <= MaxWord /\ Short(tokens)
    BY <2>1 DEF ScanInv, TextInv
  <2> QED
    BY <2>1, <2>2, UpdatedShort, UpdateWord
<1>2. CASE ReadBlank
  BY <1>1, <1>2 DEF ReadBlank, Round, TextInv
<1>3. CASE ReadOperator
  <2> DEFINE t == [type |-> Operator(at + 1), lexeme |-> NULL]
  <2>1. tokens' = Append(update_word, t) /\ AtOperator /\ Round
    BY <1>3 DEF ReadOperator, AtOperator
  <2>2. t \in Tokens
    BY <2>1, RoundShape, OperatorShape
  <2>3. ~Overlong(t)
    <3>1. t.lexeme = NULL /\ NULL \notin Seq(Letters)
      BY LexerAssumption
    <3> HIDE DEF t
    <3>2. t.type # "WORD"
      BY <2>2, <3>1 DEF Tokens
    <3> QED
      BY <3>2 DEF Overlong
  <2> HIDE DEF t
  <2>4. Short(tokens')
    BY <1>1, <2>1, <2>2, <2>3, ShortAppends
  <2>5. pc' = "scan"
    BY <1>1, <2>1 DEF Round
  <2> QED
    BY <2>4, <2>5 DEF TextInv
<1>4. CASE ReadLetter
  BY <1>1, <1>4 DEF ReadLetter, Round, TextInv
<1>5. CASE LineScanned
  <2>1. Short(tokens')
    BY <1>1, <1>5 DEF LineScanned
  <2>2. Sourced'
    BY <1>1, <1>5, ScannedSourced
  <2> QED
    BY <2>1, <2>2 DEF TextInv
<1> QED
  BY <1>2, <1>3, <1>4, <1>5 DEF Scan

LEMMA SameSources ==
    ASSUME line' = line, tokens' = tokens PROVE Sourced' <=> Sourced
<1>1. TokenStarts' = TokenStarts /\ WordStarts' = WordStarts
      /\ \A k : StartsUpTo(k)' = StartsUpTo(k) /\ TokenAt(k)' = TokenAt(k)
  BY SameLine DEF StartsUpTo
<1> QED
  BY <1>1 DEF Sourced, Source

LEMMA NoTokens == ASSUME tokens = <<>> PROVE Short(tokens) /\ Sourced
<1>1. 1..Len(tokens) = {}
  BY EmptySeq
<1> QED
  BY <1>1 DEF Short, Sourced

LEMMA Texts == Spec => []TextInv
<1>1. Init => TextInv
  BY NoTokens DEF Init, lexer_init, TextInv
<1>2. LexInv /\ LexInv' /\ ScanInv /\ TextInv /\ [Next]_vars => TextInv'
  <2> SUFFICES ASSUME LexInv, LexInv', ScanInv, TextInv, [Next]_vars PROVE TextInv'
    OBVIOUS
  <2>1. CASE pc # "scan" /\ line' = line /\ tokens' = tokens
    BY <2>1, SameSources DEF TextInv, Short
  <2>2. CASE tokens' = <<>>
    <3>1. 1..Len(tokens') = {}
      BY <2>2, EmptySeq
    <3> QED
      BY <3>1 DEF TextInv, Short, Sourced
  <2>3. CASE Start
    <3>1. pc = "start"
      BY <2>3 DEF Start
    <3> QED
      BY <2>2, <2>3, <3>1 DEF Start, lexVars, LexInv
  <2>4. ASSUME NEW l \in Typed[env], EnterLine(l) PROVE TextInv'
    <3>1. pc = "prompt" /\ tokens' = tokens
      BY <2>4 DEF EnterLine
    <3> QED
      BY <2>2, <3>1 DEF LexInv
  <2>5. CASE Tokenize
    BY <2>5, ScanKeepsText DEF Tokenize
  <2>6. CASE BuildTree
    <3>1. UNCHANGED lexVars /\ pc # "scan"
      BY <2>6, ParseShape DEF BuildTree
    <3> QED
      BY <2>1, <3>1 DEF lexVars
  <2>7. CASE Execute
    <3>1. UNCHANGED lexVars /\ pc # "scan"
      BY <2>7 DEF Execute
    <3> QED
      BY <2>1, <3>1 DEF lexVars
  <2>8. CASE FinishLine
    BY <2>2, <2>8 DEF FinishLine, free_tokens
  <2>9. CASE UNCHANGED vars
    <3>1. line' = line /\ tokens' = tokens /\ pc' = pc
      BY <2>9 DEF vars, lexVars
    <3> QED
      BY <3>1, SameSources DEF TextInv, Short
  <2> QED
    BY <2>3, <2>4, <2>5, <2>6, <2>7, <2>8, <2>9 DEF Next
<1> QED
  BY <1>1, <1>2, Lexing, ScanSafety, PTL DEF Spec

Blank(m) == line[m] = " "

\* Every character but a blank belongs to a token: to a word that began where its
\* letters did, or to an operator of one character or two.
LEMMA StartBefore ==
    ASSUME line \in Seq(Chars), NEW m \in 1..Len(line), ~Blank(m)
    PROVE  \E s \in TokenStarts :
              /\ s <= m
              /\ line[m] \in Letters => \A q \in s..m : line[q] \in Letters
              /\ line[m] \notin Letters => s = m \/ (s = m - 1 /\ line[s] = line[m])
<1>1. DOMAIN line = 1..Len(line) /\ Len(line) \in Nat /\ m \in Nat /\ m >= 1
  BY StartShape
<1>2. CASE line[m] \in Letters
  <2> DEFINE Runs == {s \in 1..m : \A q \in s..m : line[q] \in Letters}
  <2>1. m \in Runs
    <3>1. \A q \in m..m : q = m
      BY <1>1
    <3> QED
      BY <1>1, <1>2, <3>1
  <2>2. PICK s \in Runs : \A r \in Runs : s <= r
    <3>1. IsFiniteSet(1..m) /\ Runs \subseteq 1..m
      BY <1>1, FS_Interval
    <3>2. Runs \in SUBSET Nat /\ IsFiniteSet(Runs)
      BY <1>1, <3>1, FS_Subset
    <3> HIDE DEF Runs
    <3> QED
      BY <2>1, <3>2, Least
  <2>3. s \in 1..m /\ \A q \in s..m : line[q] \in Letters
    BY <2>2
  <2>4. ASSUME IsLetter(s - 1) PROVE FALSE
    <3>1. s - 1 \in 1..m /\ line[s - 1] \in Letters
      BY <1>1, <2>3, <2>4 DEF IsLetter
    <3>2. \A q \in s - 1..m : q = s - 1 \/ q \in s..m
      BY <1>1, <2>3
    <3>3. s - 1 \in Runs
      BY <2>3, <3>1, <3>2
    <3>4. ~(s <= s - 1)
      BY <1>1, <2>3
    <3> QED
      BY <2>2, <3>3, <3>4
  <2>5. s \in DOMAIN line /\ s \in s..m
    BY <1>1, <2>3
  <2>6. s \in TokenStarts
    BY <2>3, <2>4, <2>5 DEF TokenStarts, WordStarts, IsLetter
  <2> QED
    BY <1>2, <2>3, <2>6
<1>3. CASE line[m] \notin Letters
  <2>1. CASE ~Second(m)
    <3>1. m \in TokenStarts
      BY <1>1, <1>3, <2>1 DEF TokenStarts, OperatorStarts, Blank
    <3> QED
      BY <1>1, <1>3, <3>1
  <2>2. CASE Second(m)
    <3>1. m > 1 /\ line[m - 1] = line[m] /\ line[m] \in Doubling
      BY <1>1, <2>2, SecondFollowsSame
    <3>2. PICK s \in Nat \ {0} : s = m - 1
      BY <1>1, <3>1
    <3>3. m = s + 1 /\ line[s] = line[s + 1] /\ line[s] \in Doubling
      BY <1>1, <3>1, <3>2
    <3>4. ~Second(s)
      BY <2>2, <3>3, SecondAlternates
    <3>5. line[s] \notin Letters \cup {" "}
      BY <3>3, DoublingShape
    <3>6. s \in DOMAIN line
      BY <1>1, <3>1, <3>2
    <3>7. s \in TokenStarts
      BY <3>4, <3>5, <3>6 DEF TokenStarts, OperatorStarts
    <3>8. s <= m
      BY <1>1, <3>2
    <3> QED
      BY <1>3, <3>1, <3>2, <3>7, <3>8
  <2> QED
    BY <2>1, <2>2
<1> QED
  BY <1>2, <1>3

\* Starts are counted from left to right.
LEMMA StartsCounted ==
    ASSUME line \in Seq(Chars), NEW i \in TokenStarts, NEW j \in TokenStarts, i < j
    PROVE  /\ Cardinality(StartsUpTo(i)) < Cardinality(StartsUpTo(j))
           /\ Cardinality(StartsUpTo(i)) >= 1
<1>1. /\ IsFiniteSet(StartsUpTo(i)) /\ IsFiniteSet(StartsUpTo(j))
      /\ Cardinality(StartsUpTo(i)) \in Nat /\ Cardinality(StartsUpTo(j)) \in Nat
  BY StartShape
<1>2. \A m \in TokenStarts : m \in Nat
  BY StartShape
<1>3. /\ i \in StartsUpTo(i) /\ j \in StartsUpTo(j) /\ j \notin StartsUpTo(i)
      /\ StartsUpTo(i) \subseteq StartsUpTo(j)
  <2>1. i \in Nat /\ j \in Nat
    BY <1>2
  <2>2. \A m \in TokenStarts : m <= i => m <= j
    BY <1>2, <2>1
  <2>3. i <= i /\ j <= j /\ ~(j <= i)
    BY <2>1
  <2> QED
    BY <2>2, <2>3 DEF StartsUpTo
<1>4. Cardinality(StartsUpTo(i)) < Cardinality(StartsUpTo(j))
  <2>1. Cardinality(StartsUpTo(i)) <= Cardinality(StartsUpTo(j))
    BY <1>1, <1>3, FS_Subset
  <2>2. Cardinality(StartsUpTo(i)) # Cardinality(StartsUpTo(j))
    BY <1>1, <1>3, FS_Subset
  <2> QED
    BY <1>1, <2>1, <2>2
<1>5. Cardinality(StartsUpTo(i)) # 0
  BY <1>1, <1>3, FS_EmptySet
<1> QED
  BY <1>1, <1>4, <1>5

\* Token n may be the first word of a command, and word is one.
Ending == ListOperators \cup {"|"}
Leads(toks, n) == n = 1 \/ toks[n - 1].type \in Ending
IsWord(toks, n) == toks[n].type = "WORD"
Origin(toks, word) ==
    \E n \in 1..Len(toks) :
        IsWord(toks, n) /\ toks[n].lexeme = word /\ Leads(toks, n)

\* Character k is at the line's start or behind an operator that ends a command.
Stopper(m) == line[m] \in {";", "&", "|"}
AtCommand(k) == \A m \in 1..k - 1 :
                   (\A q \in m + 1..k - 1 : Blank(q)) => Blank(m) \/ Stopper(m)

LEMMA StopperShape ==
    ASSUME NEW m, Stopper(m) PROVE line[m] \notin Letters /\ ~Blank(m)
<1>1. line[m] \notin Letters
  BY LexerAssumption DEF Stopper
<1>2. ~Blank(m)
  BY DEF Stopper, Blank
<1> QED
  BY <1>1, <1>2

\* The first word of a command is a word of the line at the start of a command:
\* no token begins between it and the one before.
LEMMA OriginTyped ==
    ASSUME line \in Seq(Chars), Len(tokens) \in Nat, Sourced, NEW word, Origin(tokens, word)
    PROVE  \E k \in WordStarts :
              word = SubSeq(line, k, k + Len(word) - 1) /\ AtCommand(k)
<1>1. PICK n \in 1..Len(tokens) : IsWord(tokens, n) /\ tokens[n].lexeme = word /\ Leads(tokens, n)
  BY DEF Origin
<1>2. PICK k \in TokenStarts : Source(n, k)
  BY DEF Sourced
<1>3. Cardinality(StartsUpTo(k)) = n /\ n \in Nat /\ n >= 1
  BY <1>2 DEF Source
<1>4. k \in WordStarts /\ word = SubSeq(line, k, k + Len(word) - 1)
  <2>1. TokenAt(k).type = "WORD"
    BY <1>1, <1>2 DEF Source, IsWord
  <2>2. k \in WordStarts
    BY <2>1, TypeAt
  <2> QED
    BY <1>1, <1>2, <2>2 DEF Source
<1>5. TokenStarts \subseteq 1..Len(line) /\ Len(line) \in Nat /\ k \in 1..Len(line)
  BY StartShape
<1>6. ASSUME NEW m \in 1..k - 1, \A q \in m + 1..k - 1 : Blank(q), ~Blank(m), ~Stopper(m)
      PROVE  FALSE
  <2>1. m \in 1..Len(line) /\ m \in Nat /\ m < k
    BY <1>5
  <2>2. PICK s \in TokenStarts :
              /\ s <= m
              /\ line[m] \in Letters => \A q \in s..m : line[q] \in Letters
              /\ line[m] \notin Letters => s = m \/ (s = m - 1 /\ line[s] = line[m])
    BY <1>6, <2>1, StartBefore
  <2>3. s \in Nat /\ s < k
    BY <1>5, <2>1, <2>2
  <2>4. Cardinality(StartsUpTo(s)) < n /\ Cardinality(StartsUpTo(s)) >= 1
    BY <1>3, <2>3, StartsCounted
  <2>5. Cardinality(StartsUpTo(s)) \in Nat
    BY StartShape
  <2>6. n # 1 /\ n - 1 \in 1..Len(tokens)
    BY <1>3, <2>4, <2>5
  <2>7. PICK j \in TokenStarts : Source(n - 1, j)
    BY <2>6 DEF Sourced
  <2>8. Cardinality(StartsUpTo(j)) = n - 1 /\ j \in Nat /\ j \in 1..Len(line)
    BY <1>5, <2>7 DEF Source
  <2>9. Stopper(j)
    <3>1. tokens[n - 1].type \in ListOperators \cup {"|"}
      BY <1>1, <2>6 DEF Leads, Ending
    <3>2. TokenAt(j).type \in ListOperators \cup {"|"}
      BY <2>7, <3>1 DEF Source
    <3> QED
      BY <3>2, TypeAt DEF Stopper
  <2>10. ~(k <= j)
    <3>1. CASE k < j
      <4>1. n < n - 1
        BY <1>3, <2>8, <3>1, StartsCounted
      <4> QED
        BY <1>3, <4>1
    <3>2. CASE k = j
      BY <1>3, <2>8, <3>2
    <3> QED
      BY <1>5, <2>8, <3>1, <3>2
  <2>11. ~(j < s)
    <3>1. ASSUME j < s PROVE n - 1 < Cardinality(StartsUpTo(s))
      BY <2>8, <3>1, StartsCounted
    <3> QED
      BY <1>3, <2>4, <2>5, <3>1
  <2>12. ~(m < j)
    <3>1. ASSUME m < j PROVE j \in m + 1..k - 1
      BY <1>5, <2>1, <2>8, <2>10, <3>1
    <3> QED
      BY <1>6, <2>9, <3>1, StopperShape
  <2>13. m # j
    BY <1>6, <2>9
  <2>14. s <= j /\ j < m
    BY <2>1, <2>3, <2>8, <2>11, <2>12, <2>13
  <2>15. CASE line[m] \in Letters
    <3>1. j \in s..m
      BY <2>1, <2>3, <2>8, <2>14
    <3> QED
      BY <2>2, <2>9, <2>15, <3>1, StopperShape
  <2>16. CASE line[m] \notin Letters
    <3>1. s = j /\ line[s] = line[m]
      BY <2>1, <2>2, <2>3, <2>8, <2>14, <2>16
    <3> QED
      BY <1>6, <2>9, <3>1 DEF Stopper
  <2> QED
    BY <2>15, <2>16
<1>7. AtCommand(k)
  BY <1>6 DEF AtCommand
<1> QED
  BY <1>4, <1>7

-----------------------------------------------------------------------------
(* The words of a command.                                                   *)

\* An array of m words and a cell for the terminator, with argc words in it.
Words(array, m, c) ==
    /\ array \in [0..m -> Seq(Letters) \cup {NULL}]
    /\ c \in 0..m
    /\ \A k \in 0..m : array[k] = NULL <=> c <= k

ArgvInv ==
    /\ pos \in Nat
    /\ pc \in {"words", "redirections", "list", "parsed"} =>
          \E m \in Nat \ {0} : Words(argv, m, argc)

LEMMA NoWords ==
    ASSUME NEW m \in Nat PROVE Words(alloc_string_array(m), m, 0)
  BY DEF Words, alloc_string_array

\* Growing keeps the words and leaves room for more.
LEMMA Growing ==
    ASSUME NEW m \in Nat \ {0}, NEW array, NEW c, Words(array, m, c), c = m
    PROVE  Words(resize_string_array(array, 2 * m), 2 * m, c)
<1> DEFINE new == resize_string_array(array, 2 * m)
<1>1. DOMAIN alloc_string_array(2 * m) = 0..2 * m /\ DOMAIN array = 0..m
  BY DEF alloc_string_array, Words
<1>2. new = [k \in 0..2 * m |-> IF k \in 0..m /\ \A j \in 0..k : array[j] # NULL
                                THEN array[k] ELSE NULL]
  BY <1>1 DEF resize_string_array
<1>3. ASSUME NEW k \in 0..2 * m
      PROVE  /\ new[k] \in Seq(Letters) \cup {NULL}
             /\ new[k] = NULL <=> c <= k
  <2>1. CASE k < m
    <3>1. k \in 0..m /\ \A j \in 0..k : array[j] # NULL
      BY <2>1 DEF Words
    <3> QED
      BY <1>2, <2>1, <3>1 DEF Words
  <2>2. CASE ~(k < m)
    <3>1. ~(k \in 0..m /\ \A j \in 0..k : array[j] # NULL)
      BY <2>2 DEF Words
    <3> QED
      BY <1>2, <2>2, <3>1
  <2> QED
    BY <2>1, <2>2
<1> HIDE DEF new
<1>4. new \in [0..2 * m -> Seq(Letters) \cup {NULL}]
  BY <1>2, <1>3
<1>5. c \in 0..2 * m
  OBVIOUS
<1> QED
  BY <1>3, <1>4, <1>5 DEF Words, new

\* A word is stored where the terminator was.
LEMMA Storing ==
    ASSUME NEW m \in Nat, NEW array, NEW c, Words(array, m, c), c < m,
           NEW word \in Seq(Letters)
    PROVE  Words([array EXCEPT ![c] = word], m, c + 1)
<1>1. word # NULL
  BY LexerAssumption
<1> QED
  BY <1>1 DEF Words

LEMMA GetWordKeepsArgv ==
    ASSUME LexInv, ArgvInv, GetWord
    PROVE  ArgvInv'
<1>1. /\ pos \in Nat /\ pc = "words" /\ pos' = pos + 1 /\ argc' = argc + 1
      /\ peek_token(pos) = "WORD"
  BY DEF GetWord, ArgvInv
<1>2. PICK m \in Nat \ {0} : Words(argv, m, argc)
  BY <1>1 DEF ArgvInv
<1>3. Cardinality(DOMAIN argv) - 1 = m
  <2>1. DOMAIN argv = 0..m
    BY <1>2 DEF Words
  <2>2. Cardinality(0..m) = m + 1
    BY FS_Interval
  <2> QED
    BY <2>1, <2>2
<1>4. tokens[pos + 1].lexeme \in Seq(Letters)
  <2>1. pos + 1 \in 1..Len(tokens) /\ tokens[pos + 1].type = "WORD"
    BY <1>1, LexShape DEF peek_token
  <2>2. tokens[pos + 1] \in Tokens
    BY <2>1, LexShape, ElementOfSeq
  <2> QED
    BY <2>1, <2>2 DEF Tokens
<1> DEFINE room == IF argc = m THEN resize_string_array(argv, 2 * m) ELSE argv
<1>5. argv' = [room EXCEPT ![argc] = tokens[pos + 1].lexeme]
  BY <1>3 DEF GetWord
<1>6. \E k \in Nat \ {0} : Words(room, k, argc) /\ argc < k
  <2>1. CASE argc = m
    BY <1>2, <2>1, Growing
  <2>2. CASE argc # m
    BY <1>2, <2>2 DEF Words
  <2> QED
    BY <2>1, <2>2
<1> HIDE DEF room
<1>7. \E k \in Nat \ {0} : Words(argv', k, argc')
  BY <1>1, <1>4, <1>5, <1>6, Storing
<1> QED
  BY <1>1, <1>7 DEF ArgvInv

LEMMA StartCommandWords ==
    ASSUME StartCommand
    PROVE  \E m \in Nat \ {0} : Words(argv', m, argc')
  BY NoWords, ParserAssumption DEF StartCommand

LEMMA ParseKeepsArgv ==
    ASSUME LexInv, ArgvInv, Parse
    PROVE  ArgvInv'
<1>1. pos \in Nat
  BY DEF ArgvInv
<1>2. CASE StartParse
  BY <1>2, StartCommandWords DEF StartParse, StartPipeline, ArgvInv
<1>3. CASE GetWord
  BY <1>3, GetWordKeepsArgv
<1>4. CASE WordsEnd \/ PipelineEnds \/ ListEnds
  <2>1. /\ pc \in {"words", "redirections", "list"}
        /\ pos' = pos /\ argv' = argv /\ argc' = argc
    BY <1>4 DEF WordsEnd, PipelineEnds, ListEnds, parseVars
  <2> QED
    BY <2>1 DEF ArgvInv
<1>5. CASE ParseRedirection
  <2>1. /\ pc = "redirections" /\ argv' = argv /\ argc' = argc
        /\ pos' \in {pos + 1, pos + 2}
    BY <1>5 DEF ParseRedirection
  <2> QED
    BY <1>1, <2>1 DEF ArgvInv
<1>6. CASE NextCommand
  BY <1>1, <1>6, StartCommandWords DEF NextCommand, ArgvInv
<1>7. CASE ParseOperator
  <2>1. /\ pc = "list" /\ pos' = pos + 1
        /\ StartCommand \/ (argv' = argv /\ argc' = argc)
    BY <1>7 DEF ParseOperator, StartPipeline
  <2> QED
    BY <1>1, <2>1, StartCommandWords DEF ArgvInv
<1> QED
  BY <1>2, <1>3, <1>4, <1>5, <1>6, <1>7 DEF Parse

LEMMA Arrays == Spec => []ArgvInv
<1>1. Init => ArgvInv
  BY DEF Init, NoTree, ArgvInv
<1>2. LexInv /\ ArgvInv /\ [Next]_vars => ArgvInv'
  <2> SUFFICES ASSUME LexInv, ArgvInv, [Next]_vars PROVE ArgvInv'
    OBVIOUS
  <2>1. CASE BuildTree
    BY <2>1, ParseKeepsArgv DEF BuildTree
  <2>2. CASE FinishLine
    BY <2>2 DEF FinishLine, free_ast, ArgvInv
  <2>3. CASE Start
    BY <2>3 DEF Start, parseVars, ArgvInv
  <2>4. ASSUME NEW l \in Typed[env], EnterLine(l) PROVE ArgvInv'
    BY <2>4 DEF EnterLine, parseVars, ArgvInv
  <2>5. CASE Tokenize
    <3>1. pc' \in {"scan", "scanned"} /\ pos' = pos
      BY <2>5 DEF Tokenize, Scan, ReadBlank, ReadOperator, ReadLetter, Round,
                  LineScanned, parseVars
    <3> QED
      BY <3>1 DEF ArgvInv
  <2>6. CASE Execute
    <3>1. pc = "parsed" /\ UNCHANGED parseVars
      BY <2>6 DEF Execute
    <3> QED
      BY <3>1 DEF ArgvInv, parseVars
  <2>7. CASE UNCHANGED vars
    BY <2>7 DEF vars, parseVars, ArgvInv
  <2> QED
    BY <2>1, <2>2, <2>3, <2>4, <2>5, <2>6, <2>7 DEF Next
<1> QED
  BY <1>1, <1>2, Lexing, PTL DEF Spec

\* The array of a command has room for its words and a NULL behind them in every
\* state of the parser, however often it has grown, until it is executed.
THEOREM ArgvAlwaysTerminated == Spec => []ArgvTerminated
<1>1. ArgvInv => ArgvTerminated
  BY DEF ArgvInv, Words, ArgvTerminated
<1> QED
  BY <1>1, Arrays, PTL

-----------------------------------------------------------------------------
(* The first words of the commands of the tree.                              *)

Led(toks, word) == word = NULL \/ Origin(toks, word)

\* An array of commands has room for one behind its n first, which are led.
HasRoom(array, n) ==
    \E size \in Nat \ {0} : DOMAIN array = 0..size - 1 /\ n \in 0..size - 1
StoredLed(toks, array, n) == \A k \in 0..n - 1 : Led(toks, array[k].argv[0])
TreeLed(toks, t) ==
    /\ \E S : t \in Seq(S)
    /\ \A c \in Commands(t) : Led(toks, c.argv[0])

Parsing == pc \in {"words", "redirections", "list", "parsed"}
InPipeline == pc \in {"words", "redirections"}
AtFirstWord == pc = "words" /\ argc = 0

\* The first word of every command that the parser has made is the first word of
\* a command of the line.
LeadInv ==
    /\ Parsing => Led(tokens, argv[0]) /\ TreeLed(tokens, tree)
    /\ InPipeline => HasRoom(cmds, count) /\ StoredLed(tokens, cmds, count)
    /\ AtFirstWord => Leads(tokens, pos + 1)

LEMMA EmptyTree == \A toks : TreeLed(toks, <<>>)
<1>1. <<>> \in Seq({}) /\ Commands(<<>>) = {}
  BY EmptySeq DEF Commands
<1> QED
  BY <1>1 DEF TreeLed

\* A pipeline that is put behind the others.
LEMMA TreeGrows ==
    ASSUME NEW toks, NEW t, TreeLed(toks, t), NEW node,
           \A j \in DOMAIN node.right : Led(toks, node.right[j].argv[0])
    PROVE  TreeLed(toks, Append(t, node))
<1> DEFINE more == Append(t, node)
<1>1. PICK S : t \in Seq(S)
  BY DEF TreeLed
<1>2. t \in Seq(S \cup {node})
  <2>1. Len(t) \in Nat /\ t \in [1..Len(t) -> S]
    BY <1>1, LenProperties
  <2>2. t \in [1..Len(t) -> S \cup {node}]
    BY <2>1
  <2> QED
    BY <2>1, <2>2, SeqDef
<1>3. /\ more \in Seq(S \cup {node})
      /\ Len(t) \in Nat /\ Len(more) = Len(t) + 1
      /\ \A n \in 1..Len(t) : more[n] = t[n]
      /\ more[Len(t) + 1] = node
      /\ DOMAIN t = 1..Len(t) /\ DOMAIN more = 1..Len(more)
  <2>1. node \in S \cup {node}
    OBVIOUS
  <2>2. /\ more \in Seq(S \cup {node}) /\ Len(more) = Len(t) + 1
        /\ \A n \in 1..Len(t) : more[n] = t[n]
        /\ more[Len(t) + 1] = node
    BY <1>2, <2>1, AppendProperties
  <2> HIDE DEF more
  <2> QED
    BY <1>2, <2>2, LenProperties
<1> HIDE DEF more
<1>4. ASSUME NEW c \in Commands(more) PROVE Led(toks, c.argv[0])
  <2>1. PICK k \in DOMAIN more : \E j \in DOMAIN more[k].right : c = more[k].right[j]
    BY <1>4 DEF Commands, Range
  <2>2. k \in DOMAIN t \/ k = Len(t) + 1
    BY <1>3
  <2>3. CASE k \in DOMAIN t
    <3>1. more[k] = t[k]
      BY <1>3, <2>3
    <3>2. c \in Commands(t)
      BY <2>1, <2>3, <3>1 DEF Commands, Range
    <3> QED
      BY <3>2 DEF TreeLed
  <2>4. CASE k = Len(t) + 1
    BY <1>3, <2>1, <2>4
  <2> QED
    BY <2>2, <2>3, <2>4
<1>5. TreeLed(toks, more)
  BY <1>3, <1>4 DEF TreeLed
<1> QED
  BY <1>5 DEF more

\* A command is stored, and the array grows when it is full.
LEMMA CommandStored ==
    ASSUME NEW toks, NEW array, NEW n, HasRoom(array, n), StoredLed(toks, array, n),
           NEW c, Led(toks, c.argv[0])
    PROVE  LET stored == [array EXCEPT ![n] = c]
               size == Cardinality(DOMAIN array)
               grown == IF n + 1 = size THEN resize_cmd_array(stored, 2 * size)
                                        ELSE stored
           IN  /\ HasRoom(grown, n + 1) /\ StoredLed(toks, grown, n + 1)
               /\ n \in Nat /\ StoredLed(toks, stored, n + 1)
<1> DEFINE stored == [array EXCEPT ![n] = c]
           size == Cardinality(DOMAIN array)
           grown == IF n + 1 = size THEN resize_cmd_array(stored, 2 * size) ELSE stored
<1>1. PICK room \in Nat \ {0} : DOMAIN array = 0..room - 1 /\ n \in 0..room - 1
  BY DEF HasRoom
<1>2. size = room
  <2>1. Cardinality(0..room - 1) = (room - 1) - 0 + 1
    BY FS_Interval
  <2> QED
    BY <1>1, <2>1
<1>3. /\ DOMAIN stored = 0..room - 1 /\ stored[n] = c
      /\ \A k \in 0..n - 1 : stored[k] = array[k]
  BY <1>1
<1> HIDE DEF stored, size
<1>4. n \in Nat /\ \A k \in 0..(n + 1) - 1 : k = n \/ k \in 0..n - 1
  BY <1>1
<1>5. StoredLed(toks, stored, n + 1)
  BY <1>3, <1>4 DEF StoredLed
<1>6. HasRoom(grown, n + 1) /\ StoredLed(toks, grown, n + 1)
  <2>1. CASE n + 1 = size
    <3>1. grown = [k \in 0..2 * room - 1 |-> IF k \in DOMAIN stored THEN stored[k] ELSE NULL]
      BY <1>2, <2>1 DEF resize_cmd_array
    <3>2. \A k \in 0..(n + 1) - 1 : grown[k] = stored[k]
      BY <1>1, <1>3, <3>1
    <3>3. 2 * room \in Nat \ {0} /\ n + 1 \in 0..2 * room - 1
      BY <1>1, <1>2, <2>1
    <3>4. DOMAIN grown = 0..2 * room - 1
      BY <3>1
    <3> HIDE DEF grown
    <3> QED
      BY <1>5, <3>2, <3>3, <3>4 DEF HasRoom, StoredLed
  <2>2. CASE n + 1 # size
    <3>1. grown = stored /\ n + 1 \in 0..room - 1
      BY <1>1, <1>2, <2>2
    <3> QED
      BY <1>3, <1>5, <3>1 DEF HasRoom
  <2> QED
    BY <2>1, <2>2
<1> QED
  BY <1>4, <1>5, <1>6 DEF stored, size

LEMMA CommandBegins ==
    ASSUME StartCommand PROVE argc' = 0 /\ argv'[0] = NULL
<1>1. WordsAtFirst \in Nat /\ 0 \in 0..WordsAtFirst
  BY ParserAssumption
<1> QED
  BY <1>1 DEF StartCommand, alloc_string_array

LEMMA PipelineBegins ==
    ASSUME NEW operator, StartPipeline(operator)
    PROVE  /\ argc' = 0 /\ argv'[0] = NULL
           /\ HasRoom(cmds', count') /\ \A toks : StoredLed(toks, cmds', count')
<1>1. /\ cmds' = [k \in 0..CommandsAtFirst - 1 |-> NULL] /\ count' = 0
      /\ StartCommand
  BY DEF StartPipeline, alloc_cmd_array
<1>2. CommandsAtFirst \in Nat \ {0} /\ 0 \in 0..CommandsAtFirst - 1
  BY ParserAssumption
<1>3. HasRoom(cmds', count')
  BY <1>1, <1>2 DEF HasRoom
<1>4. \A toks : StoredLed(toks, cmds', count')
  BY <1>1 DEF StoredLed
<1> QED
  BY <1>1, <1>3, <1>4, CommandBegins

\* The next token is there.
AtEnd == peek_token(pos) = "END"

LEMMA PeekShape ==
    ASSUME LexInv, ArgvInv, ~AtEnd
    PROVE  /\ pos \in Nat /\ pos + 1 \in 1..Len(tokens)
           /\ tokens[pos + 1].type = peek_token(pos)
<1>1. pos \in Nat /\ Len(tokens) \in Nat
  BY LexShape DEF ArgvInv
<1>2. ~(pos >= Len(tokens))
  BY DEF peek_token, AtEnd
<1>3. tokens[pos + 1].type = peek_token(pos)
  BY <1>2 DEF peek_token
<1> QED
  BY <1>1, <1>2, <1>3

LEMMA EndingLeads ==
    ASSUME NEW toks, NEW n \in Nat, toks[n].type \in Ending
    PROVE  Leads(toks, n + 1)
  BY DEF Leads

LEMMA GetWordLed ==
    ASSUME LexInv, ArgvInv, LeadInv, GetWord
    PROVE  LeadInv'
<1>1. /\ InPipeline /\ Parsing /\ ~AtEnd /\ IsWord(tokens, pos + 1) /\ pc = "words"
      /\ pc' = "words" /\ argc' = argc + 1 /\ UNCHANGED <<cmds, count, tree, tokens>>
  <2>1. pc = "words" /\ peek_token(pos) = "WORD"
    BY DEF GetWord
  <2>2. ~AtEnd
    BY <2>1 DEF AtEnd
  <2> QED
    BY <2>1, <2>2, PeekShape DEF GetWord, lexVars, InPipeline, Parsing, IsWord
<1>2. PICK m \in Nat \ {0} : Words(argv, m, argc)
  BY <1>1 DEF ArgvInv, Parsing
<1>3. pos \in Nat /\ pos + 1 \in 1..Len(tokens)
  BY <1>1, PeekShape
<1>4. PICK room : /\ argv' = [room EXCEPT ![argc] = tokens[pos + 1].lexeme]
                  /\ \/ room = argv
                     \/ room = resize_string_array(argv, 2 * m)
  <2>1. DOMAIN argv = 0..m
    BY <1>2 DEF Words
  <2>2. Cardinality(0..m) = m - 0 + 1
    BY FS_Interval
  <2>3. Cardinality(DOMAIN argv) - 1 = m
    BY <2>1, <2>2
  <2> QED
    BY <2>3 DEF GetWord
<1>5. argc \in Nat /\ argc <= m /\ 0 \in DOMAIN room /\ (argc # 0 => room[0] = argv[0])
  <2>1. argc \in Nat /\ argc <= m /\ DOMAIN argv = 0..m
        /\ \A k \in 0..m : argv[k] = NULL <=> argc <= k
    BY <1>2 DEF Words
  <2>2. CASE room = argv
    BY <2>1, <2>2
  <2>3. CASE room = resize_string_array(argv, 2 * m)
    <3>1. room = [k \in 0..2 * m |-> IF k \in 0..m /\ \A j \in 0..k : argv[j] # NULL
                                     THEN argv[k] ELSE NULL]
      BY <2>1, <2>3 DEF resize_string_array, alloc_string_array
    <3>2. 0 \in 0..2 * m /\ 0 \in 0..m /\ \A j \in 0..0 : j = 0
      OBVIOUS
    <3>3. argc # 0 => argv[0] # NULL
      BY <2>1, <3>2
    <3> QED
      BY <2>1, <3>1, <3>2, <3>3
  <2> QED
    BY <1>4, <2>2, <2>3
<1>6. Led(tokens, argv'[0])
  <2>1. CASE argc = 0
    <3>1. argv'[0] = tokens[pos + 1].lexeme
      BY <1>4, <1>5, <2>1
    <3>2. Leads(tokens, pos + 1)
      BY <1>1, <2>1 DEF LeadInv, AtFirstWord
    <3> QED
      BY <1>1, <1>3, <3>1, <3>2 DEF Led, Origin
  <2>2. CASE argc # 0
    <3>1. argv'[0] = argv[0]
      BY <1>4, <1>5, <2>2
    <3> QED
      BY <1>1, <3>1 DEF LeadInv
  <2> QED
    BY <2>1, <2>2
<1>7. ~AtFirstWord'
  <2>1. argc' # 0
    BY <1>1, <1>5
  <2> QED
    BY <2>1 DEF AtFirstWord
<1> QED
  BY <1>1, <1>6, <1>7 DEF LeadInv

LEMMA ParseLeads ==
    ASSUME LexInv, ArgvInv, LeadInv, Parse
    PROVE  LeadInv'
<1>1. tokens' = tokens
  BY ParseShape DEF lexVars
<1>2. CASE StartParse
  <2>1. pos' = 0 /\ tree' = <<>> /\ StartPipeline(NULL)
    BY <1>2 DEF StartParse
  <2>2. Leads(tokens, pos' + 1)
    BY <2>1 DEF Leads
  <2> QED
    BY <1>1, <2>1, <2>2, PipelineBegins, EmptyTree DEF LeadInv, Led
<1>3. CASE GetWord
  BY <1>3, GetWordLed
<1>4. CASE WordsEnd
  <2>1. /\ pc = "words" /\ pc' = "redirections"
        /\ UNCHANGED <<argv, argc, cmds, count, tree>>
    BY <1>4 DEF WordsEnd, parseVars
  <2> QED
    BY <1>1, <2>1 DEF LeadInv, Parsing, InPipeline, AtFirstWord
<1>5. CASE ParseRedirection
  <2>1. /\ pc = "redirections" /\ pc' \in {"redirections", "crashed"}
        /\ UNCHANGED <<argv, argc, cmds, count, tree>>
    BY <1>5 DEF ParseRedirection
  <2> QED
    BY <1>1, <2>1 DEF LeadInv, Parsing, InPipeline, AtFirstWord
<1>6. CASE NextCommand
  <2>1. /\ pc = "redirections" /\ peek_token(pos) = "|" /\ pos' = pos + 1 /\ pc' = "words"
        /\ StartCommand /\ tree' = tree /\ count' = count + 1
        /\ cmds' = LET stored == [cmds EXCEPT ![count] = Command]
                       size == Cardinality(DOMAIN cmds)
                   IN  IF count + 1 = size THEN resize_cmd_array(stored, 2 * size)
                                           ELSE stored
    BY <1>6 DEF NextCommand
  <2>2. /\ Led(tokens, Command.argv[0]) /\ TreeLed(tokens, tree)
        /\ HasRoom(cmds, count) /\ StoredLed(tokens, cmds, count)
    BY <2>1 DEF LeadInv, Parsing, InPipeline, Command
  <2>3. HasRoom(cmds', count') /\ StoredLed(tokens, cmds', count')
    BY <2>1, <2>2, CommandStored
  <2>4. Leads(tokens, pos' + 1)
    <3>1. ~AtEnd /\ peek_token(pos) \in Ending
      BY <2>1 DEF AtEnd, Ending
    <3>2. pos \in Nat /\ tokens[pos + 1].type \in Ending
      BY <3>1, PeekShape
    <3>3. Leads(tokens, (pos + 1) + 1)
      BY <3>2, EndingLeads
    <3> QED
      BY <2>1, <3>3
  <2>5. Led(tokens, argv'[0])
    BY <2>1, CommandBegins DEF Led
  <2> QED
    BY <1>1, <2>1, <2>2, <2>3, <2>4, <2>5 DEF LeadInv
<1>7. CASE PipelineEnds
  <2> DEFINE stored == [cmds EXCEPT ![count] = Command]
             node == [op |-> op, right |-> Pipeline(stored, count + 1)]
  <2>1. /\ pc = "redirections" /\ pc' = "list" /\ argv' = argv
        /\ tree' = Append(tree, node)
    BY <1>7 DEF PipelineEnds
  <2>2. /\ Led(tokens, Command.argv[0]) /\ Led(tokens, argv[0]) /\ TreeLed(tokens, tree)
        /\ HasRoom(cmds, count) /\ StoredLed(tokens, cmds, count)
    BY <2>1 DEF LeadInv, Parsing, InPipeline, Command
  <2>3. count \in Nat /\ StoredLed(tokens, stored, count + 1)
    BY <2>2, CommandStored
  <2> HIDE DEF stored
  <2>4. ASSUME NEW j \in DOMAIN node.right PROVE Led(tokens, node.right[j].argv[0])
    <3>1. node.right = [k \in 1..count + 1 |-> stored[k - 1]]
      BY DEF Pipeline
    <3> HIDE DEF node
    <3>2. j \in 1..count + 1 /\ node.right[j] = stored[j - 1]
      BY <2>4, <3>1
    <3>3. j - 1 \in 0..(count + 1) - 1
      BY <2>3, <3>2
    <3> QED
      BY <2>3, <3>2, <3>3 DEF StoredLed
  <2> HIDE DEF node
  <2>5. TreeLed(tokens, tree')
    BY <2>1, <2>2, <2>4, TreeGrows
  <2>6. ~InPipeline' /\ ~AtFirstWord'
    BY <2>1 DEF InPipeline, AtFirstWord
  <2> QED
    BY <1>1, <2>1, <2>2, <2>5, <2>6 DEF LeadInv
<1>8. CASE ParseOperator
  <2>1. /\ pc = "list" /\ peek_token(pos) \in ListOperators /\ pos' = pos + 1
        /\ \/ /\ tree' = Append(tree, [op |-> peek_token(pos), right |-> <<>>])
              /\ pc' = pc /\ argv' = argv
           \/ StartPipeline(peek_token(pos)) /\ tree' = tree
    BY <1>8 DEF ParseOperator
  <2>2. Led(tokens, argv[0]) /\ TreeLed(tokens, tree)
    BY <2>1 DEF LeadInv, Parsing
  <2>3. CASE StartPipeline(peek_token(pos)) /\ tree' = tree
    <3>1. ~AtEnd /\ peek_token(pos) \in Ending
      BY <2>1 DEF AtEnd, Ending, ListOperators
    <3>2. pos \in Nat /\ tokens[pos + 1].type \in Ending
      BY <3>1, PeekShape
    <3>3. Leads(tokens, (pos + 1) + 1)
      BY <3>2, EndingLeads
    <3>4. Leads(tokens, pos' + 1)
      BY <2>1, <3>3
    <3> QED
      BY <1>1, <2>2, <2>3, <3>4, PipelineBegins DEF LeadInv, Led
  <2>4. CASE /\ tree' = Append(tree, [op |-> peek_token(pos), right |-> <<>>])
             /\ pc' = pc /\ argv' = argv
    <3> DEFINE node == [op |-> peek_token(pos), right |-> <<>>]
    <3>1. tree' = Append(tree, node) /\ DOMAIN node.right = {}
      BY <2>4
    <3> HIDE DEF node
    <3>2. TreeLed(tokens, tree')
      BY <2>2, <3>1, TreeGrows
    <3>3. ~InPipeline' /\ ~AtFirstWord'
      BY <2>1, <2>4 DEF InPipeline, AtFirstWord
    <3> QED
      BY <1>1, <2>2, <2>4, <3>2, <3>3 DEF LeadInv
  <2> QED
    BY <2>1, <2>3, <2>4
<1>9. CASE ListEnds
  <2>1. /\ pc = "list" /\ pc' = "parsed" /\ UNCHANGED <<argv, tree>>
    BY <1>9 DEF ListEnds, parseVars
  <2> QED
    BY <1>1, <2>1 DEF LeadInv, Parsing, InPipeline, AtFirstWord
<1> QED
  BY <1>2, <1>3, <1>4, <1>5, <1>6, <1>7, <1>8, <1>9 DEF Parse

LEMMA Leading == Spec => []LeadInv
<1>1. Init => LeadInv
  BY DEF Init, LeadInv, Parsing, InPipeline, AtFirstWord
<1>2. LexInv /\ ArgvInv /\ LeadInv /\ [Next]_vars => LeadInv'
  <2> SUFFICES ASSUME LexInv, ArgvInv, LeadInv, [Next]_vars PROVE LeadInv'
    OBVIOUS
  <2>1. CASE ~Parsing' /\ ~InPipeline' /\ ~AtFirstWord'
    BY <2>1 DEF LeadInv
  <2>2. CASE pc' \in {"start", "prompt", "scan", "scanned", "crashed"}
    BY <2>1, <2>2 DEF Parsing, InPipeline, AtFirstWord
  <2>3. CASE Start
    BY <2>2, <2>3 DEF Start
  <2>4. ASSUME NEW l \in Typed[env], EnterLine(l) PROVE LeadInv'
    BY <2>2, <2>4 DEF EnterLine
  <2>5. CASE Tokenize
    <3>1. pc' \in {"scan", "scanned"}
      BY <2>5 DEF Tokenize, Scan, ReadBlank, ReadOperator, ReadLetter, Round, LineScanned
    <3> QED
      BY <2>2, <3>1
  <2>6. CASE BuildTree
    BY <2>6, ParseLeads DEF BuildTree
  <2>7. CASE Execute
    <3>1. /\ pc = "parsed" /\ pc' \in {"parsed", "crashed"}
          /\ UNCHANGED <<argv, tree, tokens>>
      BY <2>7 DEF Execute, lexVars, parseVars
    <3> QED
      BY <3>1 DEF LeadInv, Parsing, InPipeline, AtFirstWord
  <2>8. CASE FinishLine
    BY <2>2, <2>8 DEF FinishLine
  <2>9. CASE UNCHANGED vars
    <3>1. UNCHANGED <<pc, tokens, pos, argv, argc, cmds, count, tree>>
      BY <2>9 DEF vars, lexVars, parseVars
    <3> QED
      BY <3>1 DEF LeadInv, Parsing, InPipeline, AtFirstWord
  <2> QED
    BY <2>3, <2>4, <2>5, <2>6, <2>7, <2>8, <2>9 DEF Next
<1> QED
  BY <1>1, <1>2, Lexing, Arrays, PTL DEF Spec

-----------------------------------------------------------------------------
(* Sequences of texts that are joined.                                       *)

\* A text is a sequence of tokens.
Text == Seq(Tokens)

LEMMA NoTexts ==
    ASSUME NEW s \in [1..0 -> Text]
    PROVE  FlattenSeq(s) = <<>>
<1>1. 0 \in Nat /\ 0 = 0
  OBVIOUS
<1>2. s \in [1..0 -> Seq(Tokens)]
  BY DEF Text
<1> QED
  BY ONLY <1>1, <1>2, Joining

LEMMA TextsJoined ==
    ASSUME NEW n \in Nat, NEW s \in [1..n -> Text], NEW t \in [1..n + 1 -> Text],
           \A i \in 1..n : t[i] = s[i]
    PROVE  /\ FlattenSeq(t) = FlattenSeq(s) \o t[n + 1]
           /\ FlattenSeq(s) \in Text /\ FlattenSeq(t) \in Text
<1>1. s \in Pieces(Tokens, n) /\ t \in Pieces(Tokens, n + 1)
  BY DEF Pieces, Text
<1> QED
  BY <1>1, JoinedGrows DEF Text

-----------------------------------------------------------------------------
(* The text of a command.                                                    *)

WordsText(array, n) == [k \in 1..n |-> WordToken(array[k - 1])]
FileText(r) == << [type |-> r.type, lexeme |-> NULL], WordToken(r.filename) >>
FilesText(list) == FlattenSeq([k \in DOMAIN list |-> FileText(list[k])])

Files == [type: Redirections, filename: Seq(Letters)]

LEMMA CommandText ==
    ASSUME NEW c PROVE SpellCommand(c) = WordsText(c.argv, c.argc) \o FilesText(c.redir)
  BY DEF SpellCommand, WordsText, FilesText, FileText

LEMMA SignText ==
    /\ \A n : WordToken(n).type = "WORD" /\ WordToken(n).lexeme = n
    /\ \A w \in Seq(Letters) : WordToken(w) \in Tokens /\ <<WordToken(w)>> \in Text
    /\ \A type \in TokenTypes \ {"WORD"} :
          /\ [type |-> type, lexeme |-> NULL] \in Tokens
          /\ type # NULL
          /\ Sign(type) = << [type |-> type, lexeme |-> NULL] >> /\ Sign(type) \in Text
    /\ Sign(NULL) = <<>> /\ <<>> \in Text
<1>1. \A n : WordToken(n).type = "WORD" /\ WordToken(n).lexeme = n
  BY DEF WordToken
<1>2. \A w \in Seq(Letters) : WordToken(w) \in Tokens
  BY DEF WordToken, Tokens
<1>3. \A x \in Tokens : <<x>> \in Text
  BY DEF Text
<1>4. ASSUME NEW type \in TokenTypes \ {"WORD"}
      PROVE  /\ [type |-> type, lexeme |-> NULL] \in Tokens
             /\ type # NULL
             /\ Sign(type) = << [type |-> type, lexeme |-> NULL] >> /\ Sign(type) \in Text
  <2>1. [type |-> type, lexeme |-> NULL] \in Tokens
    BY DEF Tokens
  <2>2. type # NULL
    BY ParserAssumption
  <2>3. Sign(type) = << [type |-> type, lexeme |-> NULL] >>
    BY <2>2 DEF Sign
  <2> QED
    BY <1>3, <2>1, <2>2, <2>3
<1>5. Sign(NULL) = <<>> /\ <<>> \in Text
  BY EmptySeq DEF Sign, Text
<1> QED
  BY <1>1, <1>2, <1>3, <1>4, <1>5

LEMMA WordsTextShape ==
    ASSUME NEW array, NEW n \in Nat, \A k \in 0..n - 1 : array[k] \in Seq(Letters)
    PROVE  WordsText(array, n) \in [1..n -> Tokens] /\ WordsText(array, n) \in Text
           /\ Len(WordsText(array, n)) = n
<1>1. ASSUME NEW k \in 1..n PROVE WordToken(array[k - 1]) \in Tokens
  <2>1. k - 1 \in 0..n - 1
    OBVIOUS
  <2> QED
    BY <2>1, SignText
<1>2. WordsText(array, n) \in [1..n -> Tokens]
  BY <1>1 DEF WordsText
<1>3. WordsText(array, n) \in Text
  BY <1>2, SeqDef DEF Text
<1>4. Len(WordsText(array, n)) = n
  BY DEF WordsText
<1> QED
  BY <1>2, <1>3, <1>4

\* One more word.
LEMMA WordsTextGrows ==
    ASSUME NEW array, NEW n \in Nat, \A k \in 0..n - 1 : array[k] \in Seq(Letters),
           NEW more, \A k \in 0..n - 1 : more[k] = array[k], more[n] \in Seq(Letters)
    PROVE  WordsText(more, n + 1) = WordsText(array, n) \o <<WordToken(more[n])>>
<1> DEFINE old == WordsText(array, n)
           end == <<WordToken(more[n])>>
           new == WordsText(more, n + 1)
<1>1. old \in Text /\ Len(old) = n /\ \A k \in 1..n : old[k] = WordToken(array[k - 1])
  BY WordsTextShape DEF WordsText
<1>2. end \in Text /\ Len(end) = 1 /\ end[1] = WordToken(more[n])
  BY SignText
<1>3. new \in Text /\ Len(new) = n + 1
      /\ \A k \in 1..n + 1 : new[k] = WordToken(more[k - 1])
  <2>1. ASSUME NEW k \in 0..(n + 1) - 1 PROVE more[k] \in Seq(Letters)
    <3>1. k \in 0..n - 1 \/ k = n
      OBVIOUS
    <3> QED
      BY <3>1
  <2>2. n + 1 \in Nat
    OBVIOUS
  <2> QED
    BY <2>1, <2>2, WordsTextShape DEF WordsText
<1> HIDE DEF old, end, new
<1>4. /\ old \o end \in Text /\ Len(old \o end) = n + 1
      /\ \A k \in 1..n + 1 : (old \o end)[k] = IF k <= n THEN old[k] ELSE end[k - n]
  <2>1. /\ old \o end \in Text /\ Len(old \o end) = Len(old) + Len(end)
        /\ \A k \in 1..Len(old) + Len(end) :
              (old \o end)[k] = IF k <= Len(old) THEN old[k] ELSE end[k - Len(old)]
    BY <1>1, <1>2, ConcatProperties DEF Text
  <2> QED
    BY <1>1, <1>2, <2>1
<1>5. ASSUME NEW k \in 1..n + 1 PROVE new[k] = (old \o end)[k]
  <2>1. CASE k <= n
    <3>1. k - 1 \in 0..n - 1 /\ k \in 1..n
      BY <2>1
    <3> QED
      BY <1>1, <1>3, <1>4, <2>1, <3>1
  <2>2. CASE ~(k <= n)
    <3>1. k - 1 = n /\ k - n = 1
      BY <2>2
    <3> QED
      BY <1>2, <1>3, <1>4, <2>2, <3>1
  <2> QED
    BY <2>1, <2>2
<1>6. new = old \o end
  BY <1>3, <1>4, <1>5, SeqEqual DEF Text
<1> QED
  BY <1>6 DEF old, end, new

LEMMA FileTextShape ==
    ASSUME NEW r \in Files
    PROVE  /\ FileText(r) \in Text
           /\ FileText(r) = << [type |-> r.type, lexeme |-> NULL] >> \o <<WordToken(r.filename)>>
           /\ << [type |-> r.type, lexeme |-> NULL] >> \in Text /\ <<WordToken(r.filename)>> \in Text
<1>1. r.type \in TokenTypes \ {"WORD"} /\ r.filename \in Seq(Letters)
  BY DEF Files, TokenTypes, Redirections
<1> DEFINE x == [type |-> r.type, lexeme |-> NULL]
           y == WordToken(r.filename)
<1>2. x \in Tokens /\ y \in Tokens
  BY <1>1, SignText
<1> HIDE DEF x, y
<1>3. <<x, y>> \in Text /\ <<x>> \in Text /\ <<y>> \in Text
  BY <1>2 DEF Text
<1>4. <<x, y>> = <<x>> \o <<y>>
  <2>1. /\ <<x>> \o <<y>> \in Text /\ Len(<<x>> \o <<y>>) = Len(<<x>>) + Len(<<y>>)
        /\ \A i \in 1..Len(<<x>>) + Len(<<y>>) : (<<x>> \o <<y>>)[i] =
               IF i <= Len(<<x>>) THEN <<x>>[i] ELSE <<y>>[i - Len(<<x>>)]
    BY <1>3, ConcatProperties DEF Text
  <2>2. Len(<<x>>) = 1 /\ Len(<<y>>) = 1 /\ Len(<<x, y>>) = 2
    OBVIOUS
  <2> DEFINE z == <<x>> \o <<y>>
  <2>3. z \in Text /\ Len(z) = 2 /\ z[1] = x /\ z[2] = y
    BY <2>1, <2>2
  <2> HIDE DEF z
  <2>4. \A i \in 1..2 : <<x, y>>[i] = z[i]
    BY <2>3
  <2>5. <<x, y>> = z
    BY <1>3, <2>2, <2>3, <2>4, SeqEqual DEF Text
  <2> QED
    BY <2>5 DEF z
<1> QED
  BY <1>3, <1>4 DEF x, y, FileText

\* One more redirection.
LEMMA FilesTextGrows ==
    ASSUME NEW list \in Seq(Files), NEW r \in Files
    PROVE  /\ FilesText(list) \in Text
           /\ FilesText(Append(list, r)) = FilesText(list) \o FileText(r)
           /\ Append(list, r) \in Seq(Files)
<1> DEFINE n == Len(list)
           more == Append(list, r)
<1>1. n \in Nat /\ DOMAIN list = 1..n /\ \A k \in 1..n : list[k] \in Files
  BY LenProperties
<1>2. more \in Seq(Files) /\ DOMAIN more = 1..n + 1 /\ more[n + 1] = r
      /\ \A k \in 1..n : more[k] = list[k]
  <2>1. /\ more \in Seq(Files) /\ Len(more) = n + 1
        /\ \A k \in 1..n : more[k] = list[k]
        /\ more[n + 1] = r
    BY AppendProperties
  <2> HIDE DEF more, n
  <2> QED
    BY <2>1, LenProperties
<1> HIDE DEF more, n
<1> DEFINE s == [k \in 1..n |-> FileText(list[k])]
           t == [k \in 1..n + 1 |-> FileText(more[k])]
<1>3. s \in [1..n -> Text]
  <2>1. \A k \in 1..n : FileText(list[k]) \in Text
    BY <1>1, FileTextShape
  <2> QED
    BY <2>1
<1>4. t \in [1..n + 1 -> Text]
  <2>1. ASSUME NEW k \in 1..n + 1 PROVE FileText(more[k]) \in Text
    <3>1. k \in 1..n \/ k = n + 1
      BY <1>1
    <3>2. more[k] \in Files
      BY <1>1, <1>2, <3>1
    <3> QED
      BY <3>2, FileTextShape
  <2> QED
    BY <2>1
<1>5. \A k \in 1..n : t[k] = s[k]
  BY <1>1, <1>2
<1>6. t[n + 1] = FileText(r)
  BY <1>1, <1>2
<1>7. FilesText(list) = FlattenSeq(s) /\ FilesText(more) = FlattenSeq(t)
  BY <1>1, <1>2 DEF FilesText
<1> HIDE DEF s, t
<1>8. /\ FlattenSeq(t) = FlattenSeq(s) \o t[n + 1]
      /\ FlattenSeq(s) \in Text
  BY <1>1, <1>3, <1>4, <1>5, TextsJoined
<1>9. /\ FilesText(more) = FilesText(list) \o FileText(r) /\ FilesText(list) \in Text
  BY <1>6, <1>7, <1>8
<1> QED
  BY <1>2, <1>9 DEF more

LEMMA NoFiles == FilesText(<<>>) = <<>> /\ <<>> \in Seq(Files)
<1>1. [k \in DOMAIN <<>> |-> FileText(<<>>[k])] = <<>>
  OBVIOUS
<1>2. FlattenSeq(<<>>) = <<>>
  BY EmptySeq DEF FlattenSeq
<1> QED
  BY <1>1, <1>2, EmptySeq DEF FilesText

-----------------------------------------------------------------------------
(* The text of a pipeline and of the tree.                                   *)

Bar(n) == Sign(IF n = 0 THEN NULL ELSE "|")

\* The n first commands of an array, and a tree.
StoredText(array, n) == FlattenSeq([k \in 1..n |-> Bar(k - 1) \o SpellCommand(array[k - 1])])
NodeText(node) == Sign(node.op) \o SpellPipeline(node.right)
TreeText(t) == FlattenSeq([k \in DOMAIN t |-> NodeText(t[k])])

LEMMA SpellingIsText == Spelling = TreeText(tree)
  BY DEF Spelling, TreeText, NodeText

LEMMA BarText == \A n : Bar(n) \in Text
<1>1. "|" \in TokenTypes \ {"WORD"}
  BY DEF TokenTypes
<1> QED
  BY <1>1, SignText DEF Bar

StoredSpelt(array, n) == \A k \in 0..n - 1 : SpellCommand(array[k]) \in Text

LEMMA StoredTextGrows ==
    ASSUME NEW n \in Nat, NEW array, StoredSpelt(array, n),
           NEW more, \A k \in 0..n - 1 : more[k] = array[k],
           SpellCommand(more[n]) \in Text
    PROVE  /\ StoredText(more, n + 1)
                  = StoredText(array, n) \o (Bar(n) \o SpellCommand(more[n]))
           /\ StoredText(array, n) \in Text
           /\ StoredSpelt(more, n + 1)
<1> DEFINE s == [k \in 1..n |-> Bar(k - 1) \o SpellCommand(array[k - 1])]
           t == [k \in 1..n + 1 |-> Bar(k - 1) \o SpellCommand(more[k - 1])]
<1>1. s \in [1..n -> Text]
  <2>1. ASSUME NEW k \in 1..n PROVE Bar(k - 1) \o SpellCommand(array[k - 1]) \in Text
    <3>1. k - 1 \in 0..n - 1
      OBVIOUS
    <3>2. SpellCommand(array[k - 1]) \in Text /\ Bar(k - 1) \in Text
      BY <3>1, BarText DEF StoredSpelt
    <3> QED
      BY <3>2, ConcatProperties DEF Text
  <2> QED
    BY <2>1
<1>2. StoredSpelt(more, n + 1)
  <2>1. ASSUME NEW k \in 0..(n + 1) - 1 PROVE SpellCommand(more[k]) \in Text
    <3>1. k \in 0..n - 1 \/ k = n
      OBVIOUS
    <3> QED
      BY <3>1 DEF StoredSpelt
  <2> QED
    BY <2>1 DEF StoredSpelt
<1>3. t \in [1..n + 1 -> Text]
  <2>1. ASSUME NEW k \in 1..n + 1 PROVE Bar(k - 1) \o SpellCommand(more[k - 1]) \in Text
    <3>1. k - 1 \in 0..(n + 1) - 1
      OBVIOUS
    <3>2. SpellCommand(more[k - 1]) \in Text /\ Bar(k - 1) \in Text
      BY <1>2, <3>1, BarText DEF StoredSpelt
    <3> QED
      BY <3>2, ConcatProperties DEF Text
  <2> QED
    BY <2>1
<1>4. \A k \in 1..n : t[k] = s[k]
  <2>1. ASSUME NEW k \in 1..n PROVE more[k - 1] = array[k - 1] /\ k \in 1..n + 1
    OBVIOUS
  <2> QED
    BY <2>1
<1>5. t[n + 1] = Bar(n) \o SpellCommand(more[n])
  <2>1. n + 1 \in 1..n + 1 /\ (n + 1) - 1 = n
    OBVIOUS
  <2> QED
    BY <2>1
<1>6. StoredText(array, n) = FlattenSeq(s) /\ StoredText(more, n + 1) = FlattenSeq(t)
  BY DEF StoredText
<1> HIDE DEF s, t
<1>7. /\ FlattenSeq(t) = FlattenSeq(s) \o t[n + 1]
      /\ FlattenSeq(s) \in Text
  BY <1>1, <1>3, <1>4, TextsJoined
<1> QED
  BY <1>2, <1>5, <1>6, <1>7

LEMMA StoredTextEmpty == \A array : StoredText(array, 0) = <<>> /\ StoredSpelt(array, 0)
<1> TAKE array
<1> DEFINE s == [k \in 1..0 |-> Bar(k - 1) \o SpellCommand(array[k - 1])]
<1>1. s \in [1..0 -> Text]
  OBVIOUS
<1>2. StoredText(array, 0) = FlattenSeq(s)
  BY DEF StoredText
<1> HIDE DEF s
<1>3. FlattenSeq(s) = <<>>
  BY <1>1, NoTexts
<1> QED
  BY <1>2, <1>3 DEF StoredSpelt

\* What is in the array is in the pipeline that is made of it.
LEMMA PipelineText ==
    ASSUME NEW array, NEW n \in Nat
    PROVE  SpellPipeline(Pipeline(array, n)) = StoredText(array, n)
<1>1. /\ DOMAIN Pipeline(array, n) = 1..n
      /\ \A k \in 1..n : Pipeline(array, n)[k] = array[k - 1]
  BY DEF Pipeline
<1> DEFINE s == [k \in DOMAIN Pipeline(array, n) |->
                    Sign(IF k = 1 THEN NULL ELSE "|") \o SpellCommand(Pipeline(array, n)[k])]
           t == [k \in 1..n |-> Bar(k - 1) \o SpellCommand(array[k - 1])]
<1>2. ASSUME NEW k \in 1..n
      PROVE  Sign(IF k = 1 THEN NULL ELSE "|") = Bar(k - 1)
  <2>1. k = 1 <=> k - 1 = 0
    OBVIOUS
  <2> QED
    BY <2>1, Zenon DEF Bar
<1>3. s = t
  <2>1. s = [k \in 1..n |-> Sign(IF k = 1 THEN NULL ELSE "|")
                                \o SpellCommand(Pipeline(array, n)[k])]
    BY <1>1, Zenon
  <2> QED
    BY <1>1, <1>2, <2>1
<1>4. SpellPipeline(Pipeline(array, n)) = FlattenSeq(s)
  BY DEF SpellPipeline
<1>5. StoredText(array, n) = FlattenSeq(t)
  BY DEF StoredText
<1> QED
  BY <1>3, <1>4, <1>5

\* A tree of nodes that have a text.
TreeSpelt(t) == /\ \E S : t \in Seq(S)
                /\ \A k \in DOMAIN t : NodeText(t[k]) \in Text

LEMMA TreeTextGrows ==
    ASSUME NEW t, TreeSpelt(t), NEW node, NodeText(node) \in Text
    PROVE  /\ TreeText(Append(t, node)) = TreeText(t) \o NodeText(node)
           /\ TreeText(t) \in Text
           /\ TreeSpelt(Append(t, node))
<1> DEFINE n == Len(t)
           more == Append(t, node)
<1>1. PICK S : t \in Seq(S)
  BY DEF TreeSpelt
<1>2. t \in Seq(S \cup {node})
  <2>1. S \subseteq S \cup {node}
    OBVIOUS
  <2> QED
    BY <1>1, <2>1, SeqMonotonic
<1>3. n \in Nat /\ DOMAIN t = 1..n
  BY <1>1, LenProperties
<1>4. more \in Seq(S \cup {node}) /\ DOMAIN more = 1..n + 1 /\ more[n + 1] = node
      /\ \A k \in 1..n : more[k] = t[k]
  <2>1. node \in S \cup {node}
    OBVIOUS
  <2>2. /\ more \in Seq(S \cup {node}) /\ Len(more) = n + 1
        /\ \A k \in 1..n : more[k] = t[k]
        /\ more[n + 1] = node
    BY <1>2, <2>1, AppendProperties
  <2> HIDE DEF more, n
  <2> QED
    BY <2>2, LenProperties
<1> HIDE DEF more, n
<1> DEFINE s == [k \in 1..n |-> NodeText(t[k])]
           u == [k \in 1..n + 1 |-> NodeText(more[k])]
<1>5. s \in [1..n -> Text]
  <2>1. \A k \in 1..n : NodeText(t[k]) \in Text
    BY <1>3 DEF TreeSpelt
  <2> QED
    BY <2>1
<1>6. \A k \in 1..n + 1 : NodeText(more[k]) \in Text
  <2>1. ASSUME NEW k \in 1..n + 1 PROVE NodeText(more[k]) \in Text
    <3>1. k \in 1..n \/ k = n + 1
      BY <1>3
    <3>2. CASE k \in 1..n
      BY <1>3, <1>4, <3>2 DEF TreeSpelt
    <3>3. CASE k = n + 1
      BY <1>4, <3>3
    <3> QED
      BY <3>1, <3>2, <3>3
  <2> QED
    BY <2>1
<1>7. u \in [1..n + 1 -> Text]
  BY <1>6
<1>8. \A k \in 1..n : u[k] = s[k]
  BY <1>3, <1>4
<1>9. u[n + 1] = NodeText(node)
  BY <1>3, <1>4
<1>10. TreeText(t) = FlattenSeq(s) /\ TreeText(more) = FlattenSeq(u)
  BY <1>3, <1>4 DEF TreeText
<1> HIDE DEF s, u
<1>11. FlattenSeq(u) = FlattenSeq(s) \o u[n + 1] /\ FlattenSeq(s) \in Text
  BY <1>3, <1>5, <1>7, <1>8, TextsJoined
<1>12. TreeText(more) = TreeText(t) \o NodeText(node) /\ TreeText(t) \in Text
  BY <1>9, <1>10, <1>11
<1>13. TreeSpelt(more)
  BY <1>4, <1>6 DEF TreeSpelt
<1> QED
  BY <1>12, <1>13 DEF more

LEMMA TreeTextEmpty == TreeText(<<>>) = <<>> /\ TreeSpelt(<<>>)
<1>1. [k \in DOMAIN <<>> |-> NodeText(<<>>[k])] = <<>>
  OBVIOUS
<1>2. FlattenSeq(<<>>) = <<>>
  BY EmptySeq DEF FlattenSeq
<1>3. <<>> \in Seq({}) /\ DOMAIN <<>> = {}
  BY EmptySeq
<1> QED
  BY <1>1, <1>2, <1>3 DEF TreeText, TreeSpelt

\* No pipeline at all.
LEMMA NoPipelineText == SpellPipeline(<<>>) = <<>>
<1>1. [k \in DOMAIN <<>> |-> Sign(IF k = 1 THEN NULL ELSE "|") \o SpellCommand(<<>>[k])] = <<>>
  OBVIOUS
<1>2. FlattenSeq(<<>>) = <<>>
  BY EmptySeq DEF FlattenSeq
<1> QED
  BY <1>1, <1>2 DEF SpellPipeline

-----------------------------------------------------------------------------
(* What has been read, in its parts.                                         *)

\* Concatenation by a name, which the provers do not take apart.
Cat(x, y) == x \o y

LEMMA Concat ==
    ASSUME NEW x \in Text, NEW y \in Text
    PROVE  Cat(x, y) \in Text /\ x \o y \in Text
  BY ConcatProperties DEF Text, Cat

LEMMA CatAssociates ==
    ASSUME NEW x \in Text, NEW y \in Text, NEW z \in Text
    PROVE  Cat(Cat(x, y), z) = Cat(x, Cat(y, z))
<1>1. (x \o y) \o z = x \o (y \o z)
  BY ConcatAssociative DEF Text
<1> QED
  BY <1>1 DEF Cat

LEMMA CatEmpty ==
    ASSUME NEW x \in Text PROVE Cat(x, <<>>) = x /\ Cat(<<>>, x) = x
  BY ConcatEmptySeq DEF Text, Cat

\* The tree, the operator, the stored commands and the command that is read.
Parts(t, s, u, b, c) == Cat(Cat(Cat(t, s), u), Cat(b, c))

LEMMA PartsText ==
    ASSUME NEW t \in Text, NEW s \in Text, NEW u \in Text, NEW b \in Text, NEW c \in Text
    PROVE  /\ Parts(t, s, u, b, c) = Cat(Cat(t, s), Cat(u, Cat(b, c)))
           /\ Cat(u, Cat(b, c)) \in Text /\ Cat(s, Cat(u, Cat(b, c))) \in Text
           /\ Cat(t, s) \in Text
<1>1. Cat(t, s) \in Text /\ Cat(b, c) \in Text
  BY Concat
<1>2. Cat(u, Cat(b, c)) \in Text
  BY <1>1, Concat
<1>3. Cat(s, Cat(u, Cat(b, c))) \in Text
  BY <1>2, Concat
<1>4. Cat(Cat(Cat(t, s), u), Cat(b, c)) = Cat(Cat(t, s), Cat(u, Cat(b, c)))
  BY <1>1, CatAssociates
<1> QED
  BY <1>1, <1>2, <1>3, <1>4 DEF Parts

LEMMA PartsSplit ==
    ASSUME NEW t \in Text, NEW s \in Text, NEW u \in Text, NEW b \in Text, NEW c \in Text
    PROVE  Parts(t, s, u, b, c) = Cat(t, Cat(s, Cat(u, Cat(b, c))))
<1> DEFINE more == Cat(u, Cat(b, c))
<1>1. more \in Text /\ Parts(t, s, u, b, c) = Cat(Cat(t, s), more)
  BY PartsText
<1> HIDE DEF more
<1>2. Cat(Cat(t, s), more) = Cat(t, Cat(s, more))
  BY <1>1, CatAssociates
<1> QED
  BY <1>1, <1>2 DEF more

\* More of the last command.
LEMMA PartsGrow ==
    ASSUME NEW t \in Text, NEW s \in Text, NEW u \in Text, NEW b \in Text, NEW c \in Text,
           NEW x \in Text
    PROVE  Cat(Parts(t, s, u, b, c), x) = Parts(t, s, u, b, Cat(c, x))
<1>1. Cat(t, s) \in Text /\ Cat(b, c) \in Text
  BY Concat
<1>2. Cat(Cat(t, s), u) \in Text
  BY <1>1, Concat
<1>3. Cat(Cat(Cat(Cat(t, s), u), Cat(b, c)), x) = Cat(Cat(Cat(t, s), u), Cat(Cat(b, c), x))
  BY <1>1, <1>2, CatAssociates
<1>4. Cat(Cat(b, c), x) = Cat(b, Cat(c, x))
  BY CatAssociates
<1> QED
  BY <1>3, <1>4 DEF Parts

\* A pipeline that begins, and the next command of one.
LEMMA PartsBegin ==
    ASSUME NEW t \in Text, NEW s \in Text
    PROVE  Parts(t, s, <<>>, <<>>, <<>>) = Cat(t, s)
<1>1. <<>> \in Text /\ Cat(t, s) \in Text
  BY SignText, Concat
<1>2. Cat(<<>>, <<>>) = <<>> /\ Cat(Cat(t, s), <<>>) = Cat(t, s)
  BY <1>1, CatEmpty
<1> QED
  BY <1>2 DEF Parts

LEMMA PartsNext ==
    ASSUME NEW t \in Text, NEW s \in Text, NEW u \in Text, NEW b \in Text, NEW c \in Text,
           NEW x \in Text
    PROVE  Cat(Parts(t, s, u, b, c), x) = Parts(t, s, Cat(u, Cat(b, c)), x, <<>>)
<1> DEFINE front == Cat(t, s)
           more == Cat(u, Cat(b, c))
<1>1. /\ Parts(t, s, u, b, c) = Cat(front, more)
      /\ front \in Text /\ more \in Text
  <2>1. Parts(t, s, u, b, c) = Cat(Cat(t, s), Cat(u, Cat(b, c)))
    BY PartsText
  <2>2. Cat(u, Cat(b, c)) \in Text /\ Cat(t, s) \in Text
    BY PartsText
  <2> QED
    BY <2>1, <2>2
<1>2. Cat(x, <<>>) = x
  BY CatEmpty
<1>3. Parts(t, s, more, x, <<>>) = Cat(Cat(front, more), Cat(x, <<>>))
  BY DEF Parts
<1> HIDE DEF front, more
<1>4. Cat(Parts(t, s, u, b, c), x) = Parts(t, s, more, x, <<>>)
  BY <1>1, <1>2, <1>3
<1> QED
  BY <1>4 DEF more

-----------------------------------------------------------------------------
(* What the parser has made of the tokens that it has read.                  *)

Kind(k) == IF k \in DOMAIN tokens THEN tokens[k].type ELSE "END"

\* The grammar's rules for what may stand behind token k.
Fits(k) ==
    /\ Kind(k) \in ListOperators => Kind(k + 1) \in {"WORD", "END"}
    /\ Kind(k) \in Redirections \cup {"|"} => Kind(k + 1) = "WORD"
    /\ k > 1 /\ Kind(k - 1) \in Redirections => Kind(k + 1) # "WORD"

Complete(c) == c.argc # 0 /\ \A k \in DOMAIN c.redir : c.redir[k].filename # NULL
Runnable(c) == Complete(c) /\ c.argv[0] # NULL /\ SpellCommand(c) \in Text

FileLast == pos > 1 /\ Kind(pos - 1) \in Redirections
WordLast == pos > 0 /\ Kind(pos) = "WORD"
OperatorLast == pos > 0 /\ Kind(pos) \in ListOperators
BarLast == pos > 0 /\ Kind(pos) = "|"

\* So far the line is one of the language.
ReadTo(p) ==
    /\ p \in 0..Len(tokens)
    /\ p # 0 => Kind(1) = "WORD"
    /\ \A k \in 1..p - 1 : Fits(k)
Read == ReadTo(pos)

TreeRead == TreeSpelt(tree) /\ \A c \in Commands(tree) : Runnable(c)

PipelineRead ==
    /\ op \in ListOperators \cup {NULL}
    /\ \A k \in 0..count - 1 : Runnable(cmds[k])
    /\ redir \in Seq(Files)
    /\ SpellCommand(Command) \in Text
    /\ SubSeq(tokens, 1, pos) = Parts(TreeText(tree), Sign(op), StoredText(cmds, count),
                                      Bar(count), SpellCommand(Command))

WordsRead ==
    IF argc = 0 THEN pos = 0 \/ BarLast \/ (OperatorLast /\ Kind(pos + 1) # "END")
                ELSE WordLast /\ ~FileLast

InWords == Read /\ TreeRead /\ PipelineRead /\ redir = <<>> /\ WordsRead

InRedirections ==
    /\ Read /\ TreeRead /\ PipelineRead
    /\ WordLast /\ Complete(Command)
    /\ Kind(pos + 1) = "WORD" => FileLast

InList ==
    /\ Read /\ TreeRead
    /\ SubSeq(tokens, 1, pos) = TreeText(tree)
    /\ \/ /\ WordLast /\ Kind(pos + 1) \notin Redirections \cup {"|"}
          /\ Kind(pos + 1) = "WORD" => FileLast
       \/ OperatorLast /\ pos = Len(tokens)

\* A line that is not one of the language has left its mark.
Incomplete ==
    \/ \E c \in Commands(tree) : ~Complete(c)
    \/ InPipeline /\ \E k \in 0..count - 1 : ~Complete(cmds[k])
    \/ pc = "redirections" /\ ~Complete(Command)
Wrong == ~Sentence /\ Incomplete

TreeInv ==
    /\ InPipeline => \E S : redir \in Seq(S)
    /\ pc = "words" => InWords \/ Wrong
    /\ pc = "redirections" => InRedirections \/ Wrong
    /\ pc \in {"list", "parsed"} => InList \/ Wrong
    /\ pc = "parsed" => Kind(pos + 1) \notin ListOperators

LEMMA SentenceFits ==
    Sentence <=> Kind(1) = "WORD" /\ \A k \in DOMAIN tokens : Fits(k)
  BY Zenon DEF Sentence, Fits, Kind

LEMMA TokenShape ==
    ASSUME LexInv
    PROVE  /\ Len(tokens) \in Nat /\ DOMAIN tokens = 1..Len(tokens)
           /\ \A k \in 1..Len(tokens) :
                 /\ Kind(k) = tokens[k].type /\ Kind(k) \in TokenTypes
                 /\ tokens[k] \in Tokens
                 /\ Kind(k) = "WORD" => /\ tokens[k].lexeme \in Seq(Letters)
                                        /\ tokens[k] = WordToken(tokens[k].lexeme)
                 /\ Kind(k) # "WORD" => /\ tokens[k].lexeme = NULL
                                        /\ tokens[k] = [type |-> Kind(k), lexeme |-> NULL]
           /\ Kind(Len(tokens) + 1) = "END"
<1>1. tokens \in Seq(Tokens)
  BY DEF LexInv
<1>2. Len(tokens) \in Nat /\ DOMAIN tokens = 1..Len(tokens)
  BY <1>1, LenProperties
<1>3. ASSUME NEW k \in 1..Len(tokens)
      PROVE  /\ Kind(k) = tokens[k].type /\ Kind(k) \in TokenTypes
             /\ tokens[k] \in Tokens
             /\ Kind(k) = "WORD" => /\ tokens[k].lexeme \in Seq(Letters)
                                    /\ tokens[k] = WordToken(tokens[k].lexeme)
             /\ Kind(k) # "WORD" => /\ tokens[k].lexeme = NULL
                                    /\ tokens[k] = [type |-> Kind(k), lexeme |-> NULL]
  <2>1. Kind(k) = tokens[k].type
    BY <1>2 DEF Kind
  <2>2. tokens[k] \in Tokens
    BY <1>1, ElementOfSeq
  <2> DEFINE x == tokens[k]
  <2>3. \/ /\ x.type \in TokenTypes /\ x.type # "WORD" /\ x.lexeme = NULL
           /\ x = [type |-> x.type, lexeme |-> NULL]
        \/ /\ x.type = "WORD" /\ x.lexeme \in Seq(Letters)
           /\ x = [type |-> "WORD", lexeme |-> x.lexeme]
    <3> HIDE DEF x
    <3>1. x \in Tokens
      BY <2>2 DEF x
    <3> QED
      BY <3>1 DEF Tokens
  <2>4. "WORD" \in TokenTypes
    BY DEF TokenTypes
  <2> QED
    BY <2>1, <2>2, <2>3, <2>4 DEF WordToken
<1>4. Kind(Len(tokens) + 1) = "END"
  BY <1>2 DEF Kind
<1> QED
  BY <1>2, <1>3, <1>4

\* The kinds are different things.
LEMMA Kinds ==
    /\ "WORD" \notin ListOperators \cup Redirections \cup {"|", "END"}
    /\ "END" \notin ListOperators \cup Redirections \cup {"|"} /\ "END" \notin TokenTypes
    /\ "|" \notin ListOperators \cup Redirections
    /\ ListOperators \cap Redirections = {}
    /\ TokenTypes = ListOperators \cup Redirections \cup {"|", "WORD"}
  BY DEF ListOperators, Redirections, TokenTypes

LEMMA PeekKind == ASSUME LexInv, pos \in Nat PROVE peek_token(pos) = Kind(pos + 1)
  BY TokenShape DEF peek_token, Kind

LEMMA KindsStay == ASSUME tokens' = tokens PROVE \A k : Kind(k)' = Kind(k)
  BY DEF Kind

LEMMA SentenceStays == ASSUME tokens' = tokens PROVE Sentence' = Sentence
  BY DEF Sentence

\* One more token has been read.
LEMMA ReadMore ==
    ASSUME LexInv, NEW p \in Nat, p + 1 <= Len(tokens)
    PROVE  SubSeq(tokens, 1, p + 1) = SubSeq(tokens, 1, p) \o <<tokens[p + 1]>>
<1>1. tokens \in Seq(Tokens) /\ Len(tokens) \in Nat
  BY LexShape
<1>2. 1 \in 1..Len(tokens) /\ p + 1 \in 1..Len(tokens) /\ (p + 1) - 1 = p
  BY <1>1
<1> QED
  BY <1>1, <1>2, SubSeqRecursiveSecond

\* A rule that has been kept, and one that has not.
LEMMA ReadFits ==
    ASSUME LexInv, NEW p, ReadTo(p), p + 1 <= Len(tokens),
           IF p = 0 THEN Kind(1) = "WORD" ELSE Fits(p)
    PROVE  ReadTo(p + 1)
<1>1. p \in Nat /\ Len(tokens) \in Nat
  BY LexShape DEF ReadTo
<1>2. ASSUME NEW k \in 1..(p + 1) - 1 PROVE Fits(k)
  <2>1. k \in 1..p - 1 \/ (k = p /\ p # 0)
    BY <1>1
  <2> QED
    BY <2>1 DEF ReadTo
<1>3. Kind(1) = "WORD" /\ p + 1 \in 0..Len(tokens)
  BY <1>1 DEF ReadTo
<1> QED
  BY <1>2, <1>3 DEF ReadTo

LEMMA Misfit ==
    ASSUME LexInv, NEW k \in 1..Len(tokens), ~Fits(k) PROVE ~Sentence
  BY SentenceFits, TokenShape

\* A command that is stored, also when the array grows.
Stored(array, n, c) == [array EXCEPT ![n] = c]
Grown(array, n, c) ==
    LET size == Cardinality(DOMAIN array)
    IN  IF n + 1 = size THEN resize_cmd_array(Stored(array, n, c), 2 * size)
                        ELSE Stored(array, n, c)

LEMMA ArrayKeeps ==
    ASSUME NEW array, NEW n, HasRoom(array, n), NEW c
    PROVE  /\ n \in Nat
           /\ Stored(array, n, c)[n] = c
           /\ \A k \in 0..n - 1 : Stored(array, n, c)[k] = array[k]
           /\ Grown(array, n, c)[n] = c
           /\ \A k \in 0..n - 1 : Grown(array, n, c)[k] = array[k]
<1> DEFINE stored == [array EXCEPT ![n] = c]
           size == Cardinality(DOMAIN array)
           grown == IF n + 1 = size THEN resize_cmd_array(stored, 2 * size) ELSE stored
<1>1. PICK room \in Nat \ {0} : DOMAIN array = 0..room - 1 /\ n \in 0..room - 1
  BY DEF HasRoom
<1>2. size = room
  <2>1. Cardinality(0..room - 1) = (room - 1) - 0 + 1
    BY FS_Interval
  <2> QED
    BY <1>1, <2>1
<1>3. /\ DOMAIN stored = 0..room - 1 /\ stored[n] = c
      /\ \A k \in 0..n - 1 : stored[k] = array[k]
  BY <1>1
<1> HIDE DEF stored, size
<1>4. grown[n] = c /\ \A k \in 0..n - 1 : grown[k] = stored[k]
  <2>1. CASE n + 1 = size
    <3>1. grown = [k \in 0..2 * room - 1 |-> IF k \in DOMAIN stored THEN stored[k] ELSE NULL]
      BY <1>2, <2>1 DEF resize_cmd_array
    <3>2. \A k \in 0..n : k \in 0..2 * room - 1 /\ k \in DOMAIN stored
      BY <1>1, <1>3
    <3>3. n \in 0..n /\ \A k \in 0..n - 1 : k \in 0..n
      BY <1>1
    <3> QED
      BY <1>3, <3>1, <3>2, <3>3
  <2>2. CASE n + 1 # size
    BY <1>3, <2>2
  <2> QED
    BY <2>1, <2>2
<1>5. \A k \in 0..n - 1 : grown[k] = array[k]
  BY <1>3, <1>4
<1>6. n \in Nat
  BY <1>1
<1> HIDE DEF grown
<1> QED
  BY <1>3, <1>4, <1>5, <1>6, Zenon DEF Stored, Grown, stored, size, grown

LEMMA CommandsGrow ==
    ASSUME NEW S, NEW t \in Seq(S), NEW node
    PROVE  Commands(Append(t, node)) = Commands(t) \cup Range(node.right)
<1> DEFINE n == Len(t)
           more == Append(t, node)
<1>1. t \in Seq(S \cup {node})
  <2>1. S \subseteq S \cup {node}
    OBVIOUS
  <2> QED
    BY <2>1, SeqMonotonic
<1>2. n \in Nat /\ DOMAIN t = 1..n
  BY LenProperties
<1>3. DOMAIN more = 1..n + 1 /\ more[n + 1] = node /\ \A k \in 1..n : more[k] = t[k]
  <2>1. node \in S \cup {node}
    OBVIOUS
  <2>2. /\ more \in Seq(S \cup {node}) /\ Len(more) = n + 1
        /\ \A k \in 1..n : more[k] = t[k]
        /\ more[n + 1] = node
    BY <1>1, <2>1, AppendProperties
  <2> HIDE DEF more, n
  <2> QED
    BY <2>2, LenProperties
<1> HIDE DEF more, n
<1>4. ASSUME NEW c \in Commands(more) PROVE c \in Commands(t) \cup Range(node.right)
  <2>1. PICK k \in 1..n + 1 : c \in Range(more[k].right)
    BY <1>3 DEF Commands
  <2>2. k \in 1..n \/ k = n + 1
    BY <1>2
  <2> QED
    BY <1>2, <1>3, <2>1, <2>2 DEF Commands
<1>5. ASSUME NEW c \in Commands(t) PROVE c \in Commands(more)
  <2>1. PICK k \in 1..n : c \in Range(t[k].right)
    BY <1>2 DEF Commands
  <2>2. k \in 1..n + 1 /\ more[k] = t[k]
    BY <1>2, <1>3
  <2> QED
    BY <1>3, <2>1, <2>2 DEF Commands
<1>6. ASSUME NEW c \in Range(node.right) PROVE c \in Commands(more)
  <2>1. n + 1 \in 1..n + 1
    BY <1>2
  <2> QED
    BY <1>3, <2>1 DEF Commands
<1> QED
  BY <1>4, <1>5, <1>6 DEF more

LEMMA PipelineCommands ==
    ASSUME NEW array, NEW n \in Nat
    PROVE  Range(Pipeline(array, n)) = {array[k] : k \in 0..n - 1}
<1>1. \A k \in 1..n : k - 1 \in 0..n - 1
  OBVIOUS
<1>2. \A k \in 0..n - 1 : k + 1 \in 1..n /\ (k + 1) - 1 = k
  OBVIOUS
<1>3. Range(Pipeline(array, n)) = {array[k - 1] : k \in 1..n}
  BY DEF Range, Pipeline
<1> QED
  BY <1>1, <1>2, <1>3

LEMMA NoRange == Range(<<>>) = {}
  BY DEF Range

LEMMA TreeIsSeq ==
    ASSUME LeadInv, Parsing PROVE \E S : tree \in Seq(S)
  BY DEF LeadInv, TreeLed

\* What the end of a pipeline puts into the tree.
LEMMA TreeEnds ==
    ASSUME LeadInv, PipelineEnds
    PROVE  /\ count \in Nat
           /\ \E array :
                 /\ array[count] = Command
                 /\ \A k \in 0..count - 1 : array[k] = cmds[k]
                 /\ tree' = Append(tree, [op |-> op, right |-> Pipeline(array, count + 1)])
<1> DEFINE array == Stored(cmds, count, Command)
<1>1. HasRoom(cmds, count)
  BY DEF LeadInv, PipelineEnds, InPipeline
<1>2. count \in Nat /\ array[count] = Command /\ \A k \in 0..count - 1 : array[k] = cmds[k]
  BY <1>1, ArrayKeeps
<1>3. tree' = Append(tree, [op |-> op, right |-> Pipeline(array, count + 1)])
  BY DEF PipelineEnds, Stored
<1> HIDE DEF array
<1> QED
  BY <1>2, <1>3

\* What "|" puts into the array.
LEMMA CommandsKept ==
    ASSUME LeadInv, NextCommand
    PROVE  /\ count \in Nat /\ count' = count + 1
           /\ cmds'[count] = Command
           /\ \A k \in 0..count - 1 : cmds'[k] = cmds[k]
<1>1. HasRoom(cmds, count)
  BY DEF LeadInv, NextCommand, InPipeline
<1>2. cmds' = Grown(cmds, count, Command)
  BY DEF NextCommand, Grown, Stored
<1>3. cmds'[count] = Command /\ \A k \in 0..count - 1 : cmds'[k] = cmds[k]
  BY <1>1, <1>2, ArrayKeeps
<1>4. count \in Nat
  BY <1>1, ArrayKeeps
<1> QED
  BY <1>3, <1>4 DEF NextCommand

LEMMA WrongStays ==
    ASSUME LexInv, ArgvInv, LeadInv, Parsing, InPipeline => \E S : redir \in Seq(S),
           Wrong, Parse, pc' # "crashed"
    PROVE  Wrong'
<1>1. tokens' = tokens
  BY ParseShape DEF lexVars
<1>2. ~Sentence'
  BY <1>1, SentenceStays DEF Wrong
<1>3. PICK S : tree \in Seq(S)
  BY TreeIsSeq
<1>4. CASE StartParse
  BY <1>4 DEF StartParse, Parsing
<1>5. CASE GetWord \/ WordsEnd
  <2>1. pc = "words" /\ pc' \in {"words", "redirections"}
        /\ tree' = tree /\ cmds' = cmds /\ count' = count
    BY <1>5 DEF GetWord, WordsEnd, parseVars
  <2>2. Incomplete'
    BY <2>1 DEF Wrong, Incomplete, InPipeline
  <2> QED
    BY <1>2, <2>2 DEF Wrong
<1>6. CASE ParseRedirection
  <2>1. /\ pc = "redirections" /\ pc' = "redirections"
        /\ tree' = tree /\ cmds' = cmds /\ count' = count /\ argc' = argc /\ argv' = argv
        /\ \E r : redir' = Append(redir, r)
    BY <1>6 DEF ParseRedirection
  <2>2. ASSUME ~Complete(Command) PROVE ~Complete(Command)'
    <3>1. Command.argc = argc /\ Command.redir = redir
          /\ Command'.argc = argc /\ Command'.redir = redir'
      BY <2>1 DEF Command
    <3>2. CASE argc = 0
      BY <3>1, <3>2 DEF Complete
    <3>3. CASE argc # 0
      <4>1. PICK k \in DOMAIN redir : redir[k].filename = NULL
        BY <2>2, <3>1, <3>3 DEF Complete
      <4>2. PICK T : redir \in Seq(T)
        BY <2>1 DEF InPipeline
      <4>3. PICK r : redir' = Append(redir, r)
        BY <2>1
      <4>4. redir \in Seq(T \cup {r}) /\ DOMAIN redir = 1..Len(redir) /\ Len(redir) \in Nat
        <5>1. T \subseteq T \cup {r}
          OBVIOUS
        <5> QED
          BY <4>2, <5>1, SeqMonotonic, LenProperties
      <4>5. /\ redir' \in Seq(T \cup {r}) /\ Len(redir') = Len(redir) + 1
            /\ redir'[k] = redir[k]
        BY <4>1, <4>3, <4>4, AppendProperties
      <4>6. k \in DOMAIN redir'
        BY <4>1, <4>4, <4>5, LenProperties
      <4> QED
        BY <3>1, <4>1, <4>5, <4>6 DEF Complete
    <3> QED
      BY <3>2, <3>3
  <2>3. Incomplete'
    BY <2>1, <2>2 DEF Wrong, Incomplete, InPipeline
  <2> QED
    BY <1>2, <2>3 DEF Wrong
<1>7. CASE NextCommand
  <2>1. /\ pc = "redirections" /\ pc' = "words" /\ tree' = tree
    BY <1>7 DEF NextCommand
  <2>2. /\ count \in Nat /\ count' = count + 1
        /\ cmds'[count] = Command
        /\ \A k \in 0..count - 1 : cmds'[k] = cmds[k]
    BY <1>7, CommandsKept
  <2>3. CASE \E c \in Commands(tree) : ~Complete(c)
    BY <1>2, <2>1, <2>3 DEF Wrong, Incomplete
  <2>4. CASE \E k \in 0..count - 1 : ~Complete(cmds[k])
    <3>1. PICK k \in 0..count - 1 : ~Complete(cmds[k])
      BY <2>4
    <3>2. k \in 0..count' - 1 /\ cmds'[k] = cmds[k]
      BY <2>2
    <3>3. \E j \in 0..count' - 1 : ~Complete(cmds'[j])
      BY <3>1, <3>2
    <3> QED
      BY <1>2, <2>1, <3>3 DEF Wrong, Incomplete, InPipeline, Complete
  <2>5. CASE ~Complete(Command)
    <3>1. count \in 0..count' - 1
      BY <2>2
    <3>2. \E j \in 0..count' - 1 : ~Complete(cmds'[j])
      BY <2>2, <2>5, <3>1
    <3> QED
      BY <1>2, <2>1, <3>2 DEF Wrong, Incomplete, InPipeline, Complete
  <2> QED
    BY <2>3, <2>4, <2>5 DEF Wrong, Incomplete
<1>8. CASE PipelineEnds
  <2>1. PICK array :
           /\ array[count] = Command
           /\ \A k \in 0..count - 1 : array[k] = cmds[k]
           /\ tree' = Append(tree, [op |-> op, right |-> Pipeline(array, count + 1)])
    BY <1>8, TreeEnds
  <2>2. count \in Nat /\ count + 1 \in Nat
    BY <1>8, TreeEnds
  <2> DEFINE node == [op |-> op, right |-> Pipeline(array, count + 1)]
  <2>3. Commands(tree') = Commands(tree) \cup Range(node.right)
    BY <1>3, <2>1, CommandsGrow
  <2>4. node.right = Pipeline(array, count + 1)
    OBVIOUS
  <2> HIDE DEF node
  <2>5. Range(node.right) = {array[k] : k \in 0..(count + 1) - 1}
    BY <2>2, <2>4, PipelineCommands
  <2>6. (count + 1) - 1 = count /\ count \in 0..count /\ \A k \in 0..count - 1 : k \in 0..count
    BY <2>2
  <2>7. \E c \in Commands(tree') : ~Complete(c)
    <3>1. CASE \E c \in Commands(tree) : ~Complete(c)
      BY <2>3, <3>1
    <3>2. CASE \E k \in 0..count - 1 : ~Complete(cmds[k])
      BY <2>1, <2>3, <2>5, <2>6, <3>2
    <3>3. CASE ~Complete(Command)
      BY <2>1, <2>3, <2>5, <2>6, <3>3
    <3> QED
      BY <3>1, <3>2, <3>3 DEF Wrong, Incomplete
  <2> QED
    BY <1>2, <2>7 DEF Wrong, Incomplete, Complete
<1>9. CASE ParseOperator
  <2>1. /\ pc = "list"
        /\ \/ tree' = Append(tree, [op |-> peek_token(pos), right |-> <<>>])
           \/ tree' = tree
    BY <1>9 DEF ParseOperator
  <2>2. Commands(tree) \subseteq Commands(tree')
    <3> DEFINE node == [op |-> peek_token(pos), right |-> <<>>]
    <3>1. Commands(Append(tree, node)) = Commands(tree) \cup Range(node.right)
      BY <1>3, CommandsGrow
    <3> QED
      BY <2>1, <3>1
  <2>3. \E c \in Commands(tree) : ~Complete(c)
    BY <2>1 DEF Wrong, Incomplete, InPipeline
  <2>4. \E c \in Commands(tree') : ~Complete(c)
    BY <2>2, <2>3
  <2> QED
    BY <1>2, <2>4 DEF Wrong, Incomplete, Complete
<1>10. CASE ListEnds
  <2>1. pc = "list" /\ tree' = tree
    BY <1>10 DEF ListEnds, parseVars
  <2> QED
    BY <1>2, <2>1 DEF Wrong, Incomplete, InPipeline
<1> QED
  BY <1>4, <1>5, <1>6, <1>7, <1>8, <1>9, <1>10 DEF Parse

LEMMA ReadStays ==
    ASSUME LexInv, tokens' = tokens, NEW p, ReadTo(p), pos' = p PROVE Read'
<1>1. \A k : Kind(k)' = Kind(k)
  BY KindsStay
<1>2. \A k : Fits(k)' = Fits(k)
  BY <1>1 DEF Fits
<1> QED
  BY <1>1, <1>2 DEF Read, ReadTo

LEMMA TreeStays == ASSUME tree' = tree, TreeRead PROVE TreeRead'
  BY DEF TreeRead, TreeSpelt, Runnable, Complete

LEMMA PosShape ==
    ASSUME LexInv, Read
    PROVE  /\ pos \in Nat /\ Len(tokens) \in Nat /\ pos <= Len(tokens)
           /\ peek_token(pos) = Kind(pos + 1)
           /\ Kind(pos + 1) # "END" => /\ pos + 1 \in 1..Len(tokens)
                                       /\ pos + 1 <= Len(tokens)
           /\ pos # 0 => pos \in 1..Len(tokens)
<1>1. pos \in Nat /\ Len(tokens) \in Nat /\ pos <= Len(tokens)
  BY LexShape DEF Read, ReadTo
<1>2. Kind(pos + 1) # "END" => pos + 1 \in 1..Len(tokens)
  <2>1. DOMAIN tokens = 1..Len(tokens)
    BY TokenShape
  <2> QED
    BY <2>1 DEF Kind
<1> QED
  BY <1>1, <1>2, PeekKind

\* Behind an operator no file has just been read.
LEMMA NoFile ==
    ASSUME LexInv, Read, OperatorLast \/ BarLast PROVE ~FileLast
<1> SUFFICES ASSUME FileLast PROVE FALSE
  OBVIOUS
<1>1. pos \in Nat /\ pos - 1 \in 1..pos - 1 /\ (pos - 1) + 1 = pos
  <2>1. pos \in Nat
    BY PosShape
  <2>2. pos > 1
    BY DEF FileLast
  <2> QED
    BY <2>1, <2>2
<1>2. Kind(pos) = "WORD"
  <2>1. Fits(pos - 1)
    BY <1>1 DEF Read, ReadTo
  <2>2. Kind(pos - 1) \in Redirections \cup {"|"}
    BY DEF FileLast
  <2>3. Kind((pos - 1) + 1) = "WORD"
    BY <2>1, <2>2 DEF Fits
  <2> QED
    BY <1>1, <2>3
<1> QED
  BY <1>2, Kinds DEF OperatorLast, BarLast

LEMMA WordFits ==
    ASSUME WordLast, Kind(pos + 1) = "WORD" => ~FileLast PROVE Fits(pos)
  BY Kinds DEF WordLast, FileLast, Fits

\* A word that get_words stores.
LEMMA GetWordStores ==
    ASSUME LexInv, ArgvInv, GetWord
    PROVE  /\ argc \in Nat /\ \A k \in 0..argc - 1 : argv[k] \in Seq(Letters) /\ argv'[k] = argv[k]
           /\ argv'[argc] = tokens[pos + 1].lexeme
           /\ argc' = argc + 1 /\ pos' = pos + 1
<1>1. PICK m \in Nat \ {0} : Words(argv, m, argc)
  BY DEF ArgvInv, GetWord
<1>2. /\ argc \in Nat /\ argc <= m /\ DOMAIN argv = 0..m
      /\ \A k \in 0..m : argv[k] \in Seq(Letters) \cup {NULL}
      /\ \A k \in 0..m : argv[k] = NULL <=> argc <= k
  BY <1>1 DEF Words
<1>3. ASSUME NEW k \in 0..argc - 1
      PROVE  /\ argv[k] \in Seq(Letters) /\ k \in 0..m /\ k # argc
             /\ \A j \in 0..k : argv[j] # NULL
  <2>1. \A j \in 0..k : j \in 0..m /\ ~(argc <= j)
    BY <1>2
  <2>2. k \in 0..k /\ k # argc
    BY <1>2
  <2> QED
    BY <1>2, <2>1, <2>2
<1>4. Cardinality(DOMAIN argv) - 1 = m
  <2>1. Cardinality(0..m) = m + 1
    BY FS_Interval
  <2> QED
    BY <1>2, <2>1
<1> DEFINE room == IF argc = m THEN resize_string_array(argv, 2 * m) ELSE argv
<1>5. argv' = [room EXCEPT ![argc] = tokens[pos + 1].lexeme]
  BY <1>4 DEF GetWord
<1>6. argc \in DOMAIN room /\ \A k \in 0..argc - 1 : room[k] = argv[k] /\ k \in DOMAIN room
  <2>1. CASE argc = m
    <3>1. room = [k \in 0..2 * m |-> IF k \in 0..m /\ \A j \in 0..k : argv[j] # NULL
                                     THEN argv[k] ELSE NULL]
      BY <1>2, <2>1 DEF resize_string_array, alloc_string_array
    <3>2. argc \in 0..2 * m /\ \A k \in 0..argc - 1 : k \in 0..2 * m
      BY <1>2, <2>1
    <3> HIDE DEF room
    <3> QED
      BY <1>3, <3>1, <3>2
  <2>2. CASE argc # m
    <3>1. room = argv /\ argc \in 0..m
      BY <1>2, <2>2
    <3> HIDE DEF room
    <3> QED
      BY <1>2, <1>3, <3>1
  <2> QED
    BY <2>1, <2>2
<1> HIDE DEF room
<1>7. argv'[argc] = tokens[pos + 1].lexeme /\ \A k \in 0..argc - 1 : argv'[k] = argv[k]
  BY <1>3, <1>5, <1>6
<1> QED
  BY <1>2, <1>3, <1>7 DEF GetWord

\* The parts that are known to be texts.
LEMMA PartsKnown ==
    ASSUME LeadInv, InPipeline, TreeRead, PipelineRead
    PROVE  /\ TreeText(tree) \in Text /\ Sign(op) \in Text
           /\ StoredText(cmds, count) \in Text /\ Bar(count) \in Text
           /\ StoredSpelt(cmds, count) /\ count \in Nat
<1>1. Sign(op) \in Text
  <2>1. ListOperators \subseteq TokenTypes \ {"WORD"}
    BY Kinds
  <2> QED
    BY <2>1, SignText DEF PipelineRead
<1>2. count \in Nat
  BY DEF LeadInv, HasRoom
<1>3. StoredSpelt(cmds, count)
  BY DEF PipelineRead, StoredSpelt, Runnable
<1>4. StoredText(cmds, count) \in Text
  <2> DEFINE more == [k \in 0..count |-> IF k = count THEN Command ELSE cmds[k]]
  <2>2. more[count] = Command /\ \A k \in 0..count - 1 : more[k] = cmds[k]
    BY <1>2
  <2> HIDE DEF more
  <2>3. SpellCommand(more[count]) \in Text
    BY <2>2 DEF PipelineRead
  <2> QED
    BY <1>2, <1>3, <2>2, <2>3, StoredTextGrows
<1>5. TreeText(tree) \in Text
  <2> DEFINE node == [op |-> NULL, right |-> <<>>]
  <2>1. NodeText(node) = Sign(NULL) \o <<>>
    BY NoPipelineText DEF NodeText
  <2>2. NodeText(node) \in Text
    BY <2>1, SignText, Concat
  <2> QED
    BY <2>2, TreeTextGrows DEF TreeRead
<1> QED
  BY <1>1, <1>2, <1>3, <1>4, <1>5, BarText

LEMMA GetWordRight ==
    ASSUME LexInv, ArgvInv, LeadInv, InWords, GetWord PROVE InWords'
<1>1. tokens' = tokens /\ redir' = redir /\ cmds' = cmds /\ count' = count
      /\ op' = op /\ tree' = tree /\ pos' = pos + 1
  BY DEF GetWord, lexVars
<1>2. /\ pos \in Nat /\ Kind(pos + 1) = "WORD" /\ pos + 1 \in 1..Len(tokens)
      /\ pos + 1 <= Len(tokens)
  <2>1. peek_token(pos) = "WORD" /\ Read
    BY DEF GetWord, InWords
  <2>2. peek_token(pos) # "END"
    BY <2>1
  <2>3. pos \in Nat /\ Kind(pos + 1) = "WORD"
    BY <2>1, PosShape
  <2> QED
    BY <2>1, <2>2, <2>3, PosShape
<1>3. /\ argc \in Nat /\ \A k \in 0..argc - 1 : argv[k] \in Seq(Letters) /\ argv'[k] = argv[k]
      /\ argv'[argc] = tokens[pos + 1].lexeme
      /\ argc' = argc + 1
  BY GetWordStores
<1>4. /\ tokens[pos + 1].lexeme \in Seq(Letters)
      /\ tokens[pos + 1] = WordToken(tokens[pos + 1].lexeme)
  BY <1>2, TokenShape
<1>5. pos = 0 \/ (~FileLast /\ Fits(pos) /\ Kind(pos) \notin Redirections)
  <2>1. CASE pos = 0
    BY <2>1
  <2>2. CASE OperatorLast \/ BarLast
    <3>1. ~FileLast
      BY <2>2, NoFile DEF InWords
    <3>2. Fits(pos)
      BY <1>2, <2>2, <3>1, Kinds DEF Fits, FileLast, OperatorLast, BarLast
    <3> QED
      BY <2>2, <3>1, <3>2, Kinds DEF OperatorLast, BarLast
  <2>3. CASE WordLast /\ ~FileLast
    BY <2>3, WordFits, Kinds DEF WordLast
  <2> QED
    BY <2>1, <2>2, <2>3 DEF InWords, WordsRead
<1>6. Read'
  <2>1. pos = 0 => Kind(1) = "WORD"
    BY <1>2
  <2>2. ReadTo(pos + 1)
    BY <1>2, <1>5, <2>1, ReadFits DEF InWords, Read
  <2> QED
    BY <1>1, <2>2, ReadStays
<1>7. TreeRead'
  BY <1>1, TreeStays DEF InWords
<1>8. WordsRead' /\ redir' = <<>>
  <2>1. \A k : Kind(k)' = Kind(k)
    BY <1>1, KindsStay
  <2>2. WordLast'
    BY <1>1, <1>2, <2>1 DEF WordLast
  <2>3. ~FileLast'
    <3>1. (pos + 1) - 1 = pos /\ (pos + 1 > 1 => pos # 0)
      BY <1>2
    <3> QED
      BY <1>1, <1>5, <2>1, <3>1 DEF FileLast
  <2>4. argc' # 0
    BY <1>3
  <2> QED
    BY <1>1, <2>2, <2>3, <2>4 DEF WordsRead, InWords
<1> DEFINE word == <<tokens[pos + 1]>>
<1>9. /\ SpellCommand(Command)' = Cat(SpellCommand(Command), word)
      /\ SpellCommand(Command) \in Text /\ word \in Text
  <2>1. /\ SpellCommand(Command) = WordsText(argv, argc) \o FilesText(redir)
        /\ SpellCommand(Command)' = WordsText(argv', argc') \o FilesText(redir')
    BY CommandText DEF Command
  <2>2. redir = <<>> /\ redir' = <<>> /\ FilesText(redir) = <<>>
    BY <1>1, NoFiles DEF InWords
  <2>3. WordsText(argv, argc) \in Text
    BY <1>3, WordsTextShape
  <2>4. WordsText(argv', argc + 1) = WordsText(argv, argc) \o <<WordToken(argv'[argc])>>
    BY <1>3, <1>4, WordsTextGrows
  <2>5. word = <<WordToken(argv'[argc])>> /\ word \in Text
    BY <1>3, <1>4, SignText
  <2>6. WordsText(argv', argc') \in Text
    BY <1>3, <2>3, <2>4, <2>5, Concat
  <2>7. \A x \in Text : x \o <<>> = x
    BY ConcatEmptySeq DEF Text
  <2>8. SpellCommand(Command) = WordsText(argv, argc)
    BY <2>1, <2>2, <2>3, <2>7
  <2>9. SpellCommand(Command)' = WordsText(argv', argc')
    BY <2>1, <2>2, <2>6, <2>7
  <2> QED
    BY <1>3, <2>3, <2>4, <2>5, <2>8, <2>9 DEF Cat
<1>10. PipelineRead'
  <2> DEFINE t == TreeText(tree)
             s == Sign(op)
             u == StoredText(cmds, count)
             c == SpellCommand(Command)
  <2>1. t \in Text /\ s \in Text /\ u \in Text /\ Bar(count) \in Text /\ c \in Text
    BY <1>9, PartsKnown DEF InWords, GetWord, InPipeline
  <2>2. SubSeq(tokens, 1, pos) = Parts(t, s, u, Bar(count), c)
    BY DEF InWords, PipelineRead
  <2>3. SubSeq(tokens, 1, pos + 1) = Cat(SubSeq(tokens, 1, pos), word)
    BY <1>2, ReadMore DEF Cat
  <2>4. SpellCommand(Command)' = Cat(c, word) /\ Cat(c, word) \in Text
    BY <1>9, Concat
  <2> HIDE DEF t, s, u, c, word
  <2>5. SubSeq(tokens, 1, pos + 1) = Parts(t, s, u, Bar(count), Cat(c, word))
    <3>1. word \in Text
      BY <1>9
    <3>2. Cat(Parts(t, s, u, Bar(count), c), word) = Parts(t, s, u, Bar(count), Cat(c, word))
      BY <2>1, <3>1, PartsGrow
    <3> QED
      BY <2>2, <2>3, <3>2
  <2>6. SubSeq(tokens', 1, pos') = Parts(TreeText(tree'), Sign(op'), StoredText(cmds', count'),
                                         Bar(count'), SpellCommand(Command)')
    BY <1>1, <2>4, <2>5 DEF t, s, u
  <2>7. (\A k \in 0..count - 1 : Runnable(cmds[k]))' /\ (op \in ListOperators \cup {NULL})'
        /\ (redir \in Seq(Files))'
    BY <1>1 DEF InWords, PipelineRead, Runnable, Complete
  <2> QED
    BY <2>4, <2>6, <2>7 DEF PipelineRead
<1> QED
  BY <1>6, <1>7, <1>8, <1>10 DEF InWords

LEMMA WordsEndRight ==
    ASSUME LexInv, InWords, WordsEnd PROVE InRedirections' \/ Wrong'
<1>1. /\ pc' = "redirections" /\ tokens' = tokens
      /\ UNCHANGED <<pos, argv, argc, redir, cmds, count, op, tree>>
  BY DEF WordsEnd, parseVars, lexVars
<1>2. /\ pos \in Nat /\ Kind(pos + 1) # "WORD"
      /\ pos # 0 => pos \in 1..Len(tokens)
  <2>1. Read /\ peek_token(pos) # "WORD"
    BY DEF InWords, WordsEnd
  <2> QED
    BY <2>1, PosShape
<1>3. \A k : Kind(k)' = Kind(k)
  BY <1>1, KindsStay
<1>4. CASE argc # 0
  <2>1. Read' /\ TreeRead'
    BY <1>1, ReadStays, TreeStays DEF InWords, Read
  <2>2. Command' = Command /\ PipelineRead'
    BY <1>1 DEF Command, InWords, PipelineRead, Runnable, Complete
  <2>3. Complete(Command)'
    <3>1. Command'.argc # 0 /\ DOMAIN Command'.redir = {}
      BY <1>1, <1>4 DEF Command, InWords
    <3> QED
      BY <3>1 DEF Complete
  <2>4. WordLast'
    BY <1>1, <1>3, <1>4 DEF InWords, WordsRead, WordLast
  <2>5. Kind(pos + 1)' # "WORD"
    BY <1>1, <1>2 DEF Kind
  <2> QED
    BY <2>1, <2>2, <2>3, <2>4, <2>5 DEF InRedirections
<1>5. CASE argc = 0
  <2>1. ~Complete(Command)'
    BY <1>1, <1>5 DEF Complete, Command
  <2>2. ~Sentence
    <3>1. CASE pos = 0
      BY <1>2, <3>1, SentenceFits
    <3>2. CASE BarLast \/ (OperatorLast /\ Kind(pos + 1) # "END")
      <4>1. ~Fits(pos) /\ pos \in 1..Len(tokens)
        BY <1>2, <3>2 DEF BarLast, OperatorLast, Fits
      <4> QED
        BY <4>1, Misfit
    <3> QED
      BY <1>5, <3>1, <3>2 DEF InWords, WordsRead
  <2>3. ~Sentence'
    BY <1>1, <2>2, SentenceStays
  <2> QED
    BY <1>1, <2>1, <2>3 DEF Wrong, Incomplete
<1> QED
  BY <1>4, <1>5

\* The tokens that parse_redirection reads, and what it makes of them.
LEMMA RedirectionReads ==
    ASSUME LexInv, Read, WordLast, ParseRedirection, pc' # "crashed"
    PROVE  /\ pos \in Nat /\ pos' = pos + 2 /\ pos + 2 \in 1..Len(tokens)
           /\ pos + 1 \in 1..Len(tokens) /\ Kind(pos + 1) \in Redirections
           /\ Fits(pos)
           /\ redir' = Append(redir, [type |-> Kind(pos + 1),
                                      filename |-> tokens[pos + 2].lexeme])
<1>1. /\ pos \in Nat /\ Len(tokens) \in Nat /\ Kind(pos + 1) \in Redirections
  <2>1. peek_token(pos) \in Redirections
    BY DEF ParseRedirection
  <2> QED
    BY <2>1, PosShape
<1>2. pos + 1 < Len(tokens) /\ pos' = pos + 2
      /\ redir' = Append(redir, [type |-> tokens[pos + 1].type,
                                 filename |-> tokens[pos + 2].lexeme])
  BY DEF ParseRedirection
<1>3. pos + 1 \in 1..Len(tokens) /\ pos + 2 \in 1..Len(tokens)
  BY <1>1, <1>2
<1>4. Kind(pos + 1) = tokens[pos + 1].type
  BY <1>3, TokenShape
<1>5. Fits(pos)
  BY <1>1, WordFits, Kinds
<1> QED
  BY <1>1, <1>2, <1>3, <1>4, <1>5

LEMMA RedirectionText ==
    ASSUME LexInv, Read, WordLast, ParseRedirection, pc' # "crashed",
           ArgvInv, LeadInv, TreeRead, PipelineRead, Kind(pos + 2) = "WORD"
    PROVE  PipelineRead' /\ Command'.argc = Command.argc
<1>1. /\ pos \in Nat /\ pos' = pos + 2 /\ pos + 2 \in 1..Len(tokens)
      /\ pos + 1 \in 1..Len(tokens) /\ Kind(pos + 1) \in Redirections
      /\ redir' = Append(redir, [type |-> Kind(pos + 1),
                                 filename |-> tokens[pos + 2].lexeme])
  BY RedirectionReads
<1>2. /\ UNCHANGED <<argv, argc, cmds, count, op, tree>> /\ tokens' = tokens
      /\ pc = "redirections"
  BY DEF ParseRedirection, lexVars
<1> DEFINE r == [type |-> Kind(pos + 1), filename |-> tokens[pos + 2].lexeme]
           sign == << [type |-> r.type, lexeme |-> NULL] >>
           word == << WordToken(r.filename) >>
<1>3. r \in Files
  <2>1. tokens[pos + 2].lexeme \in Seq(Letters)
    BY <1>1, TokenShape
  <2> QED
    BY <1>1, <2>1 DEF Files
<1>4. sign = <<tokens[pos + 1]>> /\ word = <<tokens[pos + 2]>>
  <2>1. Kind(pos + 1) # "WORD"
    BY <1>1, Kinds
  <2>2. tokens[pos + 1] = [type |-> Kind(pos + 1), lexeme |-> NULL]
    BY <1>1, <2>1, TokenShape
  <2>3. tokens[pos + 2] = WordToken(tokens[pos + 2].lexeme)
    BY <1>1, TokenShape
  <2> QED
    BY <2>2, <2>3
<1>5. redir' = Append(redir, r)
  BY <1>1
<1> HIDE DEF r
<1>6. /\ FileText(r) \in Text /\ FileText(r) = Cat(sign, word)
      /\ sign \in Text /\ word \in Text
  BY <1>3, FileTextShape DEF Cat
<1>7. /\ redir \in Seq(Files) /\ redir' \in Seq(Files)
      /\ FilesText(redir) \in Text
      /\ FilesText(redir') = Cat(FilesText(redir), FileText(r))
  BY <1>3, <1>5, FilesTextGrows DEF PipelineRead, Cat
<1> DEFINE w == WordsText(argv, argc)
           c == SpellCommand(Command)
<1>8. w \in Text /\ c = Cat(w, FilesText(redir)) /\ c \in Text
      /\ SpellCommand(Command)' = Cat(w, FilesText(redir'))
  <2>1. /\ SpellCommand(Command) = WordsText(argv, argc) \o FilesText(redir)
        /\ SpellCommand(Command)' = WordsText(argv', argc') \o FilesText(redir')
    BY CommandText DEF Command
  <2>2. w \in Text
    <3>1. PICK m \in Nat \ {0} : Words(argv, m, argc)
      BY <1>2 DEF ArgvInv
    <3>2. argc \in Nat /\ \A k \in 0..argc - 1 : argv[k] \in Seq(Letters)
      BY <3>1 DEF Words
    <3> QED
      BY <3>2, WordsTextShape
  <2>3. c \in Text
    BY DEF PipelineRead
  <2> QED
    BY <1>2, <2>1, <2>2, <2>3 DEF Cat
<1>9. SpellCommand(Command)' = Cat(c, FileText(r))
  <2> HIDE DEF w, c
  <2>1. Cat(Cat(w, FilesText(redir)), FileText(r)) = Cat(w, Cat(FilesText(redir), FileText(r)))
    BY <1>6, <1>7, <1>8, CatAssociates
  <2> QED
    BY <1>7, <1>8, <2>1
<1> HIDE DEF sign, word, w
<1> DEFINE p == SubSeq(tokens, 1, pos)
<1>10. SubSeq(tokens', 1, pos') = Cat(Cat(p, sign), word)
  <2>1. SubSeq(tokens, 1, pos + 1) = Cat(p, sign)
    <3>1. pos + 1 <= Len(tokens)
      BY <1>1
    <3> QED
      BY <1>1, <1>4, <3>1, ReadMore DEF Cat
  <2>2. SubSeq(tokens, 1, (pos + 1) + 1) = Cat(SubSeq(tokens, 1, pos + 1), word)
    <3>1. pos + 1 \in Nat /\ (pos + 1) + 1 <= Len(tokens) /\ (pos + 1) + 1 = pos + 2
      BY <1>1, LexShape
    <3> QED
      BY <1>4, <3>1, ReadMore DEF Cat
  <2>3. (pos + 1) + 1 = pos + 2
    BY <1>1
  <2> QED
    BY <1>1, <1>2, <2>1, <2>2, <2>3
<1> DEFINE t == TreeText(tree)
           s == Sign(op)
           u == StoredText(cmds, count)
           b == Bar(count)
<1>11. t \in Text /\ s \in Text /\ u \in Text /\ b \in Text
  BY <1>2, PartsKnown DEF InPipeline
<1>12. p = Parts(t, s, u, b, c)
  BY DEF PipelineRead
<1> HIDE DEF t, s, u, b, c, p
<1>13. Cat(Cat(p, sign), word) = Parts(t, s, u, b, Cat(c, FileText(r)))
  <2>1. Cat(c, sign) \in Text
    BY <1>6, <1>8, Concat
  <2>2. Cat(p, sign) = Parts(t, s, u, b, Cat(c, sign))
    <3>1. sign \in Text /\ c \in Text
      BY <1>6, <1>8
    <3>2. Cat(Parts(t, s, u, b, c), sign) = Parts(t, s, u, b, Cat(c, sign))
      BY <1>11, <3>1, PartsGrow
    <3> QED
      BY <1>12, <3>2
  <2>3. Cat(Cat(p, sign), word) = Parts(t, s, u, b, Cat(Cat(c, sign), word))
    <3> DEFINE more == Cat(c, sign)
    <3>1. more \in Text /\ word \in Text
      BY <1>6, <2>1
    <3> HIDE DEF more
    <3>2. Cat(Parts(t, s, u, b, more), word) = Parts(t, s, u, b, Cat(more, word))
      BY <1>11, <3>1, PartsGrow
    <3> QED
      BY <2>2, <3>2 DEF more
  <2>4. Cat(Cat(c, sign), word) = Cat(c, Cat(sign, word))
    BY <1>6, <1>8, CatAssociates
  <2> QED
    BY <1>6, <2>3, <2>4
<1>14. SubSeq(tokens', 1, pos') = Parts(TreeText(tree'), Sign(op'), StoredText(cmds', count'),
                                        Bar(count'), SpellCommand(Command)')
  BY <1>2, <1>9, <1>10, <1>13 DEF t, s, u, b
<1>15. SpellCommand(Command)' \in Text
  BY <1>6, <1>8, <1>9, Concat
<1>16. (\A k \in 0..count - 1 : Runnable(cmds[k]))' /\ (op \in ListOperators \cup {NULL})'
       /\ (redir \in Seq(Files))' /\ Command'.argc = Command.argc
  BY <1>2, <1>7 DEF PipelineRead, Runnable, Complete, Command
<1> QED
  BY <1>14, <1>15, <1>16 DEF PipelineRead

LEMMA RedirectionRight ==
    ASSUME LexInv, ArgvInv, LeadInv, InRedirections, ParseRedirection, pc' # "crashed"
    PROVE  InRedirections' \/ Wrong'
<1>1. Read /\ WordLast /\ TreeRead /\ PipelineRead /\ Complete(Command)
  BY DEF InRedirections
<1>2. /\ pos \in Nat /\ pos' = pos + 2 /\ pos + 2 \in 1..Len(tokens)
      /\ pos + 1 \in 1..Len(tokens) /\ Kind(pos + 1) \in Redirections
      /\ Fits(pos)
      /\ redir' = Append(redir, [type |-> Kind(pos + 1),
                                 filename |-> tokens[pos + 2].lexeme])
  BY <1>1, RedirectionReads
<1>3. tokens' = tokens /\ tree' = tree /\ pc' = "redirections"
  BY DEF ParseRedirection, lexVars
<1>4. \A k : Kind(k)' = Kind(k)
  BY <1>3, KindsStay
<1>5. CASE Kind(pos + 2) = "WORD"
  <2>1. PipelineRead' /\ Command'.argc = Command.argc
    BY <1>1, <1>5, RedirectionText
  <2>2. ReadTo(pos + 1)
    <3>1. pos # 0 /\ pos + 1 <= Len(tokens)
      BY <1>1, <1>2 DEF WordLast
    <3> QED
      BY <1>1, <1>2, <3>1, ReadFits DEF Read
  <2>3. Fits(pos + 1)
    <3>1. (pos + 1) + 1 = pos + 2 /\ (pos + 1) - 1 = pos
      BY <1>2
    <3> QED
      BY <1>1, <1>2, <1>5, <3>1, Kinds DEF Fits, WordLast
  <2>4. ReadTo((pos + 1) + 1)
    <3>1. pos + 1 # 0 /\ (pos + 1) + 1 <= Len(tokens)
      BY <1>2, LexShape
    <3> QED
      BY <2>2, <2>3, <3>1, ReadFits
  <2>5. Read'
    <3>1. pos' = (pos + 1) + 1
      BY <1>2
    <3> QED
      BY <1>3, <2>4, <3>1, ReadStays
  <2>6. TreeRead'
    BY <1>1, <1>3, TreeStays
  <2>7. WordLast'
    <3>1. Kind(pos)' = Kind(pos + 2)
      BY <1>2, <1>3 DEF Kind
    <3> QED
      BY <1>2, <1>5, <3>1 DEF WordLast
  <2>8. FileLast'
    <3>1. Kind(pos - 1)' = Kind(pos + 1)
      <4>1. pos' - 1 = pos + 1
        BY <1>2
      <4> QED
        BY <1>3, <4>1 DEF Kind
    <3> QED
      BY <1>2, <3>1 DEF FileLast
  <2>9. Complete(Command)'
    <3>1. Command'.argc # 0
      BY <1>1, <2>1 DEF Complete
    <3>2. Command'.redir = redir' /\ redir' \in Seq(Files)
      BY <2>1 DEF Command, PipelineRead
    <3>3. DOMAIN redir' = 1..Len(redir')
      BY <3>2, LenProperties
    <3>4. ASSUME NEW k \in DOMAIN redir' PROVE redir'[k].filename # NULL
      <4>1. redir'[k] \in Files
        BY <3>2, <3>3, ElementOfSeq
      <4> QED
        BY <4>1, LexerAssumption DEF Files
    <3> QED
      BY <3>1, <3>2, <3>4 DEF Complete
  <2> QED
    BY <2>1, <2>5, <2>6, <2>7, <2>8, <2>9 DEF InRedirections
<1>6. CASE Kind(pos + 2) # "WORD"
  <2>1. ~Sentence
    <3>1. (pos + 1) + 1 = pos + 2
      BY <1>2
    <3>2. ~Fits(pos + 1)
      BY <1>2, <1>6, <3>1 DEF Fits
    <3> QED
      BY <1>2, <3>2, Misfit
  <2>2. ~Sentence'
    BY <1>3, <2>1, SentenceStays
  <2>3. ~Complete(Command)'
    <3> DEFINE r == [type |-> Kind(pos + 1), filename |-> tokens[pos + 2].lexeme]
               all == Files \cup {r}
    <3>1. r.filename = NULL
      BY <1>2, <1>6, TokenShape
    <3>2. redir' = Append(redir, r)
      BY <1>2
    <3>3. redir \in Seq(all) /\ r \in all
      <4>1. redir \in Seq(Files) /\ Files \subseteq all
        BY <1>1 DEF PipelineRead
      <4> QED
        BY <4>1, SeqMonotonic
    <3> HIDE DEF r, all
    <3>4. /\ Len(redir) \in Nat /\ redir' \in Seq(all) /\ Len(redir') = Len(redir) + 1
          /\ redir'[Len(redir) + 1] = r
      BY <3>2, <3>3, AppendProperties, LenProperties
    <3>5. Len(redir) + 1 \in DOMAIN redir'
      BY <3>4, LenProperties
    <3> QED
      BY <3>1, <3>4, <3>5 DEF Complete, Command
  <2> QED
    BY <1>3, <2>2, <2>3 DEF Wrong, Incomplete
<1> QED
  BY <1>5, <1>6

\* A redirection at the end of the line, on which the parser crashes.
LEMMA RedirectionCrash ==
    ASSUME LexInv, ArgvInv, ParseRedirection, pc' = "crashed" PROVE ~Sentence
<1>1. pos \in Nat /\ Len(tokens) \in Nat
  BY LexShape DEF ArgvInv
<1>2. peek_token(pos) \in Redirections /\ ~(pos + 1 < Len(tokens))
  BY DEF ParseRedirection
<1>3. Kind(pos + 1) \in Redirections
  BY <1>1, <1>2, PeekKind
<1>4. pos + 1 \in 1..Len(tokens) /\ pos + 1 = Len(tokens)
  <2>1. Kind(pos + 1) # "END"
    BY <1>3, Kinds
  <2>2. pos + 1 \in DOMAIN tokens
    BY <2>1 DEF Kind
  <2>3. DOMAIN tokens = 1..Len(tokens)
    BY TokenShape
  <2>4. pos + 1 \in 1..Len(tokens)
    BY <2>2, <2>3
  <2>5. ~(pos + 1 < Len(tokens))
    BY <1>2
  <2> QED
    BY <1>1, <2>4, <2>5
<1>5. Kind((pos + 1) + 1) # "WORD"
  BY <1>4, TokenShape, Kinds
<1>6. ~Fits(pos + 1)
  BY <1>3, <1>5 DEF Fits
<1> QED
  BY <1>4, <1>6, Misfit

\* A command that has its words and files.
LEMMA CommandRunnable ==
    ASSUME ArgvInv, InRedirections, pc = "redirections" PROVE Runnable(Command)
<1>1. Complete(Command) /\ SpellCommand(Command) \in Text
  BY DEF InRedirections, PipelineRead
<1>2. PICK m \in Nat \ {0} : Words(argv, m, argc)
  BY DEF ArgvInv
<1>3. argc # 0 /\ argc \in Nat
  BY <1>1, <1>2 DEF Complete, Command, Words
<1>4. argv[0] # NULL
  <2>1. 0 \in 0..m /\ ~(argc <= 0)
    BY <1>3
  <2> QED
    BY <1>2, <2>1 DEF Words
<1>5. Command.argv[0] # NULL
  BY <1>4 DEF Command
<1> QED
  BY <1>1, <1>5 DEF Runnable

\* A command without words has no text.
LEMMA NewCommandText ==
    ASSUME StartCommand
    PROVE  SpellCommand(Command)' = <<>> /\ redir' = <<>> /\ argc' = 0
<1>1. argc' = 0 /\ redir' = <<>>
  BY DEF StartCommand
<1>2. SpellCommand(Command)' = WordsText(argv', argc') \o FilesText(redir')
  BY CommandText DEF Command
<1>3. WordsText(argv', 0) = <<>>
  BY DEF WordsText
<1>4. <<>> \o <<>> = <<>>
  BY SignText, CatEmpty DEF Cat
<1> QED
  BY <1>1, <1>2, <1>3, <1>4, NoFiles

LEMMA NextCommandRight ==
    ASSUME LexInv, ArgvInv, LeadInv, InRedirections, NextCommand PROVE InWords'
<1>1. Read /\ WordLast /\ TreeRead /\ PipelineRead /\ Runnable(Command)
  BY CommandRunnable DEF InRedirections, NextCommand
<1>2. /\ tokens' = tokens /\ tree' = tree /\ op' = op /\ pos' = pos + 1
      /\ pc = "redirections" /\ StartCommand
  BY DEF NextCommand, lexVars
<1>3. /\ pos \in Nat /\ Kind(pos + 1) = "|" /\ pos + 1 \in 1..Len(tokens)
      /\ pos + 1 <= Len(tokens)
  <2>1. peek_token(pos) = "|"
    BY DEF NextCommand
  <2>2. peek_token(pos) # "END"
    BY <2>1
  <2>3. Kind(pos + 1) = "|" /\ pos \in Nat
    BY <1>1, <2>1, PosShape
  <2> QED
    BY <1>1, <2>2, <2>3, PosShape
<1>4. Read'
  <2>1. Fits(pos)
    BY <1>1, <1>3, WordFits
  <2>2. pos # 0
    BY <1>1, <1>3 DEF WordLast
  <2>3. ReadTo(pos + 1)
    BY <1>1, <1>3, <2>1, <2>2, ReadFits DEF Read
  <2> QED
    BY <1>2, <2>3, ReadStays
<1>5. TreeRead'
  BY <1>1, <1>2, TreeStays
<1>6. /\ SpellCommand(Command)' = <<>> /\ redir' = <<>> /\ argc' = 0
  BY <1>2, NewCommandText
<1>7. WordsRead'
  <2>1. Kind(pos)' = "|"
    BY <1>2, <1>3 DEF Kind
  <2>2. pos' > 0
    BY <1>2, <1>3
  <2> QED
    BY <1>6, <2>1, <2>2 DEF WordsRead, BarLast
<1>8. /\ count \in Nat /\ count' = count + 1
      /\ cmds'[count] = Command
      /\ \A k \in 0..count - 1 : cmds'[k] = cmds[k]
  BY CommandsKept
<1> DEFINE t == TreeText(tree)
           s == Sign(op)
           u == StoredText(cmds, count)
           b == Bar(count)
           c == SpellCommand(Command)
           sign == Bar(count + 1)
           p == SubSeq(tokens, 1, pos)
<1>9. /\ t \in Text /\ s \in Text /\ u \in Text /\ b \in Text /\ sign \in Text
      /\ StoredSpelt(cmds, count) /\ c \in Text
  BY <1>1, <1>2, PartsKnown, BarText DEF InPipeline, Runnable
<1>10. p = Parts(t, s, u, b, c)
  BY <1>1 DEF PipelineRead
<1>11. StoredText(cmds', count + 1) = Cat(u, Cat(b, c))
  <2>1. SpellCommand(cmds'[count]) \in Text
    BY <1>8, <1>9
  <2>2. StoredText(cmds', count + 1) = u \o (b \o SpellCommand(cmds'[count]))
    BY <1>8, <1>9, <2>1, StoredTextGrows
  <2> QED
    BY <1>8, <2>2 DEF Cat
<1>12. SubSeq(tokens', 1, pos') = Cat(p, sign)
  <2>1. tokens[pos + 1] = [type |-> "|", lexeme |-> NULL]
    BY <1>3, TokenShape
  <2>2. count + 1 # 0 /\ "|" \in TokenTypes \ {"WORD"}
    BY <1>8, Kinds
  <2>3. sign = <<tokens[pos + 1]>>
    BY <2>1, <2>2, SignText DEF Bar
  <2>4. SubSeq(tokens, 1, pos + 1) = Cat(p, <<tokens[pos + 1]>>)
    BY <1>3, ReadMore DEF Cat
  <2> QED
    BY <1>2, <2>3, <2>4
<1> HIDE DEF t, s, u, b, c, sign, p
<1>13. Cat(p, sign) = Parts(t, s, Cat(u, Cat(b, c)), sign, <<>>)
  <2>1. t \in Text /\ s \in Text /\ u \in Text /\ b \in Text /\ sign \in Text /\ c \in Text
    BY <1>9
  <2>2. Cat(Parts(t, s, u, b, c), sign) = Parts(t, s, Cat(u, Cat(b, c)), sign, <<>>)
    BY <2>1, PartsNext
  <2> QED
    BY <1>10, <2>2
<1>14. SubSeq(tokens', 1, pos') = Parts(TreeText(tree'), Sign(op'), StoredText(cmds', count'),
                                        Bar(count'), SpellCommand(Command)')
  BY <1>2, <1>6, <1>8, <1>11, <1>12, <1>13 DEF t, s, sign
<1>15. (\A k \in 0..count - 1 : Runnable(cmds[k]))'
  <2>1. ASSUME NEW k \in 0..(count + 1) - 1 PROVE Runnable(cmds'[k])
    <3>1. k \in 0..count - 1 \/ k = count
      BY <1>8
    <3>2. CASE k \in 0..count - 1
      BY <1>1, <1>8, <3>2 DEF PipelineRead
    <3>3. CASE k = count
      BY <1>1, <1>8, <3>3
    <3> QED
      BY <3>1, <3>2, <3>3
  <2> QED
    BY <1>8, <2>1 DEF Runnable, Complete
<1>16. PipelineRead'
  BY <1>1, <1>2, <1>6, <1>14, <1>15, NoFiles, SignText DEF PipelineRead
<1> QED
  BY <1>4, <1>5, <1>6, <1>7, <1>16 DEF InWords

\* A pipeline that goes into the tree.
LEMMA PipelineEndsText ==
    ASSUME LexInv, ArgvInv, LeadInv, InRedirections, PipelineEnds
    PROVE  /\ SubSeq(tokens, 1, pos) = TreeText(tree')
           /\ TreeSpelt(tree')
           /\ \A c \in Commands(tree') : Runnable(c)
<1>1. TreeRead /\ PipelineRead /\ Runnable(Command) /\ pc = "redirections"
  BY CommandRunnable DEF InRedirections, PipelineEnds
<1>2. count \in Nat
  BY TreeEnds
<1>3. PICK array :
         /\ array[count] = Command
         /\ \A k \in 0..count - 1 : array[k] = cmds[k]
         /\ tree' = Append(tree, [op |-> op, right |-> Pipeline(array, count + 1)])
  BY TreeEnds
<1> DEFINE node == [op |-> op, right |-> Pipeline(array, count + 1)]
           t == TreeText(tree)
           s == Sign(op)
           u == StoredText(cmds, count)
           b == Bar(count)
           c == SpellCommand(Command)
<1>4. /\ t \in Text /\ s \in Text /\ u \in Text /\ b \in Text
      /\ StoredSpelt(cmds, count) /\ c \in Text
  BY <1>1, PartsKnown DEF InPipeline, Runnable
<1>5. SubSeq(tokens, 1, pos) = Parts(t, s, u, b, c)
  BY <1>1 DEF PipelineRead
<1>6. StoredText(array, count + 1) = Cat(u, Cat(b, c))
  <2>1. SpellCommand(array[count]) \in Text
    BY <1>3, <1>4
  <2>2. StoredText(array, count + 1) = u \o (b \o SpellCommand(array[count]))
    BY <1>2, <1>3, <1>4, <2>1, StoredTextGrows
  <2> QED
    BY <1>3, <2>2 DEF Cat
<1>7. NodeText(node) = Cat(s, Cat(u, Cat(b, c)))
  <2>1. SpellPipeline(Pipeline(array, count + 1)) = StoredText(array, count + 1)
    BY <1>2, PipelineText
  <2>2. NodeText(node) = s \o SpellPipeline(Pipeline(array, count + 1))
    BY DEF NodeText
  <2> HIDE DEF node, s, u, b, c
  <2> QED
    BY <1>6, <2>1, <2>2 DEF Cat
<1>8. tree' = Append(tree, node)
  BY <1>3
<1>9. node.right = Pipeline(array, count + 1)
  OBVIOUS
<1> HIDE DEF node, t, s, u, b, c
<1>10. /\ Parts(t, s, u, b, c) = Cat(t, Cat(s, Cat(u, Cat(b, c))))
       /\ Cat(s, Cat(u, Cat(b, c))) \in Text
  <2>1. t \in Text /\ s \in Text /\ u \in Text /\ b \in Text /\ c \in Text
    BY <1>4
  <2>2. Parts(t, s, u, b, c) = Cat(t, Cat(s, Cat(u, Cat(b, c))))
    BY <2>1, PartsSplit
  <2>3. Cat(s, Cat(u, Cat(b, c))) \in Text
    BY <2>1, PartsText
  <2> QED
    BY <2>2, <2>3
<1>11. TreeText(tree') = TreeText(tree) \o NodeText(node) /\ TreeSpelt(tree')
  <2>1. TreeSpelt(tree) /\ NodeText(node) \in Text
    BY <1>1, <1>7, <1>10 DEF TreeRead
  <2> QED
    BY <1>8, <2>1, TreeTextGrows
<1>12. SubSeq(tokens, 1, pos) = TreeText(tree')
  BY <1>5, <1>7, <1>10, <1>11 DEF Cat, t
<1>13. ASSUME NEW d \in Commands(tree') PROVE Runnable(d)
  <2>1. PICK S : tree \in Seq(S)
    BY <1>1 DEF TreeRead, TreeSpelt
  <2>2. Commands(tree') = Commands(tree) \cup Range(node.right)
    BY <1>8, <2>1, CommandsGrow
  <2>3. Range(node.right) = {array[k] : k \in 0..(count + 1) - 1}
    BY <1>2, <1>9, PipelineCommands
  <2>4. CASE d \in Commands(tree)
    BY <1>1, <2>4 DEF TreeRead
  <2>5. ASSUME NEW k \in 0..(count + 1) - 1 PROVE Runnable(array[k])
    <3>1. k \in 0..count - 1 \/ k = count
      BY <1>2
    <3> QED
      BY <1>1, <1>3, <3>1 DEF PipelineRead
  <2> QED
    BY <2>2, <2>3, <2>4, <2>5
<1> QED
  BY <1>11, <1>12, <1>13

LEMMA PipelineEndsRight ==
    ASSUME LexInv, ArgvInv, LeadInv, InRedirections, PipelineEnds PROVE InList'
<1>1. tokens' = tokens /\ pos' = pos
  BY DEF PipelineEnds, lexVars
<1>2. Read /\ WordLast /\ (Kind(pos + 1) = "WORD" => FileLast)
  BY DEF InRedirections
<1>3. Kind(pos + 1) \notin Redirections \cup {"|"}
  <2>1. peek_token(pos) \notin Redirections \cup {"|"}
    BY DEF PipelineEnds
  <2> QED
    BY <1>2, <2>1, PosShape
<1>4. Read'
  BY <1>1, <1>2, ReadStays DEF Read
<1>5. /\ SubSeq(tokens, 1, pos) = TreeText(tree')
      /\ TreeSpelt(tree') /\ \A c \in Commands(tree') : Runnable(c)
  BY PipelineEndsText
<1>6. TreeRead'
  BY <1>5 DEF TreeRead, TreeSpelt, Runnable, Complete
<1>7. SubSeq(tokens', 1, pos') = TreeText(tree')
  BY <1>1, <1>5
<1>8. Kind(pos + 1)' = Kind(pos + 1) /\ WordLast' /\ (FileLast => FileLast')
  BY <1>1, <1>2 DEF Kind, WordLast, FileLast
<1> QED
  BY <1>2, <1>3, <1>4, <1>6, <1>7, <1>8 DEF InList

\* An operator of a list.
LEMMA OperatorReads ==
    ASSUME LexInv, InList, ParseOperator
    PROVE  /\ pos \in Nat /\ pos' = pos + 1 /\ tokens' = tokens
           /\ pos + 1 \in 1..Len(tokens)
           /\ peek_token(pos) = Kind(pos + 1) /\ Kind(pos + 1) \in ListOperators
           /\ IF peek_token(pos + 1) = "END" THEN pos + 1 = Len(tokens)
                                            ELSE Kind(pos + 2) # "END"
           /\ Read'
           /\ Cat(TreeText(tree), Sign(Kind(pos + 1))) = SubSeq(tokens', 1, pos')
<1>1. peek_token(pos) \in ListOperators /\ pos' = pos + 1 /\ tokens' = tokens
  BY DEF ParseOperator, lexVars
<1>2. /\ pos \in Nat /\ Len(tokens) \in Nat
      /\ peek_token(pos) = Kind(pos + 1) /\ Kind(pos + 1) \in ListOperators
  BY <1>1, PosShape DEF InList
<1>3. pos + 1 \in 1..Len(tokens) /\ pos + 1 <= Len(tokens)
  <2>1. Kind(pos + 1) # "END" /\ Read
    BY <1>2, Kinds DEF InList
  <2> QED
    BY <2>1, PosShape
<1>4. DOMAIN tokens = 1..Len(tokens)
  BY TokenShape
<1>5. IF peek_token(pos + 1) = "END" THEN pos + 1 = Len(tokens)
                                    ELSE Kind(pos + 2) # "END"
  <2>1. CASE pos + 1 >= Len(tokens)
    <3>1. peek_token(pos + 1) = "END"
      BY <2>1 DEF peek_token
    <3>2. pos + 1 = Len(tokens)
      BY <1>2, <1>3, <2>1
    <3> QED
      BY <3>1, <3>2
  <2>2. CASE ~(pos + 1 >= Len(tokens))
    <3>1. pos + 2 \in 1..Len(tokens) /\ (pos + 1) + 1 = pos + 2
      BY <1>2, <2>2
    <3>2. peek_token(pos + 1) = Kind(pos + 2)
      BY <1>4, <2>2, <3>1 DEF peek_token, Kind
    <3>3. Kind(pos + 2) # "END"
      BY <3>1, TokenShape, Kinds
    <3> QED
      BY <3>2, <3>3
  <2> QED
    BY <2>1, <2>2
<1>6. Read'
  <2>1. pos # Len(tokens)
    BY <1>2, <1>3
  <2>2. WordLast
    BY <2>1 DEF InList
  <2>3. Kind(pos + 1) # "WORD"
    BY <1>2, Kinds
  <2>4. Fits(pos) /\ pos # 0
    BY <1>2, <2>2, <2>3, WordFits DEF WordLast
  <2>5. ReadTo(pos + 1)
    BY <1>3, <2>4, ReadFits DEF InList, Read
  <2> QED
    BY <1>1, <2>5, ReadStays
<1>7. Sign(Kind(pos + 1)) = <<tokens[pos + 1]>>
  <2>1. Kind(pos + 1) \in TokenTypes \ {"WORD"}
    BY <1>2, Kinds
  <2>2. tokens[pos + 1] = [type |-> Kind(pos + 1), lexeme |-> NULL]
    BY <1>3, <2>1, TokenShape
  <2> QED
    BY <2>1, <2>2, SignText
<1>8. Cat(TreeText(tree), Sign(Kind(pos + 1))) = SubSeq(tokens', 1, pos')
  <2>1. SubSeq(tokens, 1, pos + 1) = SubSeq(tokens, 1, pos) \o <<tokens[pos + 1]>>
    BY <1>2, <1>3, ReadMore
  <2>2. SubSeq(tokens, 1, pos) = TreeText(tree)
    BY DEF InList
  <2> QED
    BY <1>1, <1>7, <2>1, <2>2 DEF Cat
<1> QED
  BY <1>1, <1>2, <1>3, <1>5, <1>6, <1>8

\* The right side is missing.
LEMMA OperatorEnds ==
    ASSUME LexInv, InList, ParseOperator, peek_token(pos + 1) = "END" PROVE InList'
<1>1. /\ pos' = pos + 1 /\ tokens' = tokens /\ pos \in Nat
      /\ peek_token(pos) = Kind(pos + 1) /\ Kind(pos + 1) \in ListOperators
      /\ pos + 1 = Len(tokens)
      /\ Cat(TreeText(tree), Sign(Kind(pos + 1))) = SubSeq(tokens', 1, pos')
      /\ Read'
  BY OperatorReads
<1> DEFINE node == [op |-> Kind(pos + 1), right |-> <<>>]
<1>2. tree' = Append(tree, node)
  BY <1>1 DEF ParseOperator
<1>3. NodeText(node) = Sign(Kind(pos + 1)) /\ NodeText(node) \in Text
  <2>1. Kind(pos + 1) \in TokenTypes \ {"WORD"}
    BY <1>1, Kinds
  <2>2. Sign(Kind(pos + 1)) \in Text
    BY <2>1, SignText
  <2>3. NodeText(node) = Cat(Sign(Kind(pos + 1)), <<>>)
    BY NoPipelineText DEF NodeText, Cat
  <2>4. Cat(Sign(Kind(pos + 1)), <<>>) = Sign(Kind(pos + 1))
    BY <2>2, CatEmpty
  <2> QED
    BY <2>2, <2>3, <2>4
<1>4. node.right = <<>>
  OBVIOUS
<1> HIDE DEF node
<1>5. TreeText(tree') = Cat(TreeText(tree), NodeText(node)) /\ TreeSpelt(tree')
  BY <1>2, <1>3, TreeTextGrows DEF InList, TreeRead, Cat
<1>6. ASSUME NEW c \in Commands(tree') PROVE Runnable(c)
  <2>1. PICK S : tree \in Seq(S)
    BY DEF InList, TreeRead, TreeSpelt
  <2>2. Commands(tree') = Commands(tree) \cup Range(<<>>)
    BY <1>2, <1>4, <2>1, CommandsGrow
  <2> QED
    BY <2>2, NoRange DEF InList, TreeRead
<1>7. TreeRead'
  BY <1>5, <1>6 DEF TreeRead, TreeSpelt, Runnable, Complete
<1>8. OperatorLast' /\ (pos = Len(tokens))'
  <2>1. Kind(pos)' = Kind(pos + 1)
    BY <1>1 DEF Kind
  <2> QED
    BY <1>1, <2>1 DEF OperatorLast
<1> QED
  BY <1>1, <1>3, <1>5, <1>7, <1>8 DEF InList

\* Another pipeline begins.
LEMMA OperatorBegins ==
    ASSUME LexInv, InList, ParseOperator, peek_token(pos + 1) # "END" PROVE InWords'
<1>1. /\ pos' = pos + 1 /\ tokens' = tokens /\ pos \in Nat
      /\ peek_token(pos) = Kind(pos + 1) /\ Kind(pos + 1) \in ListOperators
      /\ Kind(pos + 2) # "END"
      /\ Cat(TreeText(tree), Sign(Kind(pos + 1))) = SubSeq(tokens', 1, pos')
      /\ Read'
  BY OperatorReads
<1>2. StartPipeline(Kind(pos + 1)) /\ tree' = tree
  BY <1>1 DEF ParseOperator
<1>3. op' = Kind(pos + 1) /\ count' = 0 /\ StartCommand
  BY <1>2 DEF StartPipeline
<1>4. SpellCommand(Command)' = <<>> /\ redir' = <<>> /\ argc' = 0
  BY <1>3, NewCommandText
<1>5. TreeRead'
  BY <1>2, TreeStays DEF InList
<1>6. SubSeq(tokens', 1, pos') = Parts(TreeText(tree'), Sign(op'), StoredText(cmds', count'),
                                       Bar(count'), SpellCommand(Command)')
  <2>1. TreeText(tree) \in Text
    <3> DEFINE node == [op |-> NULL, right |-> <<>>]
    <3>1. NodeText(node) = Cat(Sign(NULL), <<>>)
      BY NoPipelineText DEF NodeText, Cat
    <3>2. NodeText(node) \in Text
      BY <3>1, SignText, Concat
    <3> HIDE DEF node
    <3>3. TreeSpelt(tree)
      BY DEF InList, TreeRead
    <3> QED
      BY <3>2, <3>3, TreeTextGrows
  <2>2. Sign(Kind(pos + 1)) \in Text
    <3>1. Kind(pos + 1) \in TokenTypes \ {"WORD"}
      BY <1>1, Kinds
    <3> QED
      BY <3>1, SignText
  <2>3. StoredText(cmds', 0) = <<>> /\ Bar(0) = <<>>
    BY StoredTextEmpty, SignText DEF Bar
  <2>4. Parts(TreeText(tree), Sign(Kind(pos + 1)), <<>>, <<>>, <<>>)
            = Cat(TreeText(tree), Sign(Kind(pos + 1)))
    BY <2>1, <2>2, PartsBegin
  <2> QED
    BY <1>1, <1>2, <1>3, <1>4, <2>3, <2>4
<1>7. PipelineRead'
  <2>1. 0..0 - 1 = {}
    OBVIOUS
  <2>2. (\A k \in 0..count - 1 : Runnable(cmds[k]))'
    BY <1>3, <2>1
  <2>3. (redir \in Seq(Files))' /\ (SpellCommand(Command) \in Text)'
    <3>1. <<>> \in Seq(Files)
      BY EmptySeq
    <3> QED
      BY <1>4, <3>1, SignText
  <2> QED
    BY <1>1, <1>3, <1>6, <2>2, <2>3 DEF PipelineRead
<1>8. WordsRead'
  <2>1. Kind(pos)' = Kind(pos + 1) /\ Kind(pos + 1)' = Kind(pos + 2)
    <3>1. pos' = pos + 1 /\ pos' + 1 = pos + 2
      BY <1>1
    <3> QED
      BY <1>1, <3>1 DEF Kind
  <2>2. pos' > 0
    BY <1>1
  <2> QED
    BY <1>1, <1>4, <2>1, <2>2 DEF WordsRead, OperatorLast
<1> QED
  BY <1>1, <1>4, <1>5, <1>7, <1>8 DEF InWords

LEMMA ListEndsRight ==
    ASSUME LexInv, InList, ListEnds PROVE InList'
<1>1. tokens' = tokens /\ pos' = pos /\ tree' = tree
  BY DEF ListEnds, parseVars, lexVars
<1>2. Read' /\ TreeRead'
  BY <1>1, ReadStays, TreeStays DEF InList, Read
<1> QED
  BY <1>1, <1>2 DEF InList, WordLast, OperatorLast, FileLast, Kind

LEMMA StartParseRight ==
    ASSUME LexInv, StartParse PROVE InWords'
<1>1. /\ pos' = 0 /\ tokens' = tokens /\ tree' = <<>> /\ op' = NULL /\ count' = 0
      /\ StartCommand
  BY DEF StartParse, StartPipeline, lexVars
<1>2. SpellCommand(Command)' = <<>> /\ redir' = <<>> /\ argc' = 0
  BY <1>1, NewCommandText
<1>3. Read'
  <2>1. ReadTo(0)
    <3>1. Len(tokens) \in Nat /\ 0 \in 0..Len(tokens) /\ 1..0 - 1 = {}
      BY LexShape
    <3> QED
      BY <3>1 DEF ReadTo
  <2> QED
    BY <1>1, <2>1, ReadStays
<1>4. TreeRead'
  <2>1. Commands(<<>>) = {}
    BY EmptySeq DEF Commands
  <2> QED
    BY <1>1, <2>1, TreeTextEmpty DEF TreeRead
<1>5. SubSeq(tokens', 1, pos') = Parts(TreeText(tree'), Sign(op'), StoredText(cmds', count'),
                                       Bar(count'), SpellCommand(Command)')
  <2>1. SubSeq(tokens, 1, 0) = <<>>
    BY LexShape, SubSeqEmpty
  <2>2. TreeText(<<>>) = <<>> /\ Sign(NULL) = <<>> /\ <<>> \in Text
    BY TreeTextEmpty, SignText
  <2>3. StoredText(cmds', 0) = <<>> /\ Bar(0) = <<>>
    BY StoredTextEmpty, SignText DEF Bar
  <2>4. Parts(<<>>, <<>>, <<>>, <<>>, <<>>) = Cat(<<>>, <<>>)
    BY <2>2, PartsBegin
  <2>5. Cat(<<>>, <<>>) = <<>>
    BY <2>2, CatEmpty
  <2> QED
    BY <1>1, <1>2, <2>1, <2>2, <2>3, <2>4, <2>5
<1>6. PipelineRead'
  <2>1. 0..0 - 1 = {}
    OBVIOUS
  <2>2. (\A k \in 0..count - 1 : Runnable(cmds[k]))'
    BY <1>1, <2>1
  <2>3. (redir \in Seq(Files))' /\ (SpellCommand(Command) \in Text)'
    <3>1. <<>> \in Seq(Files)
      BY EmptySeq
    <3> QED
      BY <1>2, <3>1, SignText
  <2> QED
    BY <1>1, <1>5, <2>2, <2>3 DEF PipelineRead
<1> QED
  BY <1>1, <1>2, <1>3, <1>4, <1>6 DEF InWords, WordsRead

-----------------------------------------------------------------------------
(* The tree is the line's, or the line is not one of the language.           *)

\* Every step of the parser keeps that, but for the one on which it crashes.
LEMMA ParseKeepsTree ==
    ASSUME LexInv, ArgvInv, LeadInv, TreeInv, Parse, pc' # "crashed" PROVE TreeInv'
<1>1. CASE pc = "scanned"
  <2>1. StartParse /\ pc' = "words"
    BY <1>1 DEF Parse, StartParse, GetWord, WordsEnd, ParseRedirection, NextCommand,
                PipelineEnds, ParseOperator, ListEnds
  <2>2. InWords'
    BY <2>1, StartParseRight
  <2>3. (\E S : redir \in Seq(S))'
    BY <2>2 DEF InWords, PipelineRead
  <2> QED
    BY <2>1, <2>2, <2>3 DEF TreeInv
<1>2. CASE pc # "scanned"
  <2>1. Parsing /\ (InPipeline => \E S : redir \in Seq(S))
    BY <1>2 DEF Parse, StartParse, GetWord, WordsEnd, ParseRedirection, NextCommand,
                PipelineEnds, ParseOperator, ListEnds, Parsing, TreeInv
  <2>2. CASE GetWord
    <3>1. pc = "words" /\ pc' = "words" /\ redir' = redir
      BY <2>2 DEF GetWord
    <3>2. InWords' \/ Wrong'
      BY <2>1, <2>2, <3>1, GetWordRight, WrongStays DEF TreeInv, Parse
    <3>3. (\E S : redir \in Seq(S))'
      BY <2>1, <3>1 DEF InPipeline
    <3> QED
      BY <3>1, <3>2, <3>3 DEF TreeInv
  <2>3. CASE WordsEnd
    <3>1. pc = "words" /\ pc' = "redirections" /\ redir' = redir
      BY <2>3 DEF WordsEnd, parseVars
    <3>2. InRedirections' \/ Wrong'
      BY <2>1, <2>3, <3>1, WordsEndRight, WrongStays DEF TreeInv, Parse
    <3>3. (\E S : redir \in Seq(S))'
      BY <2>1, <3>1 DEF InPipeline
    <3> QED
      BY <3>1, <3>2, <3>3 DEF TreeInv
  <2>4. CASE ParseRedirection
    <3>1. pc = "redirections" /\ pc' = "redirections" /\ \E r : redir' = Append(redir, r)
      BY <2>4 DEF ParseRedirection
    <3>2. InRedirections' \/ Wrong'
      BY <2>1, <2>4, <3>1, RedirectionRight, WrongStays DEF TreeInv, Parse
    <3>3. (\E S : redir \in Seq(S))'
      <4>1. PICK S : redir \in Seq(S)
        BY <2>1, <3>1 DEF InPipeline
      <4>2. PICK r : redir' = Append(redir, r)
        BY <3>1
      <4>3. redir \in Seq(S \cup {r}) /\ r \in S \cup {r}
        <5>1. S \subseteq S \cup {r}
          OBVIOUS
        <5> QED
          BY <4>1, <5>1, SeqMonotonic
      <4>4. redir' \in Seq(S \cup {r})
        BY <4>2, <4>3, AppendProperties
      <4> QED
        BY <4>4
    <3> QED
      BY <3>1, <3>2, <3>3 DEF TreeInv
  <2>5. CASE NextCommand
    <3>1. pc = "redirections" /\ pc' = "words"
      BY <2>5 DEF NextCommand
    <3>2. InWords' \/ Wrong'
      BY <2>1, <2>5, <3>1, NextCommandRight, WrongStays DEF TreeInv, Parse
    <3>3. (\E S : redir \in Seq(S))'
      <4>1. redir' = <<>>
        BY <2>5 DEF NextCommand, StartCommand
      <4> QED
        BY <4>1, EmptySeq
    <3> QED
      BY <3>1, <3>2, <3>3 DEF TreeInv
  <2>6. CASE PipelineEnds
    <3>1. pc = "redirections" /\ pc' = "list"
      BY <2>6 DEF PipelineEnds
    <3>2. InList' \/ Wrong'
      BY <2>1, <2>6, <3>1, PipelineEndsRight, WrongStays DEF TreeInv, Parse
    <3> QED
      BY <3>1, <3>2 DEF TreeInv, InPipeline
  <2>7. CASE ParseOperator
    <3>1. /\ pc = "list" /\ pc' \in {"list", "words"}
          /\ pc' = "list" <=> peek_token(pos + 1) = "END"
      BY <2>7 DEF ParseOperator
    <3>2. ASSUME InList PROVE (pc' = "list" => InList') /\ (pc' = "words" => InWords')
      BY <2>7, <3>1, <3>2, OperatorEnds, OperatorBegins
    <3>3. InList \/ Wrong'
      BY <2>1, <2>7, <3>1, WrongStays DEF TreeInv, Parse
    <3>4. pc' = "words" => (\E S : redir \in Seq(S))'
      <4>1. pc' = "words" => redir' = <<>>
        BY <2>7, <3>1 DEF ParseOperator, StartPipeline, StartCommand
      <4> QED
        BY <4>1, EmptySeq
    <3> QED
      BY <3>1, <3>2, <3>3, <3>4 DEF TreeInv, InPipeline
  <2>8. CASE ListEnds
    <3>1. pc = "list" /\ pc' = "parsed"
      BY <2>8 DEF ListEnds
    <3>2. InList' \/ Wrong'
      BY <2>1, <2>8, <3>1, ListEndsRight, WrongStays DEF TreeInv, Parse
    <3>3. Kind(pos + 1)' \notin ListOperators
      <4>1. peek_token(pos) \notin ListOperators /\ pos' = pos /\ tokens' = tokens
        BY <2>8 DEF ListEnds, parseVars, lexVars
      <4>2. pos \in Nat
        BY <2>1 DEF ArgvInv, Parsing
      <4>3. Kind(pos + 1) \notin ListOperators
        BY <4>1, <4>2, PeekKind
      <4> QED
        BY <4>1, <4>3 DEF Kind
    <3> QED
      BY <3>1, <3>2, <3>3 DEF TreeInv, InPipeline
  <2> QED
    BY <1>2, <2>2, <2>3, <2>4, <2>5, <2>6, <2>7, <2>8 DEF Parse, StartParse
<1> QED
  BY <1>1, <1>2

LEMMA Treeing == Spec => []TreeInv
<1>1. Init => TreeInv
  BY DEF Init, TreeInv, InPipeline
<1>2. LexInv /\ ArgvInv /\ LeadInv /\ TreeInv /\ [Next]_vars => TreeInv'
  <2> SUFFICES ASSUME LexInv, ArgvInv, LeadInv, TreeInv, [Next]_vars PROVE TreeInv'
    OBVIOUS
  <2>1. CASE pc' \in {"start", "prompt", "scan", "scanned", "crashed"}
    BY <2>1 DEF TreeInv, InPipeline
  <2>2. CASE Start
    BY <2>1, <2>2 DEF Start
  <2>3. ASSUME NEW l \in Typed[env], EnterLine(l) PROVE TreeInv'
    BY <2>1, <2>3 DEF EnterLine
  <2>4. CASE Tokenize
    <3>1. pc' \in {"scan", "scanned"}
      BY <2>4 DEF Tokenize, Scan, ReadBlank, ReadOperator, ReadLetter, Round, LineScanned
    <3> QED
      BY <2>1, <3>1
  <2>5. CASE BuildTree
    BY <2>1, <2>5, ParseKeepsTree DEF BuildTree
  <2>6. CASE UNCHANGED <<pc, lexVars, parseVars>>
    <3>1. UNCHANGED <<pc, tokens, pos, argv, argc, redir, cmds, count, op, tree>>
      BY <2>6 DEF lexVars, parseVars
    <3>2. /\ Kind(pos)' = Kind(pos) /\ Kind(pos + 1)' = Kind(pos + 1)
          /\ FileLast' = FileLast
      BY <3>1 DEF Kind, FileLast
    <3>3. /\ WordLast' = WordLast /\ OperatorLast' = OperatorLast /\ BarLast' = BarLast
          /\ WordsRead' = WordsRead
      BY <3>1, <3>2 DEF WordLast, OperatorLast, BarLast, WordsRead
    <3>4. Read => Read'
      BY <3>1, ReadStays DEF Read
    <3>5. TreeRead => TreeRead'
      BY <3>1, TreeStays
    <3>6. Command' = Command /\ PipelineRead' = PipelineRead
      BY <3>1 DEF Command, PipelineRead, Runnable, Complete
    <3>7. Wrong' = Wrong
      BY <3>1, <3>6, SentenceStays DEF Wrong, Incomplete, InPipeline, Complete
    <3>8. InWords => InWords'
      BY <3>1, <3>3, <3>4, <3>5, <3>6 DEF InWords
    <3>9. InRedirections => InRedirections'
      BY <3>1, <3>2, <3>3, <3>4, <3>5, <3>6 DEF InRedirections, Complete
    <3>10. InList => InList'
      BY <3>1, <3>2, <3>3, <3>4, <3>5 DEF InList
    <3> QED
      BY <3>1, <3>2, <3>7, <3>8, <3>9, <3>10 DEF TreeInv, InPipeline
  <2>7. CASE Execute
    <3>1. pc' = "crashed" \/ pc' = pc
      BY <2>7 DEF Execute
    <3> QED
      BY <2>1, <2>6, <2>7, <3>1 DEF Execute, lexVars, parseVars
  <2>8. CASE FinishLine
    BY <2>1, <2>8 DEF FinishLine
  <2>9. CASE UNCHANGED vars
    BY <2>6, <2>9 DEF vars
  <2> QED
    BY <2>2, <2>3, <2>4, <2>5, <2>7, <2>8, <2>9 DEF Next
<1> QED
  BY <1>1, <1>2, Lexing, Arrays, Leading, PTL DEF Spec

\* The tree that the parser hands over.
LEMMA ParsedRight ==
    ASSUME LexInv, TreeInv, pc = "parsed"
    PROVE  /\ Sentence => /\ pos = Len(tokens) /\ Spelling = tokens
                          /\ \A c \in Commands(tree) : Runnable(c)
           /\ ~Sentence => pos < Len(tokens) \/ \E c \in Commands(tree) : ~Complete(c)
<1>1. CASE Wrong
  BY <1>1 DEF Wrong, Incomplete, InPipeline
<1>2. CASE InList
  <2>1. /\ Read /\ pos \in Nat /\ Len(tokens) \in Nat /\ pos <= Len(tokens)
        /\ Kind(pos + 1) \notin ListOperators
        /\ pos # 0 => pos \in 1..Len(tokens)
    BY <1>2, PosShape DEF InList, TreeInv
  <2>2. /\ SubSeq(tokens, 1, pos) = TreeText(tree)
        /\ \A c \in Commands(tree) : Runnable(c)
    BY <1>2 DEF InList, TreeRead
  <2>3. pos # 0 /\ pos \in 1..Len(tokens)
    BY <1>2, <2>1, Kinds DEF InList, WordLast, OperatorLast
  <2>4. CASE pos = Len(tokens)
    <3>1. Spelling = tokens
      BY <2>2, <2>4, LexShape, SubSeqFull, SpellingIsText
    <3>2. Kind(pos + 1) = "END"
      BY <2>4, TokenShape
    <3>3. Fits(pos)
      BY <1>2, <3>2, Kinds DEF Fits, InList, WordLast, OperatorLast
    <3>4. ASSUME NEW k \in DOMAIN tokens PROVE Fits(k)
      <4>1. k \in 1..Len(tokens)
        BY TokenShape
      <4>2. k = pos \/ k \in 1..pos - 1
        BY <2>1, <2>4, <4>1
      <4> QED
        BY <2>1, <3>3, <4>2 DEF Read, ReadTo
    <3>5. Sentence
      BY <2>1, <2>3, <3>4, SentenceFits DEF Read, ReadTo
    <3> QED
      BY <2>2, <2>4, <3>1, <3>5
  <2>5. CASE pos # Len(tokens)
    <3>1. pos + 1 \in 1..Len(tokens) /\ pos < Len(tokens)
      BY <2>1, <2>5
    <3>2. WordLast /\ Kind(pos + 1) \notin Redirections \cup {"|"}
          /\ (Kind(pos + 1) = "WORD" => FileLast)
      BY <1>2, <2>5 DEF InList
    <3>3. Kind(pos + 1) = "WORD" /\ FileLast
      <4>1. Kind(pos + 1) \in TokenTypes
        BY <3>1, TokenShape
      <4> QED
        BY <2>1, <3>2, <4>1, Kinds
    <3>4. ~Fits(pos)
      BY <3>3 DEF Fits, FileLast
    <3>5. ~Sentence
      BY <2>3, <3>4, Misfit
    <3> QED
      BY <3>1, <3>5
  <2> QED
    BY <2>4, <2>5
<1> QED
  BY <1>1, <1>2 DEF TreeInv

=============================================================================
