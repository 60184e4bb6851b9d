------------------------------ MODULE FrontEnd ------------------------------
(***************************************************************************)
(* From the text of a line to the files that are executed: main builds the *)
(* symbol table, and for each line tokenizes it, parses it, looks up the   *)
(* commands that the executor comes to, and frees the tree and the tokens. *)
(***************************************************************************)
EXTENDS Parser, SymbolTable, SequencesExt

CONSTANT Typed      \* the lines that may be typed in each environment

ASSUME TypedAssumption ==
    /\ Typed \in [Envs -> SUBSET Seq(Chars)]
    /\ \A e \in Envs : \A l \in Typed[e] : Len(l) \in 1..MaxLine

\* Whatever is typed can be the name of a command: map_lookup hashes every string.
ASSUME NamesAssumption == \A n \in 1..MaxWord : [1..n -> Letters] \subseteq Names

VARIABLE found      \* the command that was looked up last, and what was found

vars == <<pc, lexVars, parseVars, tableVars, found>>

Init ==
    /\ TableInit /\ lexer_init /\ NoTree
    /\ pc = "start"
    /\ found = NULL

\* main up to its loop.
Start ==
    /\ pc = "start"
    /\ BuildTable
    /\ pc' = CASE building' = "ready" -> "prompt"
               [] building' = "crashed" -> "crashed"
               [] OTHER -> "start"
    /\ UNCHANGED <<lexVars, parseVars, found>>

EnterLine(l) ==
    /\ pc = "prompt"
    /\ pc' = "scan"
    /\ line' = l /\ at' = 0
    /\ UNCHANGED <<buf, tokens, capacity, parseVars, tableVars, found>>

Tokenize == Scan /\ UNCHANGED <<parseVars, tableVars, found>>

BuildTree == Parse /\ UNCHANGED <<tableVars, found>>

Commands(list) == UNION {Range(list[k].right) : k \in DOMAIN list}

\* execute_command looks its first word up.  Which commands the executor comes
\* to is JobControl's; map_lookup reads the name through its pointer.
Execute ==
    /\ pc = "parsed"
    /\ \E c \in Commands(tree) :
          LET name == c.argv[0]
          IN  IF name = NULL THEN pc' = "crashed" /\ UNCHANGED found
              ELSE IF Stop(table, name) \in Wild(table)
              THEN pc' = "crashed" /\ UNCHANGED found
              ELSE /\ found' = [name |-> name, val |-> Lookup(table, name)]
                   /\ UNCHANGED pc
    /\ UNCHANGED <<lexVars, parseVars, tableVars>>

FinishLine ==
    /\ pc = "parsed"
    /\ pc' = "prompt"
    /\ free_ast /\ free_tokens
    /\ line' = <<>> /\ at' = 0 /\ found' = NULL
    /\ UNCHANGED <<buf, capacity, tableVars>>

Next ==
    \/ Start
    \/ \E l \in Typed[env] : EnterLine(l)
    \/ Tokenize \/ BuildTree \/ Execute \/ FinishLine

\* The shell's only thread runs on.
Spec == Init /\ [][Next]_vars /\ WF_vars(Start \/ Tokenize \/ BuildTree)

-----------------------------------------------------------------------------
(* The reference: what a line means, by positions in its text.             *)

IsLetter(k) == k \in DOMAIN line /\ line[k] \in Letters

\* An operator's second character: the same one stands before it, and an even
\* number of them before that.
Second(k) ==
    /\ line[k] \in {"&", "|", ">"}
    /\ \E run \in 1..k - 1 :
          /\ \A m \in run..k : line[m] = line[k]
          /\ run = 1 \/ line[run - 1] # line[k]
          /\ (k - run) % 2 = 1

WordStarts == {k \in DOMAIN line : IsLetter(k) /\ ~IsLetter(k - 1)}
OperatorStarts == {k \in DOMAIN line :
                      line[k] \notin Letters \cup {" "} /\ ~Second(k)}

\* The letters from k on.
Word(k) == SubSeq(line, k,
                  CHOOSE m \in k..Len(line) :
                      (\A q \in k..m : IsLetter(q)) /\ ~IsLetter(m + 1))

OperatorText(k) ==
    IF k + 1 \in DOMAIN line /\ Second(k + 1)
    THEN CASE line[k] = "&" -> "&&" [] line[k] = "|" -> "||" [] line[k] = ">" -> ">>"
    ELSE line[k]

TokenAt(k) == IF k \in WordStarts THEN [type |-> "WORD", lexeme |-> Word(k)]
              ELSE [type |-> OperatorText(k), lexeme |-> NULL]

LineTokens ==
    LET starts == WordStarts \cup OperatorStarts
        Nth(n) == CHOOSE k \in starts : Cardinality({m \in starts : m <= k}) = n
    IN  [n \in 1..Cardinality(starts) |-> TokenAt(Nth(n))]

\* shell_supported_ebnf.txt, by what may stand next to what; the parser also
\* accepts an operator of a list at the end.
Sentence ==
    LET type(k) == IF k \in DOMAIN tokens THEN tokens[k].type ELSE "END"
    IN  /\ type(1) = "WORD"
        /\ \A k \in DOMAIN tokens :
              /\ type(k) \in ListOperators => type(k + 1) \in {"WORD", "END"}
              /\ type(k) \in Redirections \cup {"|"} => type(k + 1) = "WORD"
              /\ k > 1 /\ type(k - 1) \in Redirections => type(k + 1) # "WORD"

\* The tokens a tree is written with.
WordToken(word) == [type |-> "WORD", lexeme |-> word]
SpellCommand(c) ==
    [k \in 1..c.argc |-> WordToken(c.argv[k - 1])] \o
    FlattenSeq([k \in DOMAIN c.redir |->
        << [type |-> c.redir[k].type, lexeme |-> NULL],
           WordToken(c.redir[k].filename) >>])

Sign(operator) == IF operator = NULL THEN <<>>
                  ELSE << [type |-> operator, lexeme |-> NULL] >>

SpellPipeline(p) ==
    FlattenSeq([k \in DOMAIN p |->
        Sign(IF k = 1 THEN NULL ELSE "|") \o SpellCommand(p[k])])

Spelling == FlattenSeq([k \in DOMAIN tree |->
                Sign(tree[k].op) \o SpellPipeline(tree[k].right)])

-----------------------------------------------------------------------------
(* Properties.                                                             *)

\* The variables keep their types, and the array of a command has a NULL after
\* its words, for resize_string_array and execve.
TypeOK ==
    /\ LexTypeOK
    /\ pc \in {"start", "prompt", "scan", "scanned", "words", "redirections",
               "list", "parsed", "crashed"}
    /\ pos \in 0..Len(tokens)
    /\ building \in {"variables", "entries", "builtins", "ready", "crashed"}
    /\ DOMAIN table.slot = 0..table.size - 1
    /\ table.num = Cardinality(DOMAIN table.slot \ (Free(table) \cup Wild(table)))

\* execve and resize_string_array find the end of the words of a command, also
\* after the array has been replaced in the middle of them.
ArgvTerminated ==
    pc \in {"words", "redirections", "list", "parsed"} =>
        /\ argc \in DOMAIN argv /\ argv[argc] = NULL
        /\ \A k \in 0..argc - 1 : argv[k] # NULL

\* The tokens are those of the line, operators of two characters from the left.
\* Only behind a word of MaxWord letters (lexer.c:65) is the rest not read.
TokensRight ==
    pc = "scanned" =>
        \/ tokens = LineTokens
        \/ /\ Len(tokens) > 0
           /\ tokens[Len(tokens)].type = "WORD"
           /\ Len(tokens[Len(tokens)].lexeme) = MaxWord
           /\ \E k \in WordStarts : k + MaxWord - 1 = at

\* A line of the language is parsed to its end, and its tree has its words,
\* operators and redirections in their order, however many there are.  For any
\* other line the parser, which reports no error, stops early or leaves a command
\* without words, a redirection without a file, or crashes on one.
TreeRight ==
    /\ pc = "parsed" =>
          IF Sentence THEN pos = Len(tokens) /\ Spelling = tokens
          ELSE \/ pos < Len(tokens)
               \/ \E c \in Commands(tree) :
                     \/ c.argc = 0
                     \/ \E k \in DOMAIN c.redir : c.redir[k].filename = NULL
    /\ pc = "crashed" /\ building = "ready" /\ ~damaged => ~Sentence

\* What is executed is what was typed: the command begins a word at the line's
\* start or behind an operator that ends a command, and it stands for the file of
\* the last directory of PATH that has it.  That it is all of the word, up to
\* MaxWord letters, is what TokensRight and TreeRight say together.
RunsWhatWasTyped ==
    found # NULL =>
        /\ \E k \in WordStarts :
              /\ found.name = SubSeq(line, k, k + Len(found.name) - 1)
              /\ \A m \in 1..k - 1 :
                    (\A q \in m + 1..k - 1 : line[q] = " ")
                        => line[m] \in {" ", ";", "&", "|"}
        /\ ~damaged => found.val = Meaning(found.name)

\* The loops of the start, of rehash, of the lexer and of the parser come to an
\* end: the shell gets to its prompt, and from every line to its commands.
Responds == pc \notin {"prompt", "parsed", "crashed"}
                ~> pc \in {"prompt", "parsed", "crashed"}

=============================================================================
