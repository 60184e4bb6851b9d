------------------------------- MODULE Lexer -------------------------------
(***************************************************************************)
(* tokenize and the token stream (lexer.c): one action for each round of   *)
(* its loop.  A character is a letter, a blank or one of the characters    *)
(* that operators are made of; a word is the sequence of its letters.      *)
(***************************************************************************)
EXTENDS Machine, Integers, Sequences

CONSTANTS
    Letters,        \* the characters of words
    MaxLine,        \* the longest line my_readline returns: LDISC_MAX_LINE - 1
    MaxWord,        \* the length of word that ends the loop
    MAX_TOKENS      \* the slots that lexer_init allocates

ListOperators == {";", "&", "&&", "||"}
Redirections == {">", ">>", "<"}
TokenTypes == ListOperators \cup Redirections \cup {"|", "WORD"}

Chars == Letters \cup {" ", ";", "&", "|", ">", "<"}

ASSUME LexerAssumption ==
    /\ MaxLine \in Nat /\ MaxWord \in Nat \ {0} /\ MAX_TOKENS \in Nat
    /\ MaxLine < MAX_TOKENS
    /\ {" ", ";", "&", "|", ">", "<", ""} \cap Letters = {}
    /\ NULL \notin Seq(Letters)

VARIABLES
    pc,             \* where main's loop is
    line,           \* what has been typed
    at,             \* how many characters of it have been read
    buf,            \* the word that is being read
    tokens,         \* the tokens so far
    capacity        \* of tokens.arr

lexVars == <<line, at, buf, tokens, capacity>>

LexTypeOK ==
    /\ line \in Seq(Chars) /\ Len(line) <= MaxLine
    /\ at \in 0..Len(line)
    /\ buf \in Seq(Letters) /\ Len(buf) <= MaxWord
    /\ tokens \in Seq([type: TokenTypes, lexeme: Seq(Letters) \cup {NULL}])
    /\ capacity \in Nat

-----------------------------------------------------------------------------

lexer_init ==
    /\ line = <<>> /\ at = 0 /\ buf = <<>>
    /\ tokens = <<>>
    /\ capacity = MAX_TOKENS

CharAt(k) == IF k <= Len(line) THEN line[k] ELSE ""

\* Mutant: a word is only kept when a blank or the end follows.
word_dropped == IF CharAt(at + 1) \in {" ", ""} /\ buf # <<>>
                THEN Append(tokens, [type |-> "WORD", lexeme |-> buf])
                ELSE tokens

\* The tokens with the word in buf, when there is one.
update_word == IF buf = <<>> THEN tokens
               ELSE Append(tokens, [type |-> "WORD", lexeme |-> buf])

\* &&, || and >>.
Doubled(k) == CharAt(k) \in {"&", "|", ">"} /\ CharAt(k + 1) = CharAt(k)

Operator(k) ==
    IF ~Doubled(k) THEN CharAt(k)
    ELSE CASE CharAt(k) = "&" -> "&&" [] CharAt(k) = "|" -> "||"
           [] CharAt(k) = ">" -> ">>"

\* The loop goes on; it makes room at the start of a round only.
Round ==
    /\ pc = "scan"
    /\ at < Len(line) /\ Len(buf) < MaxWord
    /\ capacity' = IF Len(tokens) = capacity THEN 2 * capacity ELSE capacity
    /\ UNCHANGED <<pc, line>>

ReadBlank ==
    /\ Round
    /\ CharAt(at + 1) = " "
    /\ tokens' = update_word /\ buf' = <<>>
    /\ at' = at + 1

ReadOperator ==
    /\ Round
    /\ CharAt(at + 1) \notin Letters \cup {" "}
    /\ tokens' = Append(update_word, [type |-> Operator(at + 1), lexeme |-> NULL])
    /\ buf' = <<>>
    /\ at' = IF Doubled(at + 1) THEN at + 2 ELSE at + 1

ReadLetter ==
    /\ Round
    /\ CharAt(at + 1) \in Letters
    /\ buf' = Append(buf, CharAt(at + 1))
    /\ at' = at + 1
    /\ UNCHANGED tokens

\* The end of the line, or a word of MaxWord letters: update_word has cleared
\* i when it is compared with 256, so tokenize always returns the tokens.
LineScanned ==
    /\ pc = "scan"
    /\ at = Len(line) \/ Len(buf) = MaxWord
    /\ tokens' = update_word /\ buf' = <<>>
    /\ pc' = "scanned"
    /\ UNCHANGED <<line, at, capacity>>

Scan == ReadBlank \/ ReadOperator \/ ReadLetter \/ LineScanned

\* Mutant: the count is not set back.
keep_tokens == tokens' = tokens

free_tokens == tokens' = <<>>

-----------------------------------------------------------------------------
(* Properties.                                                             *)

\* The array that lexer_init made is enough for every line, so realloc_tokens
\* (lexer.c:40) never runs and no round, which may store two tokens after one
\* look at the capacity (lexer.c:66), stores one past the end: every token
\* takes a character of a line that is shorter than the array.
TokensFit == Len(tokens) <= capacity /\ capacity = MAX_TOKENS

=============================================================================
