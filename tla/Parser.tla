------------------------------- MODULE Parser -------------------------------
(***************************************************************************)
(* The recursive descent parser (parser.c) over the lexer's tokens.  The   *)
(* recursion is at most list > pipeline > command > redirections, so the   *)
(* control state says where in the command, and the pipelines and the list *)
(* under construction say where the callers are.                           *)
(***************************************************************************)
EXTENDS Lexer, FiniteSets

CONSTANTS
    WordsAtFirst,       \* arr_size of get_words
    CommandsAtFirst     \* size of parse_pipeline

ASSUME ParserAssumption ==
    /\ WordsAtFirst \in Nat \ {0}
    /\ CommandsAtFirst \in Nat \ {0}
    /\ NULL \notin TokenTypes

VARIABLES
    pos,        \* how many tokens have been consumed
    argv,       \* the array of the command that is being parsed
    argc,
    redir,      \* its redirections
    cmds,       \* the array of the pipeline's commands
    count,      \* how many of them have been parsed
    op,         \* the operator before the pipeline, NULL for the first
    tree        \* the list so far: operators and pipelines from left to right,
                \* <<>> for a right side that is missing

parseVars == <<pos, argv, argc, redir, cmds, count, op, tree>>

NoTree ==
    /\ pos = 0 /\ argv = NULL /\ argc = 0 /\ redir = <<>>
    /\ cmds = NULL /\ count = 0 /\ op = NULL /\ tree = <<>>

-----------------------------------------------------------------------------
(* Arrays and nodes.                                                       *)

\* Mutant: no cell for the terminator.
alloc_unterminated(size) == [k \in 0..size - 1 |-> NULL]

alloc_string_array(size) == [k \in 0..size |-> NULL]

\* The words up to the first NULL move to an array of the new size.
resize_string_array(cur, size) ==
    [k \in DOMAIN alloc_string_array(size) |->
        IF k \in DOMAIN cur /\ \A m \in 0..k : cur[m] # NULL
        THEN cur[k] ELSE NULL]

alloc_cmd_array(size) == [k \in 0..size - 1 |-> NULL]

resize_cmd_array(cur, size) ==
    [k \in 0..size - 1 |-> IF k \in DOMAIN cur THEN cur[k] ELSE NULL]

Pipeline(array, n) == [k \in 1..n |-> array[k - 1]]

-----------------------------------------------------------------------------

peek_token(k) == IF k >= Len(tokens) THEN "END" ELSE tokens[k + 1].type

\* parse_command and get_words start.
StartCommand == argv' = alloc_string_array(WordsAtFirst) /\ argc' = 0 /\ redir' = <<>>

StartPipeline(operator) ==
    /\ op' = operator
    /\ cmds' = alloc_cmd_array(CommandsAtFirst) /\ count' = 0
    /\ StartCommand

StartParse ==
    /\ pc = "scanned"
    /\ pc' = "words"
    /\ pos' = 0 /\ tree' = <<>>
    /\ StartPipeline(NULL)
    /\ UNCHANGED lexVars

\* get_words, one word: the array doubles when it is full.
GetWord ==
    /\ pc = "words" /\ peek_token(pos) = "WORD"
    /\ LET size == Cardinality(DOMAIN argv) - 1
           room == IF argc = size THEN resize_string_array(argv, 2 * size) ELSE argv
       IN  argv' = [room EXCEPT ![argc] = tokens[pos + 1].lexeme]
    /\ argc' = argc + 1
    /\ pos' = pos + 1
    /\ UNCHANGED <<pc, redir, cmds, count, op, tree, lexVars>>

WordsEnd ==
    /\ pc = "words" /\ peek_token(pos) # "WORD"
    /\ pc' = "redirections"
    /\ UNCHANGED <<parseVars, lexVars>>

\* parse_redirection takes whatever token follows as the file.
ParseRedirection ==
    /\ pc = "redirections" /\ peek_token(pos) \in Redirections
    /\ IF pos + 1 < Len(tokens)
       THEN /\ redir' = Append(redir, [type |-> tokens[pos + 1].type,
                                       filename |-> tokens[pos + 2].lexeme])
            /\ pos' = pos + 2
            /\ UNCHANGED pc
       ELSE /\ pc' = "crashed"      \* next_token returns NULL
            /\ pos' = pos + 1
            /\ UNCHANGED redir
    /\ UNCHANGED <<argv, argc, cmds, count, op, tree, lexVars>>

Command == [argv |-> argv, argc |-> argc, redir |-> redir]

\* parse_pipeline stores the command and goes on after a "|", with an array of
\* twice the size when it is full.
NextCommand ==
    /\ pc = "redirections" /\ peek_token(pos) = "|"
    /\ LET stored == [cmds EXCEPT ![count] = Command]
           size == Cardinality(DOMAIN cmds)
       IN  cmds' = IF count + 1 = size THEN resize_cmd_array(stored, 2 * size)
                                       ELSE stored
    /\ count' = count + 1
    /\ pos' = pos + 1
    /\ pc' = "words"
    /\ StartCommand
    /\ UNCHANGED <<op, tree, lexVars>>

\* The pipeline ends: parse_list takes it as its first or as a right side.
PipelineEnds ==
    /\ pc = "redirections" /\ peek_token(pos) \notin Redirections \cup {"|"}
    /\ LET pipeline == Pipeline([cmds EXCEPT ![count] = Command], count + 1)
       IN  tree' = Append(tree, [op |-> op, right |-> pipeline])
    /\ pc' = "list"
    /\ UNCHANGED <<pos, argv, argc, redir, cmds, count, op, lexVars>>

\* An operator of a list; a right side is missing at the end of the line.
ParseOperator ==
    /\ pc = "list" /\ peek_token(pos) \in ListOperators
    /\ pos' = pos + 1
    /\ IF peek_token(pos + 1) = "END"
       THEN /\ tree' = Append(tree, [op |-> peek_token(pos), right |-> <<>>])
            /\ UNCHANGED <<pc, argv, argc, redir, cmds, count, op>>
       ELSE /\ pc' = "words"
            /\ StartPipeline(peek_token(pos))
            /\ UNCHANGED tree
    /\ UNCHANGED lexVars

\* Mutant: the list ends before a trailing operator is looked at.
ListEndsEarly ==
    /\ pc = "list" /\ pos + 1 >= Len(tokens)
    /\ pc' = "parsed"
    /\ UNCHANGED <<parseVars, lexVars>>

ListEnds ==
    /\ pc = "list" /\ peek_token(pos) \notin ListOperators
    /\ pc' = "parsed"
    /\ UNCHANGED <<parseVars, lexVars>>

Parse ==
    \/ StartParse \/ GetWord \/ WordsEnd \/ ParseRedirection \/ NextCommand
    \/ PipelineEnds \/ ParseOperator \/ ListEnds

\* The whole tree, and with it what the parser had made it from.
free_ast ==
    /\ pos' = 0 /\ argv' = NULL /\ argc' = 0 /\ redir' = <<>>
    /\ cmds' = NULL /\ count' = 0 /\ op' = NULL /\ tree' = <<>>

=============================================================================
