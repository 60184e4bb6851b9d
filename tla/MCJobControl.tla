---------------------------- MODULE MCJobControl ----------------------------
(* JobControl on a small instance: three process ids, two exit codes, and  *)
(* lines that reach every branch of execute_list and execute_command.       *)
EXTENDS JobControl

Cmd(kind) == [kind |-> kind, redir |-> "none"]
X == Cmd("external")
Line(pipes, ops) == [pipes |-> pipes, ops |-> ops]

MCPids == 1..3
MCExitCodes == {0, 129}

MCPrograms == {
    Line(<<<<X>>, <<X>>>>, <<";">>),                           \* x ; x
    Line(<<<<X>>>>, <<"&">>),                                  \* x &
    Line(<<<<X>>, <<X>>, <<X>>>>, <<"&&", "||">>),             \* x && x || x
    Line(<<<<X>>, <<X>>, <<X>>>>, <<"||", "&">>),              \* x || x & x
    Line(<<<<X>>, <<Cmd("missing")>>, <<X>>>>, <<"&", ";">>),  \* x & ? ; x
    Line(<<<<Cmd("builtinOk")>>, <<X>>>>, <<"&&">>),           \* cd && x
    Line(<<<<Cmd("builtinFail")>>, <<X>>>>, <<"||">>),         \* cd ? || x
    Line(<<<<Cmd("exit"), X>>>>, <<"&">>),                     \* exit | x &
    Line(<<<<X, Cmd("builtinOk")>>>>, <<>>),                   \* x | history
    Line(<<<<[kind |-> "exit", redir |-> "in"]>>, <<X>>>>, <<";">>),
                                                               \* exit < f ; x
    Line(<<<<[kind |-> "exit", redir |-> "out"]>>>>, <<>>),    \* exit > f
    Line(<<<<Cmd("exit")>>>>, <<>>) }

\* The runs that show what the documentation has wrong need one line each, and
\* no more processes than the one in the foreground and one left behind.
MCTwoPids == 1..2
MCOne == {Line(<<<<X>>>>, <<>>)}
MCAfterBuiltin == {Line(<<<<Cmd("builtinOk")>>, <<X>>>>, <<";">>)}
MCBackground == {Line(<<<<X>>>>, <<"&">>)}

=============================================================================
