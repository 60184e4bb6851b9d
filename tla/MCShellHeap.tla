----------------------------- MODULE MCShellHeap -----------------------------
(* ShellHeap with the sizes of a 64-bit machine and a few lines.            *)
EXTENDS ShellHeap

Cmd(words, redirs) == [words |-> words, redirs |-> redirs]
Times(n, x) == [i \in 1..n |-> x]

Dir(n) == [opens |-> TRUE, reads |-> TRUE, names |-> n]
Missing == [opens |-> FALSE, reads |-> FALSE, names |-> 0]
NoDirectory == [opens |-> TRUE, reads |-> FALSE, names |-> 0]
Var(len, dirs) == [len |-> len, dirs |-> dirs]

\* One directory and two, directories that cannot be opened or read, two
\* variables whose names start with PATH, and none.
MCEnvs == {
    <<Var(8, <<Dir(3)>>)>>,
    <<Var(13, <<Dir(2), Dir(6)>>)>>,
    <<Var(20, <<Dir(2), Missing, Dir(4)>>)>>,
    <<Var(14, <<Dir(1), NoDirectory>>), Var(5, <<Dir(2)>>)>>,
    <<Var(4, <<>>), Var(9, <<Dir(3)>>)>>,
    <<>> }

\* Commands of up to ten words, pipelines of up to ten stages.
MCLines == {
    [len |-> 20, list |-> <<<<Cmd(<<2, 9>>, <<>>)>>>>, trail |-> FALSE],
    [len |-> 300, list |-> <<<<Cmd(<<4, 1>>, <<>>), Cmd(<<3>>, <<8>>)>>>>,
     trail |-> FALSE],
    [len |-> 80, list |-> <<<<Cmd(<<2>>, <<5, 30>>)>>, <<Cmd(<<7, 24>>, <<>>)>>>>,
     trail |-> TRUE],
    [len |-> 100, list |-> <<<<Cmd(Times(10, 3), <<>>)>>, <<Cmd(<<1>>, <<>>)>>,
                             <<Cmd(<<1, 40>>, <<1, 1, 1>>)>>>>, trail |-> FALSE],
    [len |-> 70, list |-> <<[i \in 1..10 |-> Cmd(<<i>>, <<>>)]>>,
     trail |-> FALSE] }

\* Two directories, with 8 and with 25 executables.
MCTwoDirectories == { <<Var(18, <<Dir(8), Dir(25)>>)>> }

=============================================================================
