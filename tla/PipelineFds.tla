---------------------------- MODULE PipelineFds ----------------------------
(***************************************************************************)
(* The file descriptors of one pipeline (execute.c: execute_pipeline,      *)
(* execute_command, handle_redirection): the shell creates the pipes and   *)
(* forks the stages; each stage rewires its descriptors, executes its      *)
(* program, and reads and writes until it ends.  The shell and the stages  *)
(* run concurrently.                                                       *)
(*                                                                         *)
(* A builtin that runs in the shell itself has no descriptors of its own:  *)
(* see JobControl.                                                         *)
(***************************************************************************)
EXTENDS Integers, Sequences, FiniteSetsExt

CONSTANTS
    Pipelines,  \* the pipelines that may be executed
    Limits,     \* the numbers of descriptors a process may have open
    Capacity,   \* how many units a pipe holds
    Output      \* how many units a program that produces output writes

\* What a stage runs: cat copies its input, head reads one unit, gen and the
\* history builtin write, true and the cd builtin do neither.
Externals == {"cat", "head", "gen", "true"}
Builtins == {"history", "cd"}
Command == [kind: Externals \cup Builtins \cup {"missing"},
            redirs: Seq({"in", "out"})]

ASSUME PipelinesAssumption ==
    \A pl \in Pipelines :
        /\ pl \in Seq(Command) /\ Len(pl) > 0
        /\ Len(pl) = 1 /\ pl[1].kind \in Builtins => pl[1].redirs # <<>>
ASSUME LimitsAssumption == Limits \subseteq Nat \ 0..2
ASSUME SizesAssumption == Capacity \in Nat \ {0} /\ Output \in Nat

STDIN_FD == 0
STDOUT_FD == 1
Shell == 0                      \* the stages are processes 1, 2, ...

\* What a descriptor refers to.
Closed == <<"closed", 0>>
Terminal == <<"tty", 0>>
File == <<"file", 0>>
ReadEnd(k) == <<"r", k>>        \* of the pipe after stage k
WriteEnd(k) == <<"w", k>>

VARIABLES
    pipe,       \* the pipeline being executed
    pc,         \* where execute_pipeline is
    i,          \* the stage it has reached
    fd,         \* the pipe it created for this stage
    cur_read,   \* where this stage's input comes from
    fds,        \* the descriptor table of every process
    stage,      \* where each stage is
    args,       \* the infd and outfd of each stage
    redirs,     \* the redirections each stage still has to make
    todo,       \* the units each stage has ready to write
    buf         \* the units in each pipe

shellVars == <<pc, i, fd, cur_read>>
childVars == <<args, redirs, todo>>
vars == <<pipe, shellVars, fds, stage, childVars, buf>>

Stages == 1..Len(pipe)
Links == 1..Len(pipe) - 1
Started == {p \in Stages : stage[p] \notin {"none", "dead"}}

\* The processes that hold one end of a pipe.
Holders(end) ==
    {p \in {Shell} \cup Stages : \E f \in DOMAIN fds[p] : fds[p][f] = end}

FreeFds(p) == {f \in DOMAIN fds[p] : fds[p][f] = Closed}
Close(table, S) == [f \in DOMAIN table |-> IF f \in S THEN Closed ELSE table[f]]
Dup2(table, old, new) == [table EXCEPT ![new] = table[old]]

TypeOK ==
    /\ pipe \in Pipelines
    /\ pc \in {"pipe", "fork", "closeWrite", "closeRead", "closeAgain", "done"}
    /\ i \in Stages
    /\ fd \in (Nat \cup {-1}) \X (Nat \cup {-1})
    /\ cur_read \in Nat
    /\ stage \in [Stages -> {"none", "setup", "redirect", "run", "dead"}]
    /\ args \in [Stages -> Nat \X Nat]
    /\ redirs \in [Stages -> Seq({"in", "out"})]
    /\ todo \in [Stages -> 0..Output + 1]
    /\ buf \in [Links -> 0..Capacity]
    /\ \A p \in {Shell} \cup Stages : \A f \in DOMAIN fds[p] :
          fds[p][f] \in {Closed, Terminal, File} \cup
                        {ReadEnd(k) : k \in Links} \cup
                        {WriteEnd(k) : k \in Links}

-----------------------------------------------------------------------------
(* execute_pipeline.                                                       *)

NoPipe == <<-1, -1>>

\* Mutant: pipe->count instead of pipe->count - 1.
IsPastLast == i = Len(pipe) + 1

IsLast == i = Len(pipe)
OutFd == IF IsLast THEN STDOUT_FD ELSE fd[2]

\* close_fd_wrapper on cur_read, unless it is the shell's own input.
ReadFds == IF cur_read # STDIN_FD THEN {cur_read} ELSE {}

CloseInShell(S) == fds' = [fds EXCEPT ![Shell] = Close(@, S)]

\* The kernel hands out the lowest descriptors that are free.
CreatePipe ==
    /\ pc = "pipe" /\ ~IsLast
    /\ Cardinality(FreeFds(Shell)) >= 2
    /\ LET r == Min(FreeFds(Shell))
           w == Min(FreeFds(Shell) \ {r})
       IN  /\ fd' = <<r, w>>
           /\ fds' = [fds EXCEPT ![Shell][r] = ReadEnd(i),
                                 ![Shell][w] = WriteEnd(i)]
    /\ pc' = "fork"
    /\ UNCHANGED <<pipe, i, cur_read, stage, childVars, buf>>

\* EMFILE: the pipeline is given up.
PipeFails ==
    /\ pc = "pipe" /\ ~IsLast
    /\ Cardinality(FreeFds(Shell)) < 2
    /\ CloseInShell(ReadFds)
    /\ pc' = "done"
    /\ UNCHANGED <<pipe, i, fd, cur_read, stage, childVars, buf>>

NoPipeNeeded ==
    /\ pc = "pipe" /\ IsLast
    /\ pc' = "fork"
    /\ UNCHANGED <<pipe, i, fd, cur_read, fds, stage, childVars, buf>>

\* The child starts with a copy of the shell's descriptors.
Fork ==
    /\ pc = "fork"
    /\ pipe[i].kind # "missing"
    /\ fds' = [fds EXCEPT ![i] = fds[Shell]]
    /\ stage' = [stage EXCEPT ![i] = "setup"]
    /\ args' = [args EXCEPT ![i] = <<cur_read, OutFd>>]
    /\ pc' = "closeWrite"
    /\ UNCHANGED <<pipe, i, fd, cur_read, redirs, todo, buf>>

\* Mutant: the error path forgets the read end of the new pipe.
CommandFailsLeaky ==
    /\ pc = "fork"
    /\ CloseInShell(ReadFds \cup (IF IsLast THEN {} ELSE {fd[2]}))
    /\ pc' = "done"
    /\ UNCHANGED <<pipe, i, fd, cur_read, stage, childVars, buf>>

\* The command does not exist, or fork fails.
CommandFails ==
    /\ pc = "fork"
    /\ CloseInShell(ReadFds \cup (IF IsLast THEN {} ELSE {fd[1], fd[2]}))
    /\ pc' = "done"
    /\ UNCHANGED <<pipe, i, fd, cur_read, stage, childVars, buf>>

\* Mutant: the shell keeps the write end.
KeepWrite ==
    /\ pc = "closeWrite"
    /\ pc' = "closeRead"
    /\ UNCHANGED <<pipe, i, fd, cur_read, fds, stage, childVars, buf>>

CloseWrite ==
    /\ pc = "closeWrite"
    /\ CloseInShell(IF IsLast THEN {} ELSE {fd[2]})
    /\ pc' = "closeRead"
    /\ UNCHANGED <<pipe, i, fd, cur_read, stage, childVars, buf>>

\* Mutant: only the close after the loop is left.
KeepRead ==
    /\ pc = "closeRead"
    /\ UNCHANGED fds
    /\ \/ /\ IsLast
          /\ pc' = "closeAgain"
          /\ UNCHANGED <<i, fd, cur_read>>
       \/ /\ ~IsLast
          /\ pc' = "pipe"
          /\ i' = i + 1
          /\ fd' = NoPipe
          /\ cur_read' = fd[1]
    /\ UNCHANGED <<pipe, stage, childVars, buf>>

\* The stage has its input: on to the next stage, which reads from this pipe.
CloseRead ==
    /\ pc = "closeRead"
    /\ CloseInShell(ReadFds)
    /\ \/ /\ IsLast
          /\ pc' = "closeAgain"
          /\ UNCHANGED <<i, fd, cur_read>>
       \/ /\ ~IsLast
          /\ pc' = "pipe"
          /\ i' = i + 1
          /\ fd' = NoPipe
          /\ cur_read' = fd[1]
    /\ UNCHANGED <<pipe, stage, childVars, buf>>

\* After the loop, cur_read still names the descriptor that was closed.
CloseAgain ==
    /\ pc = "closeAgain"
    /\ CloseInShell(ReadFds)
    /\ pc' = "done"
    /\ UNCHANGED <<pipe, i, fd, cur_read, stage, childVars, buf>>

-----------------------------------------------------------------------------
(* execute_command, in the child.                                          *)

\* A process that ends closes everything.
Die(p) ==
    /\ stage' = [stage EXCEPT ![p] = "dead"]
    /\ fds' = [fds EXCEPT ![p] = Close(@, DOMAIN @)]

\* Mutant: the output is closed without having been duplicated.
RewiredInput(p) ==
    LET infd == args[p][1]
        in == IF infd # STDIN_FD THEN Dup2(fds[p], infd, STDIN_FD) ELSE fds[p]
    IN  Close(in, {infd, args[p][2]} \ {STDIN_FD, STDOUT_FD})

Rewired(p) ==
    LET infd == args[p][1]
        outfd == args[p][2]
        in == IF infd # STDIN_FD THEN Dup2(fds[p], infd, STDIN_FD) ELSE fds[p]
        out == IF outfd # STDOUT_FD THEN Dup2(in, outfd, STDOUT_FD) ELSE in
    IN  Close(out, {infd, outfd} \ {STDIN_FD, STDOUT_FD})

Setup(p) ==
    /\ stage[p] = "setup"
    /\ fds' = [fds EXCEPT ![p] = Rewired(p)]
    /\ stage' = [stage EXCEPT ![p] = "redirect"]
    /\ UNCHANGED <<pipe, shellVars, childVars, buf>>

\* One round of handle_redirection: open, dup2 and close.
Redirect(p) ==
    /\ stage[p] = "redirect"
    /\ redirs[p] # <<>>
    /\ FreeFds(p) # {}
    /\ LET target == IF Head(redirs[p]) = "in" THEN STDIN_FD ELSE STDOUT_FD
       IN  fds' = [fds EXCEPT ![p][target] = File]
    /\ redirs' = [redirs EXCEPT ![p] = Tail(@)]
    /\ UNCHANGED <<pipe, shellVars, stage, args, todo, buf>>

\* openat or execve fails: the child exits with 129 or 127.
StageFails(p) ==
    /\ stage[p] = "redirect"
    /\ redirs[p] # <<>> \/ pipe[p].kind \in Externals
    /\ Die(p)
    /\ UNCHANGED <<pipe, shellVars, childVars, buf>>

\* Mutant: the pipes are created without O_CLOEXEC.
Inherited(table) == table

\* What execve leaves of a table: the pipes' descriptors are O_CLOEXEC, their
\* copies that dup2 made are not.
AfterExec(table) == Close(table, DOMAIN table \ 0..2)

\* A program replaces the shell's image; a builtin runs in it.
Run(p) ==
    /\ stage[p] = "redirect"
    /\ redirs[p] = <<>>
    /\ stage' = [stage EXCEPT ![p] = "run"]
    /\ fds' = IF pipe[p].kind \in Builtins THEN fds
              ELSE [fds EXCEPT ![p] = AfterExec(@)]
    /\ UNCHANGED <<pipe, shellVars, childVars, buf>>

-----------------------------------------------------------------------------
(* The programs: read and write until end of file, SIGPIPE or completion.  *)

Input(p) == fds[p][STDIN_FD]
Out(p) == fds[p][STDOUT_FD]

\* The end of the file: nothing is left, and nobody can write any more.
AtEof(p) ==
    \A k \in Links : Input(p) = ReadEnd(k)
        => buf[k] = 0 /\ Holders(WriteEnd(k)) = {}

Read(p) ==
    /\ stage[p] = "run" /\ todo[p] = 0
    /\ pipe[p].kind \in {"cat", "head"}
    /\ \E k \in Links :
          /\ Input(p) = ReadEnd(k)
          /\ buf[k] > 0
          /\ buf' = [buf EXCEPT ![k] = @ - 1]
    /\ \/ /\ pipe[p].kind = "cat"
          /\ todo' = [todo EXCEPT ![p] = 1]
          /\ UNCHANGED <<stage, fds>>
       \/ /\ pipe[p].kind = "head"
          /\ Die(p)
          /\ UNCHANGED todo
    /\ UNCHANGED <<pipe, shellVars, args, redirs>>

\* There is no output left, and no input either.
Finish(p) ==
    /\ stage[p] = "run" /\ todo[p] = 0
    /\ pipe[p].kind \in {"cat", "head"} => AtEof(p)
    /\ Die(p)
    /\ UNCHANGED <<pipe, shellVars, childVars, buf>>

\* A write to a full pipe blocks while anybody holds its read end.
Write(p) ==
    /\ stage[p] = "run" /\ todo[p] > 0
    /\ \A k \in Links : Out(p) = WriteEnd(k)
          => Holders(ReadEnd(k)) # {} /\ buf[k] < Capacity
    /\ todo' = [todo EXCEPT ![p] = @ - 1]
    /\ buf' = [k \in Links |-> IF Out(p) = WriteEnd(k) THEN buf[k] + 1
                                                       ELSE buf[k]]
    /\ UNCHANGED <<pipe, shellVars, fds, stage, args, redirs>>

\* SIGPIPE.
BrokenPipe(p) ==
    /\ stage[p] = "run" /\ todo[p] > 0
    /\ \E k \in Links : Out(p) = WriteEnd(k) /\ Holders(ReadEnd(k)) = {}
    /\ Die(p)
    /\ UNCHANGED <<pipe, shellVars, childVars, buf>>

-----------------------------------------------------------------------------

Init ==
    /\ pipe \in Pipelines
    /\ pc = "pipe" /\ i = 1 /\ fd = NoPipe /\ cur_read = STDIN_FD
    /\ \E limit \in Limits :
          fds = [p \in {Shell} \cup Stages |->
                   [f \in 0..limit - 1 |->
                      IF p = Shell /\ f \in 0..2 THEN Terminal ELSE Closed]]
    /\ stage = [p \in Stages |-> "none"]
    /\ args = [p \in Stages |-> <<0, 0>>]
    /\ redirs = [p \in Stages |-> pipe[p].redirs]
    /\ todo = [p \in Stages |->
                 IF pipe[p].kind \in {"gen", "history"} THEN Output ELSE 0]
    /\ buf = [k \in Links |-> 0]

ShellStep ==
    \/ CreatePipe \/ PipeFails \/ NoPipeNeeded
    \/ Fork \/ CommandFails
    \/ CloseWrite \/ CloseRead \/ CloseAgain

StageStep(p) ==
    \/ Setup(p) \/ Redirect(p) \/ StageFails(p) \/ Run(p)
    \/ Read(p) \/ Finish(p) \/ Write(p) \/ BrokenPipe(p)

Next == ShellStep \/ \E p \in Stages : StageStep(p)

Spec ==
    /\ Init /\ [][Next]_vars
    /\ WF_vars(ShellStep)
    /\ \A pl \in Pipelines : \A p \in DOMAIN pl :
          WF_vars(p \in Stages /\ StageStep(p))

-----------------------------------------------------------------------------
(* Properties.                                                             *)

\* However the pipeline ends, the shell is left with the descriptors it had:
\* no pipe leaks into the next line, on the error paths (execute.c:274,
\* 283-289) no less than at the end of the loop.
NoFdLeak ==
    pc = "done" => \A f \in DOMAIN fds[Shell] :
                      fds[Shell][f] = IF f \in 0..2 THEN Terminal ELSE Closed

\* The second close of cur_read (execute.c:298 and 304) hits a number that
\* nothing has been opened under in between.
SecondCloseIsHarmless ==
    [][pc = "closeAgain" => fds'[Shell] = fds[Shell]]_vars

\* A stage runs with the input and the output its place in the pipeline and
\* its redirections give it, and an external program with no other pipe end.
StagesWired ==
    \A p \in Stages : stage[p] = "run" =>
        LET has(dir) == \E r \in DOMAIN pipe[p].redirs : pipe[p].redirs[r] = dir
            own == IF pipe[p].kind \in Builtins THEN {Closed, ReadEnd(p)}
                                                ELSE {Closed}
        IN  /\ Input(p) = IF has("in") THEN File
                          ELSE IF p = 1 THEN Terminal ELSE ReadEnd(p - 1)
            /\ Out(p) = IF has("out") THEN File
                        ELSE IF p = Len(pipe) THEN Terminal ELSE WriteEnd(p)
            /\ \A f \in DOMAIN fds[p] \ 0..2 : fds[p][f] \in own

\* A program sees the end of its input only when the stage before it has ended
\* or has sent its output elsewhere: no output is cut off.
EofIsTrue ==
    [][\A p \in Stages :
          /\ stage[p] = "run" /\ stage'[p] = "dead"
          /\ pipe[p].kind = "cat" /\ todo[p] = 0
          /\ p > 1 /\ Input(p) = ReadEnd(p - 1)
          => \/ stage[p - 1] = "dead"
             \/ Out(p - 1) = File]_vars

\* The exception to the next property: a builtin writes to a full pipe that
\* only it can read, because no execve closed its copy of the read end.
BlockedOnItself(p) ==
    /\ stage[p] = "run" /\ pipe[p].kind = "history" /\ p \in Links
    /\ Out(p) = WriteEnd(p)
    /\ buf[p] = Capacity
    /\ Holders(ReadEnd(p)) = {p}

\* Liveness: the shell gets through the pipeline and every stage ends, unless
\* a builtin in the pipeline is blocked on itself.
PipelineEnds ==
    <>(pc = "done" /\ (\/ Started = {}
                       \/ \E p \in Stages : BlockedOnItself(p)))

\* The documentation has pipelines (README.md:13) and builtins that are never
\* forked (README.md:119): with these, every stage of a pipeline would end.
EveryStageEnds == <>(pc = "done" /\ Started = {})

=============================================================================
