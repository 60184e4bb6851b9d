----------------------------- MODULE JobControl -----------------------------
(***************************************************************************)
(* The executor and the main loop of bare-shell (main.c, execute.c): one   *)
(* shell process, its SIGCHLD handler, the children it forks and the modes *)
(* of the terminal they share.                                             *)
(*                                                                         *)
(* A line is a list of pipelines joined by operators.  parse_list nests    *)
(* lists to the left, so execute_list's recursion visits the operators     *)
(* from left to right: "at" counts them instead of a stack of frames.      *)
(***************************************************************************)
EXTENDS Integers, Sequences, FiniteSets

CONSTANTS
    Pids,       \* the process ids fork may hand out; all taken = fork fails
    Programs,   \* the parsed lines the user may enter
    ExitCodes   \* the codes an external program may exit with

Kinds == {"external", "missing", "builtinOk", "builtinFail", "exit"}
Command == [kind: Kinds, redir: {"none", "in", "out"}]
Ops == {";", "&", "&&", "||"}

ASSUME PidsAssumption == Pids \subseteq Nat \ {0}
ASSUME CodesAssumption == ExitCodes \subseteq 0..255

\* A list has an operator between two pipelines, and may end in one more
\* (the right side of the last list node is then NULL).
ASSUME ProgramsAssumption ==
    /\ Programs \subseteq [pipes: Seq(Seq(Command)), ops: Seq(Ops)]
    /\ \A prog \in Programs :
          /\ Len(prog.pipes) > 0
          /\ \A i \in 1..Len(prog.pipes) : Len(prog.pipes[i]) > 0
          /\ Len(prog.ops) \in {Len(prog.pipes) - 1, Len(prog.pipes)}

NoLine == [pipes |-> <<>>, ops |-> <<>>]
NotExited == -1     \* a status that WIFEXITED rejects: killed, or main's -1
NoOutcome == -2

VARIABLES
    pc,                 \* where the shell is
    line,               \* the AST being executed
    at,                 \* the pipeline, or the list operator, it has reached
    cmd,                \* the command of that pipeline
    pid,                \* what execute_ast last returned
    builtin_executed,
    last_status,
    tty,                \* the terminal's mode
    default_flags,      \* the mode ldisc_init saved
    proc,               \* state of each process id
    code,               \* the status a zombie holds
    kid,                \* what a child is running; a zombie runs nothing
    sigPending,         \* SIGCHLD is pending
    handler,            \* sigchld_handler is running
    outcome             \* history variable: how the process pid really ended

control == <<pc, line, at, cmd, pid>>
status == <<builtin_executed, last_status>>
terminal == <<tty, default_flags>>
children == <<proc, code, kid>>
signal == <<sigPending, handler>>
vars == <<control, status, terminal, children, signal, outcome>>

Modes == {"raw", "cooked"}
Waiting == {"listwait", "reap", "collect"}
Kid == [kind: Kinds, redir: {"none", "in", "out"}, fg: BOOLEAN,
        termios: Modes \cup {"none"}]
NoKid == [kind |-> "missing", redir |-> "none", fg |-> FALSE,
          termios |-> "none"]

\* Where "at" and "cmd" may point in each control state.
ControlOK ==
    /\ pc \in {"cmd"} \cup Waiting => line \in Programs
    /\ pc = "cmd" => /\ at \in 1..Len(line.pipes)
                     /\ cmd \in 1..Len(line.pipes[at])
    /\ pc = "listwait" => at \in 1..Len(line.ops) /\ line.ops[at] # "&"
    /\ pc = "reap" => at \in 2..Len(line.ops) + 1
    /\ pc = "collect" => at = Len(line.ops) + 1

TypeOK ==
    /\ pc \in {"prompt", "cmd", "exited"} \cup Waiting
    /\ line \in Programs \cup {NoLine}
    /\ at \in Nat
    /\ cmd \in Nat
    /\ ControlOK
    /\ pid \in Pids \cup {0, -1}
    /\ builtin_executed \in BOOLEAN
    /\ last_status \in 0..255
    /\ tty \in Modes
    /\ default_flags \in Modes
    /\ proc \in [Pids -> {"free", "running", "zombie"}]
    /\ code \in [Pids -> (0..255) \cup {NotExited}]
    /\ kid \in [Pids -> Kid]
    /\ sigPending \in BOOLEAN
    /\ handler \in BOOLEAN
    /\ outcome \in (0..255) \cup {NotExited, NoOutcome}

-----------------------------------------------------------------------------
(* The kernel's side: processes and wait4.                                 *)

Zombies == {p \in Pids : proc[p] = "zombie"}
Free == {p \in Pids : proc[p] = "free"}

\* Mutant: the list waits for any child, as its last loop does.
AwaitedAny == Pids \ Free

\* The children wait4(pid, ...) may return.  0 and -1 both mean any child:
\* the shell and its children share one process group.
Awaited == (IF pid > 0 THEN {pid} ELSE Pids) \ Free

\* wait4 returns p and the kernel forgets it.
Reap(p) ==
    /\ proc[p] = "zombie"
    /\ proc' = [proc EXCEPT ![p] = "free"]
    /\ code' = [code EXCEPT ![p] = 0]
    /\ kid' = [kid EXCEPT ![p] = NoKid]

-----------------------------------------------------------------------------
(* execute_list: what follows the n-th operator's left and right sides.    *)

\* Execute list->right if there is one, then the loop that reaps.
Right(n) ==
    /\ pc' = IF n < Len(line.pipes) THEN "cmd" ELSE "reap"
    /\ at' = n + 1
    /\ cmd' = 1

\* Mutant: ";" does not wait for its left side.
ReturnsWithoutWait(n) ==
    /\ pc' = IF n > Len(line.ops) THEN "collect"
             ELSE IF line.ops[n] \in {"&&", "||"} THEN "listwait"
             ELSE IF n < Len(line.pipes) THEN "cmd" ELSE "reap"
    /\ at' = IF n > Len(line.ops) \/ line.ops[n] \in {"&&", "||"} THEN n ELSE n + 1
    /\ cmd' = 1

\* The left side of operator n has returned; after the last one, main goes on.
Returns(n) ==
    \/ /\ n > Len(line.ops)
       /\ pc' = "collect"
       /\ at' = n
       /\ cmd' = 1
    \/ /\ n <= Len(line.ops)
       /\ line.ops[n] # "&"
       /\ pc' = "listwait"
       /\ at' = n
       /\ cmd' = 1
    \/ /\ n <= Len(line.ops)
       /\ line.ops[n] = "&"
       /\ Right(n)

\* execute_pipeline returns p: to main or the first operator when it is the
\* leftmost pipeline, else to the operator it is the right side of.
EndPipeline(p) ==
    /\ pid' = p
    /\ outcome' = NoOutcome
    /\ \/ at = 1 /\ Returns(1)
       \/ at > 1 /\ pc' = "reap" /\ at' = at /\ cmd' = 1

-----------------------------------------------------------------------------
(* execute_pipeline and execute_command.                                   *)

Pipeline == line.pipes[at]
Current == Pipeline[cmd]
IsLast == cmd = Len(Pipeline)

\* A builtin runs in the shell itself only outside pipelines and redirections.
InShell ==
    /\ Current.kind \in {"builtinOk", "builtinFail", "exit"}
    /\ Len(Pipeline) = 1
    /\ Current.redir = "none"

\* Nobody is meant to wait for the inner stages of a pipeline, nor for a
\* pipeline that "&" follows.
Foreground == IsLast /\ (at > Len(line.ops) \/ line.ops[at] # "&")

\* "exit" in a child calls ldisc_deinit on its stdin; this is the terminal
\* for a first stage without input redirection.  The mode is the fork's copy
\* of default_flags.
ChildTermios ==
    IF Current.kind = "exit" /\ cmd = 1 /\ Current.redir # "in"
    THEN default_flags ELSE "none"

Fork(p) ==
    /\ pc = "cmd" /\ ~handler
    /\ Current.kind # "missing" /\ ~InShell
    /\ proc[p] = "free"
    /\ proc' = [proc EXCEPT ![p] = "running"]
    /\ kid' = [kid EXCEPT ![p] =
                  [kind |-> Current.kind, redir |-> Current.redir,
                   fg |-> Foreground, termios |-> ChildTermios]]
    /\ UNCHANGED <<line, code, status, terminal, signal>>

ForkStage(p) ==
    /\ Fork(p)
    /\ ~IsLast
    /\ cmd' = cmd + 1
    /\ UNCHANGED <<pc, at, pid, outcome>>

ForkLast(p) ==
    /\ Fork(p)
    /\ IsLast
    /\ EndPipeline(p)

\* The name is not in the symbol table, or fork fails: the pipeline is given
\* up, and the stages already started are left running.
CommandFails ==
    /\ pc = "cmd" /\ ~handler
    /\ Current.kind = "missing" \/ (~InShell /\ Free = {})
    /\ EndPipeline(-1)
    /\ UNCHANGED <<line, status, terminal, children, signal>>

\* pipe2 fails before a stage that is not the last.
PipeFails ==
    /\ pc = "cmd" /\ ~handler
    /\ ~IsLast
    /\ EndPipeline(-1)
    /\ UNCHANGED <<line, status, terminal, children, signal>>

\* cd or history in the shell.
RunBuiltin ==
    /\ pc = "cmd" /\ ~handler
    /\ InShell /\ Current.kind # "exit"
    /\ \/ /\ Current.kind = "builtinOk"
          /\ builtin_executed' = TRUE
          /\ EndPipeline(0)
       \/ /\ Current.kind = "builtinFail"
          /\ UNCHANGED builtin_executed
          /\ EndPipeline(-1)
    /\ UNCHANGED <<line, last_status, terminal, children, signal>>

\* The shell is gone: init adopts its children.
Leave ==
    /\ pc' = "exited"
    /\ line' = NoLine /\ at' = 1 /\ cmd' = 1 /\ pid' = -1
    /\ tty' = default_flags
    /\ proc' = [p \in Pids |-> "free"]
    /\ code' = [p \in Pids |-> 0]
    /\ kid' = [p \in Pids |-> NoKid]
    /\ sigPending' = FALSE
    /\ outcome' = NoOutcome
    /\ UNCHANGED <<status, default_flags, handler>>

ExitShell ==
    /\ pc = "cmd" /\ ~handler
    /\ InShell /\ Current.kind = "exit"
    /\ Leave

-----------------------------------------------------------------------------
(* execute_list: the wait after the left side, and the loop that reaps.    *)

\* After "&&" and "||" the status decides; when they stop here, the function
\* returns without running the loop that reaps.
Decide(ok) ==
    LET stop == \/ line.ops[at] = "&&" /\ ~ok
                \/ line.ops[at] = "||" /\ ok
    IN  \/ stop /\ Returns(at + 1)
        \/ ~stop /\ Right(at)

WaitReaps(p) ==
    /\ pc = "listwait" /\ ~handler
    /\ p \in Awaited
    /\ Reap(p)
    /\ Decide(code[p] = 0)
    /\ UNCHANGED <<line, pid, status, terminal, signal, outcome>>

\* Mutant: wait4 is called again when it answers ECHILD.
WaitRetries ==
    /\ pc = "listwait" /\ ~handler
    /\ Awaited = {}
    /\ UNCHANGED vars

\* ECHILD: wait4 leaves status_of_previous_command as it is, uninitialised.
WaitFails ==
    /\ pc = "listwait" /\ ~handler
    /\ Awaited = {}
    /\ \E ok \in BOOLEAN : Decide(ok)
    /\ UNCHANGED <<line, pid, status, terminal, children, signal, outcome>>

ReapOne(p) ==
    /\ pc = "reap" /\ ~handler
    /\ Reap(p)
    /\ UNCHANGED <<control, status, terminal, signal, outcome>>

ReapDone ==
    /\ pc = "reap" /\ ~handler
    /\ Zombies = {}
    /\ Returns(at)
    /\ UNCHANGED <<line, pid, status, terminal, children, signal, outcome>>

-----------------------------------------------------------------------------
(* main.                                                                   *)

\* A line was read and parsed: back to the terminal's own mode, and execute.
ReadLine(prog) ==
    /\ pc = "prompt" /\ ~handler
    /\ pc' = "cmd" /\ line' = prog /\ at' = 1 /\ cmd' = 1 /\ pid' = -1
    /\ tty' = default_flags
    /\ UNCHANGED <<status, default_flags, children, signal, outcome>>

\* tokenize or parse returns NULL (no memory): main leaves its loop.
LineRefused ==
    /\ pc = "prompt" /\ ~handler
    /\ Leave

\* Mutant: the status is taken whether the process exited or was killed.
FinishUnchecked(st) ==
    /\ last_status' = IF builtin_executed THEN 0 ELSE st
    /\ builtin_executed' = FALSE
    /\ default_flags' = tty
    /\ tty' = "raw"
    /\ pc' = "prompt" /\ line' = NoLine /\ at' = 1 /\ cmd' = 1 /\ pid' = -1
    /\ outcome' = NoOutcome
    /\ UNCHANGED signal

\* Mutant: ldisc_init saves the mode after it has made the terminal raw.
FinishSavesRaw(st) ==
    /\ last_status' = IF builtin_executed THEN 0
                      ELSE IF st = NotExited THEN 1 ELSE st
    /\ builtin_executed' = FALSE
    /\ default_flags' = "raw"
    /\ tty' = "raw"
    /\ pc' = "prompt" /\ line' = NoLine /\ at' = 1 /\ cmd' = 1 /\ pid' = -1
    /\ outcome' = NoOutcome
    /\ UNCHANGED signal

\* The status reaches the prompt, and ldisc_init saves the terminal's mode
\* before it makes it raw.
Finish(st) ==
    /\ last_status' = IF builtin_executed THEN 0
                      ELSE IF st = NotExited THEN 1 ELSE st
    /\ builtin_executed' = FALSE
    /\ default_flags' = tty
    /\ tty' = "raw"
    /\ pc' = "prompt" /\ line' = NoLine /\ at' = 1 /\ cmd' = 1 /\ pid' = -1
    /\ outcome' = NoOutcome
    /\ UNCHANGED signal

\* Mutant: main waits for any child instead of the one it started last.
CollectAny ==
    /\ pc = "collect" /\ ~handler
    /\ pid > 0
    /\ \E p \in Pids : Reap(p) /\ Finish(code[p])

Collect ==
    /\ pc = "collect" /\ ~handler
    /\ pid > 0
    /\ Reap(pid)
    /\ Finish(code[pid])

\* No process to wait for, or wait4 answers ECHILD.
CollectNothing ==
    /\ pc = "collect" /\ ~handler
    /\ pid <= 0 \/ pid \in Free
    /\ Finish(NotExited)
    /\ UNCHANGED children

-----------------------------------------------------------------------------
(* The children.                                                           *)

\* A child that runs "exit" writes the terminal's mode before it exits.
ChildRestores(p) ==
    /\ proc[p] = "running"
    /\ kid[p].termios # "none"
    /\ tty' = kid[p].termios
    /\ kid' = [kid EXCEPT ![p].termios = "none"]
    /\ UNCHANGED <<control, status, default_flags, proc, code, signal, outcome>>

\* The statuses a child may end with: 129 when a redirection fails, and
\* NotExited when a signal kills it.
Codes(k) ==
    (CASE k.kind = "builtinOk" -> {0}
       [] k.kind = "builtinFail" -> {255}
       [] OTHER -> IF k.termios = "none" THEN ExitCodes ELSE {})
    \cup (IF k.redir = "none" THEN {} ELSE {129})
    \cup {NotExited}

ChildExit(p) ==
    /\ proc[p] = "running"
    /\ \E c \in Codes(kid[p]) :
          /\ code' = [code EXCEPT ![p] = c]
          /\ outcome' = IF p = pid /\ pc \in Waiting THEN c ELSE outcome
    /\ proc' = [proc EXCEPT ![p] = "zombie"]
    /\ kid' = [kid EXCEPT ![p] = [NoKid EXCEPT !.fg = kid[p].fg]]
    /\ sigPending' = TRUE
    /\ UNCHANGED <<control, status, terminal, handler>>

-----------------------------------------------------------------------------
(* sigchld_handler.  SIGCHLD is blocked while it runs, and a signal that   *)
(* is already pending absorbs the next one.                                *)

DeliverSignal ==
    /\ pc # "exited"
    /\ sigPending /\ ~handler
    /\ sigPending' = FALSE
    /\ handler' = TRUE
    /\ UNCHANGED <<control, status, terminal, children, outcome>>

HandlerReap(p) ==
    /\ handler
    /\ Reap(p)
    /\ UNCHANGED <<control, status, terminal, signal, outcome>>

\* Mutant: the handler calls wait4 once instead of looping.
HandlerReturnsAtOnce ==
    /\ handler
    /\ handler' = FALSE
    /\ UNCHANGED <<control, status, terminal, children, sigPending, outcome>>

HandlerReturn ==
    /\ handler
    /\ Zombies = {}
    /\ handler' = FALSE
    /\ UNCHANGED <<control, status, terminal, children, sigPending, outcome>>

-----------------------------------------------------------------------------

Init ==
    /\ pc = "prompt" /\ line = NoLine /\ at = 1 /\ cmd = 1 /\ pid = -1
    /\ builtin_executed = FALSE
    /\ last_status = 0
    /\ tty = "raw" /\ default_flags = "cooked"
    /\ proc = [p \in Pids |-> "free"]
    /\ code = [p \in Pids |-> 0]
    /\ kid = [p \in Pids |-> NoKid]
    /\ sigPending = FALSE /\ handler = FALSE
    /\ outcome = NoOutcome

\* What the shell does by itself once a line has been entered.
Execute ==
    \/ \E p \in Pids : ForkStage(p) \/ ForkLast(p)
    \/ CommandFails
    \/ PipeFails
    \/ RunBuiltin
    \/ ExitShell
    \/ \E p \in Pids : WaitReaps(p)
    \/ WaitFails
    \/ \E p \in Pids : ReapOne(p)
    \/ ReapDone
    \/ Collect
    \/ CollectNothing

Handle ==
    \/ DeliverSignal
    \/ \E p \in Pids : HandlerReap(p)
    \/ HandlerReturn

\* The shell has exited: the only state it may rest in.
Exited == pc = "exited" /\ UNCHANGED vars

Next ==
    \/ \E prog \in Programs : ReadLine(prog)
    \/ LineRefused
    \/ Execute
    \/ Handle
    \/ \E p \in Pids : ChildRestores(p) \/ ChildExit(p)
    \/ Exited

Spec == Init /\ [][Next]_vars

\* The scheduler runs the shell and its handler, and every program ends.
\* Nothing makes the user enter a line.
FairSpec ==
    /\ Spec
    /\ WF_vars(Execute)
    /\ WF_vars(Handle)
    /\ \A p \in Pids : WF_vars(ChildExit(p))

-----------------------------------------------------------------------------
(* Safety.                                                                 *)

\* However SIGCHLDs are merged and wherever the handler interrupts the shell,
\* a zombie always has a signal pending or a running handler that will find
\* it: the loop of main.c:54 makes up for the signals that are lost.
NoLostZombie ==
    Zombies # {} /\ pc # "exited" => sigPending \/ handler

\* At most one process that somebody must wait for is running.  It is the one
\* whose pid execute_ast returned last, and the shell starts no command and
\* shows no prompt before it has ended (execute.c:225, 233; main.c:140).
OneForeground ==
    \A p \in Pids : proc[p] = "running" /\ kid[p].fg
                      => p = pid /\ pc \in Waiting

\* What ldisc_init saves is always the mode the shell found at its start, a
\* line is executed in that mode, and the shell leaves the terminal in it;
\* children that run "exit" write the terminal too, at any time.
TerminalRestored ==
    /\ default_flags = "cooked"
    /\ pc # "prompt" => tty = "cooked"

\* The shell edits its line in the raw mode that ldisc_init has set (main.c:150)
\* unless a process that nobody waits for is to blame: "exit" in an inner stage
\* or behind "&" writes the terminal's mode whenever it gets to it, but one with
\* a redirection in the foreground has done so before the prompt is there.
PromptStaysRaw ==
    [][pc = "prompt" /\ pc' = "prompt" /\ tty' # tty
         => \E p \in Pids : /\ proc[p] = "running" /\ ~kid[p].fg
                           /\ kid[p].kind = "exit" /\ kid[p].redir # "in"]_vars

\* On a line where no builtin has succeeded in the shell a green prompt is earned:
\* the last process of the line exited with 0, whoever reaped it (main.c:139-148).
\* And no line starts with the flag of an earlier one.  That the flag makes the
\* failure of a later command of its own line green is FailureShowsRed's matter.
GreenWithoutBuiltin ==
    [][/\ pc = "collect" /\ pc' = "prompt" /\ ~builtin_executed /\ last_status' = 0
            => outcome = 0
       /\ pc = "prompt" /\ pc' = "cmd" => ~builtin_executed]_vars

\* Behind "&&" and "||" the status of the process that execute_list waited for
\* decides (execute.c:233-241): as long as the handler has not taken it, the right
\* side runs if and only if that process exited with 0, or did not, whatever else
\* has ended by then.  When wait4 finds nothing the code decides on an
\* uninitialised status (WaitFails), and nothing is claimed.
OperatorsObeyed ==
    [][pc = "listwait" /\ at' # at /\ line.ops[at] # ";"
         /\ pid \in Pids /\ proc[pid] # "free"
         => (pc' \in {"cmd", "reap"} /\ at' = at + 1)
              <=> IF line.ops[at] = "&&" THEN outcome = 0 ELSE outcome # 0]_vars

\* Liveness: every zombie is reaped while the shell runs (README.md:116).
ZombiesReaped ==
    \A p \in Pids : proc[p] = "zombie" ~> proc[p] # "zombie"

\* If every program ends, the shell returns to its prompt or exits: wait4 never
\* blocks for good, although the handler may have taken the child awaited.
PromptReturns == pc \in {"cmd"} \cup Waiting ~> pc \in {"prompt", "exited"}

-----------------------------------------------------------------------------
(* What the documentation says, and the code does not do.                  *)

\* README.md:79-80, "[0] -> Green for success, [nonzero] -> Red for failure":
\* when the last process of a line has ended, its status is the prompt's.
PromptShowsStatus ==
    [][pc = "collect" /\ pc' = "prompt" /\ outcome \notin {NotExited, NoOutcome}
         => last_status' = outcome]_vars

\* The same lines, whatever number is shown: when the last process of a line has
\* failed, the prompt is red, also behind a builtin (main.c:143).
FailureShowsRed ==
    [][pc = "collect" /\ pc' = "prompt" /\ outcome \in 1..255
         => last_status' # 0]_vars

\* README.md:15, "Background jobs: &": the prompt does not wait for a process
\* that "&" follows.
BackgroundNotAwaited ==
    [][\A p \in Pids :
          pc = "collect" /\ pc' = "prompt" /\ proc[p] # "free" /\ ~kid[p].fg
            => proc'[p] = proc[p]]_vars

=============================================================================
