-------------------------- MODULE PipelineFdsProofs --------------------------
(* Proofs about PipelineFds, for every pipeline, limit of descriptors and    *)
(* capacity of pipes that its assumptions allow.                             *)
EXTENDS PipelineFds, CommonProofs

-----------------------------------------------------------------------------
(* The inductive invariant.                                                  *)

Procs == {Shell} \cup Stages
Ends == {Closed, Terminal, File}
        \cup {ReadEnd(k) : k \in Links} \cup {WriteEnd(k) : k \in Links}

\* Every process has room for the same descriptors, the standard ones included.
Fds == DOMAIN fds[Shell]
Above == Fds \ 0..2

Tables ==
    /\ \E limit \in Limits : Fds = 0..limit - 1
    /\ fds \in [Procs -> [Fds -> Ends]]

\* The shell holds both ends of the pipe after stage i until it has closed them;
\* the read end it keeps is cur_read in the next round.
InRound == pc \in {"fork", "closeWrite", "closeRead"}

ShellHolds(f) ==
    IF f \in 0..2 THEN Terminal
    ELSE IF f = cur_read /\ (pc = "pipe" \/ InRound) THEN ReadEnd(i - 1)
    ELSE IF f = fd[1] /\ ~IsLast /\ InRound THEN ReadEnd(i)
    ELSE IF f = fd[2] /\ ~IsLast /\ InRound /\ pc # "closeRead" THEN WriteEnd(i)
    ELSE Closed

ShellInv ==
    /\ cur_read \in Above \cup {STDIN_FD}
    /\ cur_read = STDIN_FD <=> i = 1
    /\ InRound /\ ~IsLast => /\ fd \in Above \X Above
                             /\ fd[1] # fd[2] /\ cur_read \notin {fd[1], fd[2]}
    /\ pc = "closeAgain" => IsLast
    /\ \A f \in Fds : fds[Shell][f] = ShellHolds(f)

\* The stages are forked in their order.
ForkOrder ==
    /\ \A p \in Stages : (p < i => stage[p] # "none") /\ (p > i => stage[p] = "none")
    /\ pc \in {"pipe", "fork"} => stage[i] = "none"
    /\ pc \in {"closeWrite", "closeRead", "closeAgain"} => stage[i] # "none"

\* What is left of the redirections, and those that have been made.
Remaining(p) ==
    /\ redirs[p] \in Seq({"in", "out"})
    /\ Len(redirs[p]) <= Len(pipe[p].redirs)
    /\ \A j \in 1..Len(redirs[p]) :
          redirs[p][j] = pipe[p].redirs[Len(pipe[p].redirs) - Len(redirs[p]) + j]

Made(p, dir) ==
    \E j \in 1..Len(pipe[p].redirs) - Len(redirs[p]) : pipe[p].redirs[j] = dir

\* A child that has just been forked: the two descriptors it was given are its
\* ends, and it may have inherited the read end of its own output.
SetUp(p) ==
    LET infd == args[p][1]
        outfd == args[p][2]
    IN  /\ IF p = 1 THEN infd = STDIN_FD
                    ELSE infd \in Above /\ fds[p][infd] = ReadEnd(p - 1)
        /\ IF p = Len(pipe) THEN outfd = STDOUT_FD
                            ELSE outfd \in Above /\ fds[p][outfd] = WriteEnd(p)
        /\ \A f \in 0..2 : fds[p][f] = Terminal
        /\ \A f \in Above \ {infd, outfd} : fds[p][f] \in {Closed, ReadEnd(p)}

\* A child with its place in the pipeline and the redirections made so far.
Wired(p, own) ==
    /\ fds[p][STDIN_FD] = IF Made(p, "in") THEN File
                          ELSE IF p = 1 THEN Terminal ELSE ReadEnd(p - 1)
    /\ fds[p][STDOUT_FD] = IF Made(p, "out") THEN File
                           ELSE IF p = Len(pipe) THEN Terminal ELSE WriteEnd(p)
    /\ \A f \in Above : fds[p][f] \in own

StageInv(p) ==
    /\ Remaining(p)
    /\ stage[p] \in {"none", "setup"} => redirs[p] = pipe[p].redirs
    /\ stage[p] = "setup" => SetUp(p)
    /\ stage[p] = "redirect" => Wired(p, {Closed, ReadEnd(p)})
    /\ stage[p] = "run" =>
          /\ redirs[p] = <<>>
          /\ Wired(p, IF pipe[p].kind \in Builtins THEN {Closed, ReadEnd(p)}
                                                  ELSE {Closed})

FdInv ==
    /\ TypeOK
    /\ Tables
    /\ ShellInv
    /\ ForkOrder
    /\ \A p \in Stages : StageInv(p)

-----------------------------------------------------------------------------
(* The lowest free descriptor.                                               *)

LEMMA MinIsIn ==
    ASSUME NEW S \in SUBSET Nat, IsFiniteSet(S), S # {}
    PROVE  Min(S) \in S
  BY Least DEF Min

-----------------------------------------------------------------------------
(* What the invariant gives in every state.                                  *)

LEMMA EndsDiffer ==
    /\ Terminal # Closed /\ File # Closed
    /\ \A k : ReadEnd(k) # Closed /\ WriteEnd(k) # Closed
  BY DEF Terminal, Closed, File, ReadEnd, WriteEnd

LEMMA PipeShape ==
    ASSUME pipe \in Pipelines
    PROVE  /\ Len(pipe) \in Nat \ {0}
           /\ \A p \in Stages : /\ pipe[p].redirs \in Seq({"in", "out"})
                                /\ p \in Nat \ {0}
<1>1. pipe \in Seq(Command) /\ Len(pipe) > 0
  BY PipelinesAssumption
<1>2. \A p \in 1..Len(pipe) : pipe[p] \in Command
  BY <1>1
<1> QED
  BY <1>1, <1>2 DEF Stages, Command

LEMMA TableShape ==
    ASSUME Tables
    PROVE  /\ IsFiniteSet(Fds) /\ Fds \subseteq Nat /\ 0..2 \subseteq Fds
           /\ \A p \in Procs : fds[p] \in [Fds -> Ends] /\ DOMAIN fds[p] = Fds
<1>1. PICK limit \in Limits : Fds = 0..limit - 1
  BY DEF Tables
<1>2. limit \in Nat /\ limit > 2
  BY LimitsAssumption
<1>3. IsFiniteSet(0..limit - 1)
  BY <1>2, FS_Interval
<1>4. 0..limit - 1 \subseteq Nat /\ 0..2 \subseteq 0..limit - 1
  BY <1>2
<1> QED
  BY <1>1, <1>3, <1>4 DEF Tables

LEMMA ShellIsNoStage == ASSUME pipe \in Pipelines PROVE Shell \notin Stages
  BY PipeShape DEF Shell, Stages

-----------------------------------------------------------------------------
(* Steps of the shell.                                                       *)

\* A stage does not notice what the shell does to its own table.
LEMMA StageKept ==
    ASSUME NEW p \in Stages, StageInv(p), Fds' = Fds, fds'[p] = fds[p],
           pipe' = pipe, stage'[p] = stage[p], args'[p] = args[p], redirs'[p] = redirs[p]
    PROVE  StageInv(p)'
  BY DEF StageInv, Remaining, SetUp, Wired, Made, Above, ReadEnd, WriteEnd, File,
         Closed, Terminal

LEMMA ShellCloses ==
    ASSUME FdInv, NEW S, CloseInShell(S), pipe' = pipe
    PROVE  /\ Tables' /\ Fds' = Fds
           /\ \A p \in Stages : fds'[p] = fds[p]
           /\ \A f \in Fds : fds'[Shell][f] = IF f \in S THEN Closed ELSE fds[Shell][f]
<1>1. pipe \in Pipelines /\ Tables
  BY DEF FdInv, TypeOK
<1>2. Shell \notin Stages /\ fds[Shell] \in [Fds -> Ends] /\ fds \in [Procs -> [Fds -> Ends]]
  BY <1>1, ShellIsNoStage, TableShape DEF Procs, Tables
<1>3. Close(fds[Shell], S) \in [Fds -> Ends]
  BY <1>2 DEF Close, Ends
<1>4. fds' = [fds EXCEPT ![Shell] = Close(fds[Shell], S)]
  BY DEF CloseInShell
<1>5. fds'[Shell] = Close(fds[Shell], S)
  BY <1>2, <1>4 DEF Procs
<1>6. Fds' = Fds
  BY <1>3, <1>5 DEF Fds
<1>7. Procs' = Procs /\ Ends' = Ends
  BY DEF Procs, Stages, Ends, Links, Closed, Terminal, File, ReadEnd, WriteEnd
<1>8. fds' \in [Procs -> [Fds -> Ends]]
  BY <1>2, <1>3, <1>4
<1>9. Tables'
  BY <1>1, <1>6, <1>7, <1>8 DEF Tables
<1> QED
  BY <1>2, <1>4, <1>5, <1>6, <1>9 DEF Close, Procs

\* The last conjunct of TypeOK after a step.
EndsOK == \A p \in {Shell} \cup Stages : \A f \in DOMAIN fds[p] :
              fds[p][f] \in {Closed, Terminal, File} \cup
                            {ReadEnd(k) : k \in Links} \cup
                            {WriteEnd(k) : k \in Links}

LEMMA EndsStayTyped ==
    ASSUME pipe' = pipe, fds' \in [Procs -> [Fds -> Ends]]
    PROVE  EndsOK'
<1>1. Stages' = Stages /\ Links' = Links
  BY DEF Stages, Links
<1>2. ASSUME NEW p \in Procs, NEW f \in DOMAIN fds'[p]
      PROVE  fds'[p][f] \in Ends
  OBVIOUS
<1> QED
  BY <1>1, <1>2
     DEF EndsOK, Procs, Ends, Closed, Terminal, File, ReadEnd, WriteEnd

\* What the shell keeps of the invariant when it closes descriptors: it remains to
\* see that its own variables fit.
LEMMA ClosingKeepsRest ==
    ASSUME FdInv, NEW S, CloseInShell(S),
           UNCHANGED <<pipe, stage, childVars, buf>>
    PROVE  /\ Tables' /\ Fds' = Fds /\ Stages' = Stages
           /\ \A p \in Stages : StageInv(p)'
           /\ \A f \in Fds : fds'[Shell][f] = IF f \in S THEN Closed ELSE fds[Shell][f]
           /\ /\ pc' \in {"pipe", "fork", "closeWrite", "closeRead", "closeAgain", "done"}
              /\ i' \in Stages
              /\ fd' \in (Nat \cup {-1}) \X (Nat \cup {-1})
              /\ cur_read' \in Nat
              => TypeOK'
<1>1. /\ Tables' /\ Fds' = Fds
      /\ \A p \in Stages : fds'[p] = fds[p]
      /\ \A f \in Fds : fds'[Shell][f] = IF f \in S THEN Closed ELSE fds[Shell][f]
  BY ShellCloses
<1>2. Stages' = Stages /\ Links' = Links
  BY DEF Stages, Links
<1>3. \A p \in Stages : StageInv(p)'
  BY <1>1, StageKept DEF FdInv, childVars
<1>4. pipe' \in Pipelines
  BY DEF FdInv, TypeOK
<1>5. EndsOK'
  <2>1. Procs' = Procs /\ Ends' = Ends
    BY <1>2 DEF Procs, Ends, Closed, Terminal, File, ReadEnd, WriteEnd
  <2>2. fds' \in [Procs -> [Fds -> Ends]]
    BY <1>1, <2>1 DEF Tables
  <2> QED
    BY <2>2, EndsStayTyped
<1>6. /\ pc' \in {"pipe", "fork", "closeWrite", "closeRead", "closeAgain", "done"}
      /\ i' \in Stages
      /\ fd' \in (Nat \cup {-1}) \X (Nat \cup {-1})
      /\ cur_read' \in Nat
      => TypeOK'
  BY <1>2, <1>4, <1>5 DEF TypeOK, FdInv, childVars, EndsOK
<1> QED
  BY <1>1, <1>2, <1>3, <1>6

\* What the shell's variables are in every state.
LEMMA ShellShape ==
    ASSUME FdInv
    PROVE  /\ pipe \in Pipelines /\ Tables
           /\ Len(pipe) \in Nat \ {0} /\ i \in Nat /\ 1 <= i /\ i <= Len(pipe)
           /\ i \in Stages /\ cur_read \in Nat
           /\ Fds \subseteq Nat /\ 0..2 \subseteq Fds /\ Above \subseteq Fds
           /\ \A f : f \in ReadFds <=> f = cur_read /\ f \notin 0..2
           /\ fd \in (Nat \cup {-1}) \X (Nat \cup {-1})
           /\ InRound /\ ~IsLast => fd[1] \in Above /\ fd[2] \in Above
<1>1. pipe \in Pipelines /\ Tables /\ i \in Stages /\ ShellInv /\ TypeOK
  BY DEF FdInv, TypeOK
<1>2. Len(pipe) \in Nat \ {0}
  BY <1>1, PipeShape
<1>3. Fds \subseteq Nat /\ 0..2 \subseteq Fds
  BY <1>1, TableShape
<1>4. Above \subseteq Fds /\ \A f \in Above : f \notin 0..2
  BY DEF Above
<1>5. cur_read \in Above \cup {0} /\ (cur_read = 0 <=> i = 1)
  BY <1>1 DEF ShellInv, STDIN_FD
<1>6. \A f : f \in ReadFds <=> f = cur_read /\ f \notin 0..2
  BY <1>4, <1>5 DEF ReadFds, STDIN_FD
<1>7. InRound /\ ~IsLast => fd[1] \in Above /\ fd[2] \in Above
  BY <1>1 DEF ShellInv
<1> QED
  BY <1>1, <1>2, <1>3, <1>4, <1>5, <1>6, <1>7 DEF Stages, TypeOK

LEMMA PipeFailsKeeps == ASSUME FdInv, PipeFails PROVE FdInv'
<1>1. /\ pc = "pipe" /\ pc' = "done" /\ CloseInShell(ReadFds)
      /\ UNCHANGED <<pipe, i, fd, cur_read, stage, childVars, buf>>
  BY DEF PipeFails
<1>2. /\ Tables' /\ Fds' = Fds /\ Stages' = Stages /\ Above' = Above
      /\ \A p \in Stages : StageInv(p)'
      /\ \A f \in Fds : fds'[Shell][f] = IF f \in ReadFds THEN Closed ELSE fds[Shell][f]
  BY <1>1, ClosingKeepsRest DEF Above
<1>3. TypeOK'
  BY <1>1, ShellShape, ClosingKeepsRest
<1>4. \A f \in Fds : fds'[Shell][f] = ShellHolds(f)'
  <2> SUFFICES ASSUME NEW f \in Fds
               PROVE  fds'[Shell][f] = ShellHolds(f)'
    OBVIOUS
  <2>1. ShellHolds(f)' = IF f \in 0..2 THEN Terminal ELSE Closed
    BY <1>1 DEF ShellHolds, InRound, Terminal, Closed
  <2>2. fds[Shell][f] = ShellHolds(f)
    BY DEF FdInv, ShellInv
  <2> QED
    BY <1>1, <1>2, <2>1, <2>2, ShellShape DEF ShellHolds, InRound
<1>5. ShellInv'
  BY <1>1, <1>2, <1>4 DEF FdInv, ShellInv, InRound
<1>6. ForkOrder'
  BY <1>1, <1>2 DEF FdInv, ForkOrder
<1> QED
  BY <1>2, <1>3, <1>5, <1>6 DEF FdInv

LEMMA CommandFailsKeeps == ASSUME FdInv, CommandFails PROVE FdInv'
<1> DEFINE S == ReadFds \cup (IF IsLast THEN {} ELSE {fd[1], fd[2]})
<1>1. /\ pc = "fork" /\ pc' = "done" /\ CloseInShell(S)
      /\ UNCHANGED <<pipe, i, fd, cur_read, stage, childVars, buf>>
  BY DEF CommandFails
<1>2. /\ Tables' /\ Fds' = Fds /\ Stages' = Stages /\ Above' = Above
      /\ \A p \in Stages : StageInv(p)'
      /\ \A f \in Fds : fds'[Shell][f] = IF f \in S THEN Closed ELSE fds[Shell][f]
  BY <1>1, ClosingKeepsRest DEF Above
<1>3. TypeOK'
  BY <1>1, ShellShape, ClosingKeepsRest
<1>4. \A f \in Fds : fds'[Shell][f] = ShellHolds(f)'
  <2> SUFFICES ASSUME NEW f \in Fds
               PROVE  fds'[Shell][f] = ShellHolds(f)'
    OBVIOUS
  <2>1. ShellHolds(f)' = IF f \in 0..2 THEN Terminal ELSE Closed
    BY <1>1 DEF ShellHolds, InRound, Terminal, Closed
  <2>2. fds[Shell][f] = ShellHolds(f)
    BY DEF FdInv, ShellInv
  <2>3. f \in S => f \notin 0..2
    BY <1>1, ShellShape DEF InRound, Above
  <2> QED
    BY <1>1, <1>2, <2>1, <2>2, <2>3, ShellShape DEF ShellHolds, InRound
<1>5. ShellInv'
  BY <1>1, <1>2, <1>4 DEF FdInv, ShellInv, InRound
<1>6. ForkOrder'
  BY <1>1, <1>2 DEF FdInv, ForkOrder
<1> QED
  BY <1>2, <1>3, <1>5, <1>6 DEF FdInv

LEMMA CloseWriteKeeps == ASSUME FdInv, CloseWrite PROVE FdInv'
<1> DEFINE S == IF IsLast THEN {} ELSE {fd[2]}
<1>1. /\ pc = "closeWrite" /\ pc' = "closeRead" /\ CloseInShell(S)
      /\ UNCHANGED <<pipe, i, fd, cur_read, stage, childVars, buf>>
  BY DEF CloseWrite
<1>2. /\ Tables' /\ Fds' = Fds /\ Stages' = Stages /\ Above' = Above
      /\ \A p \in Stages : StageInv(p)'
      /\ \A f \in Fds : fds'[Shell][f] = IF f \in S THEN Closed ELSE fds[Shell][f]
  BY <1>1, ClosingKeepsRest DEF Above
<1>3. TypeOK'
  BY <1>1, ShellShape, ClosingKeepsRest
<1>4. \A f \in Fds : fds'[Shell][f] = ShellHolds(f)'
  <2> SUFFICES ASSUME NEW f \in Fds
               PROVE  fds'[Shell][f] = ShellHolds(f)'
    OBVIOUS
  <2>1. fds[Shell][f] = ShellHolds(f)
    BY DEF FdInv, ShellInv
  <2>2. ~IsLast => /\ fd[1] \in Above /\ fd[2] \in Above
                   /\ fd[1] # fd[2] /\ cur_read \notin {fd[1], fd[2]}
    BY <1>1 DEF FdInv, ShellInv, InRound
  <2> QED
    BY <1>1, <1>2, <2>1, <2>2
       DEF ShellHolds, InRound, IsLast, Above, Terminal, Closed, ReadEnd, WriteEnd
<1>5. ShellInv'
  BY <1>1, <1>2, <1>4 DEF FdInv, ShellInv, InRound, IsLast
<1>6. ForkOrder'
  BY <1>1, <1>2 DEF FdInv, ForkOrder
<1> QED
  BY <1>2, <1>3, <1>5, <1>6 DEF FdInv

LEMMA CloseAgainKeeps ==
    ASSUME FdInv, CloseAgain
    PROVE  FdInv' /\ fds'[Shell] = fds[Shell]
<1>1. /\ pc = "closeAgain" /\ pc' = "done" /\ CloseInShell(ReadFds)
      /\ UNCHANGED <<pipe, i, fd, cur_read, stage, childVars, buf>>
  BY DEF CloseAgain
<1>2. /\ Tables' /\ Fds' = Fds /\ Stages' = Stages /\ Above' = Above
      /\ \A p \in Stages : StageInv(p)'
      /\ \A f \in Fds : fds'[Shell][f] = IF f \in ReadFds THEN Closed ELSE fds[Shell][f]
  BY <1>1, ClosingKeepsRest DEF Above
<1>3. TypeOK'
  BY <1>1, ShellShape, ClosingKeepsRest
<1>4. ASSUME NEW f \in Fds
      PROVE  fds'[Shell][f] = ShellHolds(f)' /\ fds'[Shell][f] = fds[Shell][f]
  <2>1. ShellHolds(f)' = IF f \in 0..2 THEN Terminal ELSE Closed
    BY <1>1 DEF ShellHolds, InRound, Terminal, Closed
  <2>2. fds[Shell][f] = IF f \in 0..2 THEN Terminal ELSE Closed
    BY <1>1 DEF FdInv, ShellInv, ShellHolds, InRound
  <2> QED
    BY <1>1, <1>2, <2>1, <2>2, ShellShape
<1>5. ShellInv'
  BY <1>1, <1>2, <1>4 DEF FdInv, ShellInv, InRound
<1>6. ForkOrder'
  BY <1>1, <1>2 DEF FdInv, ForkOrder
<1>7. fds'[Shell] = fds[Shell]
  <2>1. Shell \in Procs /\ Shell \in Procs'
    BY DEF Procs
  <2>2. fds[Shell] \in [Fds -> Ends] /\ fds'[Shell] \in [Fds' -> Ends']
    BY <1>2, <2>1 DEF FdInv, Tables
  <2> QED
    BY <1>2, <1>4, <2>2
<1> QED
  BY <1>2, <1>3, <1>5, <1>6, <1>7 DEF FdInv

LEMMA CloseReadKeeps == ASSUME FdInv, CloseRead PROVE FdInv'
<1>1. /\ pc = "closeRead" /\ CloseInShell(ReadFds)
      /\ UNCHANGED <<pipe, stage, childVars, buf>>
  BY DEF CloseRead
<1>2. /\ Tables' /\ Fds' = Fds /\ Stages' = Stages /\ Above' = Above
      /\ \A p \in Stages : StageInv(p)'
      /\ \A f \in Fds : fds'[Shell][f] = IF f \in ReadFds THEN Closed ELSE fds[Shell][f]
  BY <1>1, ClosingKeepsRest DEF Above
<1>3. CASE IsLast /\ pc' = "closeAgain" /\ UNCHANGED <<i, fd, cur_read>>
  <2>1. TypeOK'
    BY <1>1, <1>3, ShellShape, ClosingKeepsRest
  <2>2. ASSUME NEW f \in Fds
        PROVE  fds'[Shell][f] = ShellHolds(f)'
    <3>1. ShellHolds(f)' = IF f \in 0..2 THEN Terminal ELSE Closed
      BY <1>3 DEF ShellHolds, InRound, Terminal, Closed
    <3>2. fds[Shell][f] = ShellHolds(f)
      BY DEF FdInv, ShellInv
    <3> QED
      BY <1>1, <1>2, <1>3, <3>1, <3>2, ShellShape DEF ShellHolds, InRound
  <2>3. ShellInv'
    BY <1>1, <1>2, <1>3, <2>2 DEF FdInv, ShellInv, InRound, IsLast
  <2>4. ForkOrder'
    BY <1>1, <1>2, <1>3 DEF FdInv, ForkOrder
  <2> QED
    BY <1>2, <2>1, <2>3, <2>4 DEF FdInv
<1>4. CASE ~IsLast /\ pc' = "pipe" /\ i' = i + 1 /\ fd' = NoPipe /\ cur_read' = fd[1]
  <2>1. fd[1] \in Above /\ fd[1] \in Nat /\ fd[1] # 0 /\ fd[1] # cur_read
    BY <1>1, <1>4, ShellShape DEF FdInv, ShellInv, InRound, Above
  <2>2. i' \in Stages /\ i' \in Nat /\ i' # 1
    BY <1>4, ShellShape DEF IsLast, Stages
  <2>3. TypeOK'
    BY <1>1, <1>4, <2>1, <2>2, ClosingKeepsRest DEF NoPipe
  <2>4. ASSUME NEW f \in Fds
        PROVE  fds'[Shell][f] = ShellHolds(f)'
    <3>1. fds[Shell][f] = ShellHolds(f)
      BY DEF FdInv, ShellInv
    <3>2. ShellHolds(f)' = IF f \in 0..2 THEN Terminal
                           ELSE IF f = fd[1] THEN ReadEnd(i) ELSE Closed
      BY <1>4, ShellShape DEF ShellHolds, InRound, Terminal, Closed, ReadEnd
    <3> QED
      BY <1>1, <1>2, <1>4, <2>1, <3>1, <3>2, ShellShape
         DEF ShellHolds, InRound
  <2>5. ShellInv'
    BY <1>1, <1>2, <1>4, <2>1, <2>2, <2>4 DEF ShellInv, InRound, STDIN_FD
  <2>6. ForkOrder'
    <3>1. ASSUME NEW p \in Stages
          PROVE  /\ p < i + 1 => stage[p] # "none"
                 /\ p > i + 1 \/ p = i + 1 => stage[p] = "none"
      <4>1. p \in Nat /\ i \in Nat
        BY ShellShape DEF Stages
      <4>2. stage[i] # "none"
        BY <1>1 DEF FdInv, ForkOrder
      <4> QED
        BY <4>1, <4>2 DEF FdInv, ForkOrder
    <3>2. stage' = stage /\ i' = i + 1 /\ pc' = "pipe" /\ Stages' = Stages
      BY <1>1, <1>2, <1>4
    <3>3. i + 1 \in Stages
      BY <2>2, <3>2
    <3> QED
      BY <3>1, <3>2, <3>3 DEF ForkOrder
  <2> QED
    BY <1>2, <2>3, <2>5, <2>6 DEF FdInv
<1> QED
  BY <1>3, <1>4 DEF CloseRead

LEMMA NoPipeNeededKeeps == ASSUME FdInv, NoPipeNeeded PROVE FdInv'
<1>1. /\ pc = "pipe" /\ IsLast /\ pc' = "fork"
      /\ UNCHANGED <<pipe, i, fd, cur_read, fds, stage, childVars, buf>>
  BY DEF NoPipeNeeded
<1>2. Fds' = Fds /\ Stages' = Stages /\ Links' = Links /\ Above' = Above
  BY <1>1 DEF Fds, Stages, Links, Above
<1>3. TypeOK'
  BY <1>1, <1>2 DEF FdInv, TypeOK, childVars, Closed, Terminal, File, ReadEnd, WriteEnd
<1>4. Tables'
  BY <1>1, <1>2 DEF FdInv, Tables, Procs, Ends, Closed, Terminal, File, ReadEnd, WriteEnd
<1>5. ASSUME NEW f \in Fds
      PROVE  fds'[Shell][f] = ShellHolds(f)'
  <2>1. ShellHolds(f)' = ShellHolds(f)
    BY <1>1 DEF ShellHolds, InRound, IsLast, Terminal, Closed, ReadEnd, WriteEnd
  <2> QED
    BY <1>1, <2>1 DEF FdInv, ShellInv
<1>6. ShellInv'
  BY <1>1, <1>2, <1>5 DEF FdInv, ShellInv, InRound, IsLast
<1>7. ForkOrder'
  BY <1>1, <1>2 DEF FdInv, ForkOrder
<1>8. \A p \in Stages : StageInv(p)'
  BY <1>1, <1>2, StageKept DEF FdInv, childVars
<1> QED
  BY <1>2, <1>3, <1>4, <1>6, <1>7, <1>8 DEF FdInv

\* pipe2 hands out two descriptors that were free, so neither is a standard one
\* or cur_read.
LEMMA NewDescriptors ==
    ASSUME FdInv, pc = "pipe", Cardinality(FreeFds(Shell)) >= 2
    PROVE  LET r == Min(FreeFds(Shell))
               w == Min(FreeFds(Shell) \ {r})
           IN  r \in Above /\ w \in Above /\ r # w /\ cur_read \notin {r, w}
<1> DEFINE Free == FreeFds(Shell)
           r == Min(Free)
           w == Min(Free \ {r})
<1>1. Free \subseteq Fds /\ Fds \subseteq Nat /\ IsFiniteSet(Fds)
  BY ShellShape, TableShape DEF FreeFds, Fds
<1>2. IsFiniteSet(Free)
  BY <1>1, FS_Subset
<1>3. Cardinality({}) = 0 /\ \A x : Cardinality({x}) = 1
  BY FS_EmptySet, FS_Singleton
<1>4. Free # {} /\ \A x : Free # {x}
  BY <1>3
<1> HIDE DEF Free
<1>5. r \in Free
  BY <1>1, <1>2, <1>4, MinIsIn
<1>6. w \in Free /\ w # r
  <2>1. Free \ {r} # {} /\ Free \ {r} \in SUBSET Nat
    BY <1>1, <1>4, <1>5
  <2>2. IsFiniteSet(Free \ {r})
    BY <1>2, FS_Subset
  <2> QED
    BY <2>1, <2>2, MinIsIn
<1>7. ASSUME NEW f \in Free
      PROVE  f \in Above /\ f # cur_read
  <2>1. f \in Fds /\ fds[Shell][f] = Closed
    BY <1>1 DEF Free, FreeFds
  <2>2. ShellHolds(f) = Closed
    BY <2>1 DEF FdInv, ShellInv
  <2> QED
    BY <2>1, <2>2, EndsDiffer DEF ShellHolds, Above
<1> QED
  BY <1>5, <1>6, <1>7 DEF Free

LEMMA CreatePipeKeeps == ASSUME FdInv, CreatePipe PROVE FdInv'
<1> DEFINE r == Min(FreeFds(Shell))
           w == Min(FreeFds(Shell) \ {r})
<1>1. /\ pc = "pipe" /\ ~IsLast /\ pc' = "fork" /\ fd' = <<r, w>>
      /\ fds' = [fds EXCEPT ![Shell][r] = ReadEnd(i), ![Shell][w] = WriteEnd(i)]
      /\ UNCHANGED <<pipe, i, cur_read, stage, childVars, buf>>
  BY DEF CreatePipe
<1>2. r \in Above /\ w \in Above /\ r # w /\ cur_read \notin {r, w}
  BY NewDescriptors DEF CreatePipe
<1> HIDE DEF r, w
<1>3. /\ Tables /\ pipe \in Pipelines /\ i \in Stages /\ i \in Links
      /\ Shell \notin Stages /\ Shell \in Procs
      /\ fds \in [Procs -> [Fds -> Ends]] /\ fds[Shell] \in [Fds -> Ends]
      /\ r \in Fds /\ w \in Fds /\ r \in Nat /\ w \in Nat
  BY <1>1, <1>2, ShellShape, ShellIsNoStage, TableShape
     DEF Links, Stages, IsLast, Procs, Tables, Above
<1> DEFINE table == [fds[Shell] EXCEPT ![r] = ReadEnd(i), ![w] = WriteEnd(i)]
<1>4. table \in [Fds -> Ends]
  BY <1>3 DEF Ends
<1>5. fds' = [fds EXCEPT ![Shell] = table]
  BY <1>1, <1>3
<1>6. fds'[Shell] = table
  BY <1>3, <1>5
<1>7. \A f \in Fds : fds'[Shell][f] = IF f = w THEN WriteEnd(i)
                                      ELSE IF f = r THEN ReadEnd(i) ELSE fds[Shell][f]
  BY <1>3, <1>6
<1>8. \A p \in Stages : fds'[p] = fds[p]
  BY <1>3, <1>5
<1>9. fds' \in [Procs -> [Fds -> Ends]]
  BY <1>3, <1>4, <1>5
<1> HIDE DEF table
<1>10. /\ Fds' = Fds /\ Above' = Above /\ Stages' = Stages /\ Links' = Links
       /\ Procs' = Procs /\ Ends' = Ends
  BY <1>1, <1>4, <1>6
     DEF Fds, Above, Stages, Links, Procs, Ends, Closed, Terminal, File, ReadEnd, WriteEnd
<1>11. Tables'
  BY <1>9, <1>10 DEF FdInv, Tables
<1>12. TypeOK'
  <2>1. pipe' \in Pipelines
    BY <1>1, <1>3
  <2>2. fd' \in (Nat \cup {-1}) \X (Nat \cup {-1})
    BY <1>1, <1>3
  <2> QED
    BY <1>1, <1>9, <1>10, <2>1, <2>2, EndsStayTyped DEF FdInv, TypeOK, EndsOK, childVars
<1>13. ASSUME NEW f \in Fds
       PROVE  fds'[Shell][f] = ShellHolds(f)'
  <2>1. fds[Shell][f] = IF f \in 0..2 THEN Terminal
                        ELSE IF f = cur_read THEN ReadEnd(i - 1) ELSE Closed
    BY <1>1 DEF FdInv, ShellInv, ShellHolds, InRound
  <2>2. ShellHolds(f)' = IF f \in 0..2 THEN Terminal
                         ELSE IF f = cur_read THEN ReadEnd(i - 1)
                         ELSE IF f = r THEN ReadEnd(i)
                         ELSE IF f = w THEN WriteEnd(i) ELSE Closed
    BY <1>1 DEF ShellHolds, InRound, IsLast, Terminal, Closed, ReadEnd, WriteEnd
  <2>3. r \notin 0..2 /\ w \notin 0..2 /\ r # w /\ cur_read # r /\ cur_read # w
    BY <1>2 DEF Above
  <2> QED
    BY <1>7, <2>1, <2>2, <2>3
<1>14. ShellInv'
  BY <1>1, <1>2, <1>10, <1>13 DEF FdInv, ShellInv, InRound, IsLast
<1>15. ForkOrder'
  BY <1>1, <1>10 DEF FdInv, ForkOrder
<1>16. \A p \in Stages : StageInv(p)'
  BY <1>1, <1>8, <1>10, StageKept DEF FdInv, childVars
<1> QED
  BY <1>10, <1>11, <1>12, <1>14, <1>15, <1>16 DEF FdInv

\* The child starts with what the shell holds: its two ends, and the read end of
\* its own output unless it is the last stage.
LEMMA ForkKeeps == ASSUME FdInv, Fork PROVE FdInv'
<1>1. /\ pc = "fork" /\ pc' = "closeWrite"
      /\ fds' = [fds EXCEPT ![i] = fds[Shell]]
      /\ stage' = [stage EXCEPT ![i] = "setup"]
      /\ args' = [args EXCEPT ![i] = <<cur_read, OutFd>>]
      /\ UNCHANGED <<pipe, i, fd, cur_read, redirs, todo, buf>>
  BY DEF Fork
<1>2. /\ Tables /\ pipe \in Pipelines /\ i \in Stages /\ i \in Nat /\ Len(pipe) \in Nat
      /\ Shell \notin Stages /\ Shell \in Procs /\ i \in Procs /\ i # Shell
      /\ fds \in [Procs -> [Fds -> Ends]] /\ fds[Shell] \in [Fds -> Ends]
      /\ Fds \subseteq Nat /\ 0..2 \subseteq Fds /\ cur_read \in Nat
  BY ShellShape, ShellIsNoStage, TableShape DEF Procs, Tables
<1>3. OutFd \in Nat /\ (~IsLast => OutFd \in Above)
  BY <1>1, ShellShape DEF OutFd, STDOUT_FD, InRound, Above
<1>4. /\ fds'[Shell] = fds[Shell] /\ fds'[i] = fds[Shell]
      /\ \A p \in Stages \ {i} : fds'[p] = fds[p]
      /\ fds' \in [Procs -> [Fds -> Ends]]
  BY <1>1, <1>2 DEF Procs
<1>5. /\ Fds' = Fds /\ Above' = Above /\ Stages' = Stages /\ Links' = Links
      /\ Procs' = Procs /\ Ends' = Ends
  BY <1>1, <1>4
     DEF Fds, Above, Stages, Links, Procs, Ends, Closed, Terminal, File, ReadEnd, WriteEnd
<1>6. Tables'
  BY <1>4, <1>5 DEF FdInv, Tables
<1>7. /\ stage \in [Stages -> {"none", "setup", "redirect", "run", "dead"}]
      /\ args \in [Stages -> Nat \X Nat]
  BY DEF FdInv, TypeOK
<1>8. /\ stage' \in [Stages -> {"none", "setup", "redirect", "run", "dead"}]
      /\ args' \in [Stages -> Nat \X Nat]
      /\ stage'[i] = "setup" /\ args'[i] = <<cur_read, OutFd>>
      /\ \A p \in Stages \ {i} : stage'[p] = stage[p] /\ args'[p] = args[p]
  BY <1>1, <1>2, <1>3, <1>7
<1>9. TypeOK'
  BY <1>1, <1>4, <1>5, <1>8, EndsStayTyped DEF FdInv, TypeOK, EndsOK
<1>10. ASSUME NEW f \in Fds
       PROVE  fds'[Shell][f] = ShellHolds(f)'
  <2>1. ShellHolds(f)' = ShellHolds(f)
    BY <1>1 DEF ShellHolds, InRound, IsLast, Terminal, Closed, ReadEnd, WriteEnd
  <2> QED
    BY <1>4, <2>1 DEF FdInv, ShellInv
<1>11. ShellInv'
  BY <1>1, <1>5, <1>10 DEF FdInv, ShellInv, InRound, IsLast
<1>12. ForkOrder'
  <2>1. ASSUME NEW p \in Stages
        PROVE  /\ p < i => stage'[p] # "none"
               /\ p > i => stage'[p] = "none"
    <3>1. p \in Nat
      BY DEF Stages
    <3>2. (p < i => stage[p] # "none") /\ (p > i => stage[p] = "none")
      BY DEF FdInv, ForkOrder
    <3> QED
      BY <1>2, <1>8, <3>1, <3>2
  <2> QED
    BY <1>1, <1>5, <1>8, <2>1 DEF ForkOrder
<1>13. ASSUME NEW p \in Stages, p = i
       PROVE  SetUp(p)'
  <2>1. \A f \in Fds : fds'[i][f] = ShellHolds(f)
    BY <1>4 DEF FdInv, ShellInv
  <2>2. /\ cur_read \in Above \cup {STDIN_FD} /\ (cur_read = STDIN_FD <=> i = 1)
        /\ ~IsLast => /\ fd[1] \in Above /\ fd[2] \in Above
                      /\ fd[1] # fd[2] /\ cur_read \notin {fd[1], fd[2]}
    BY <1>1 DEF FdInv, ShellInv, InRound
  <2>3. IF i = 1 THEN cur_read = STDIN_FD
                 ELSE cur_read \in Above /\ fds'[i][cur_read] = ReadEnd(i - 1)
    BY <1>1, <2>1, <2>2 DEF ShellHolds, InRound, Above
  <2>4. IF i = Len(pipe) THEN OutFd = STDOUT_FD
                         ELSE OutFd \in Above /\ fds'[i][OutFd] = WriteEnd(i)
    BY <1>1, <2>1, <2>2 DEF ShellHolds, InRound, Above, OutFd, IsLast
  <2>5. \A f \in 0..2 : fds'[i][f] = Terminal
    BY <1>2, <2>1 DEF ShellHolds
  <2>6. \A f \in Above \ {cur_read, OutFd} : fds'[i][f] \in {Closed, ReadEnd(i)}
    BY <1>1, <2>1, <2>2 DEF ShellHolds, InRound, Above, OutFd, IsLast
  <2> QED
    BY <1>1, <1>5, <1>8, <1>13, <2>3, <2>4, <2>5, <2>6
       DEF SetUp, Closed, Terminal, ReadEnd, WriteEnd, STDIN_FD, STDOUT_FD
<1>14. ASSUME NEW p \in Stages, p = i
       PROVE  StageInv(p)'
  <2>1. Remaining(p) /\ redirs[p] = pipe[p].redirs
    BY <1>1, <1>14 DEF FdInv, ForkOrder, StageInv
  <2>2. Remaining(p)' /\ redirs'[p] = pipe'[p].redirs
    BY <1>1, <2>1 DEF Remaining
  <2>3. SetUp(p)'
    BY <1>13, <1>14
  <2> QED
    BY <1>8, <1>14, <2>2, <2>3 DEF StageInv
<1>15. \A p \in Stages \ {i} : StageInv(p)'
  BY <1>1, <1>4, <1>5, <1>8, StageKept DEF FdInv
<1> QED
  BY <1>5, <1>6, <1>9, <1>11, <1>12, <1>14, <1>15 DEF FdInv

LEMMA ShellKeeps == ASSUME FdInv, ShellStep PROVE FdInv'
  BY CreatePipeKeeps, PipeFailsKeeps, NoPipeNeededKeeps, ForkKeeps, CommandFailsKeeps,
     CloseWriteKeeps, CloseReadKeeps, CloseAgainKeeps DEF ShellStep

-----------------------------------------------------------------------------
(* Steps of a stage.                                                         *)

StageStates == {"none", "setup", "redirect", "run", "dead"}

\* A stage changes its own table, state and redirections, and the pipes: only its
\* own part of the invariant has to be looked at.
LEMMA OthersKept ==
    ASSUME FdInv, NEW p \in Stages,
           UNCHANGED <<pipe, shellVars, args>>,
           NEW table \in [Fds -> Ends], fds' = [fds EXCEPT ![p] = table],
           NEW s \in StageStates \ {"none"}, stage' = [stage EXCEPT ![p] = s],
           stage[p] # "none",
           redirs' \in [Stages -> Seq({"in", "out"})],
           \A q \in Stages \ {p} : redirs'[q] = redirs[q],
           todo' \in [Stages -> 0..Output + 1], buf' \in [Links -> 0..Capacity],
           StageInv(p)'
    PROVE  FdInv'
<1>1. /\ Tables /\ pipe \in Pipelines /\ Shell \notin Stages
      /\ Shell \in Procs /\ p \in Procs /\ p # Shell
      /\ fds \in [Procs -> [Fds -> Ends]] /\ stage \in [Stages -> StageStates]
  BY ShellShape, ShellIsNoStage DEF Procs, Tables, FdInv, TypeOK, StageStates
<1>2. /\ fds'[Shell] = fds[Shell] /\ fds' \in [Procs -> [Fds -> Ends]]
      /\ \A q \in Stages \ {p} : fds'[q] = fds[q]
  BY <1>1 DEF Procs
<1>3. /\ Fds' = Fds /\ Above' = Above /\ Stages' = Stages /\ Links' = Links
      /\ Procs' = Procs /\ Ends' = Ends
  BY <1>2 DEF Fds, Above, Stages, Links, Procs, Ends, Closed, Terminal, File,
              ReadEnd, WriteEnd
<1>4. Tables'
  BY <1>2, <1>3 DEF FdInv, Tables
<1>5. /\ stage' \in [Stages -> StageStates] /\ stage'[p] # "none"
      /\ \A q \in Stages \ {p} : stage'[q] = stage[q]
  BY <1>1 DEF StageStates
<1>6. TypeOK'
  BY <1>2, <1>3, <1>5, EndsStayTyped DEF FdInv, TypeOK, EndsOK, StageStates, shellVars
<1>7. ShellInv'
  <2>1. ASSUME NEW f \in Fds
        PROVE  ShellHolds(f)' = ShellHolds(f)
    BY DEF shellVars, ShellHolds, InRound, IsLast, Terminal, Closed, ReadEnd, WriteEnd
  <2> QED
    BY <1>2, <1>3, <2>1 DEF FdInv, ShellInv, shellVars, InRound, IsLast
<1>8. ForkOrder'
  <2>1. \A q \in Stages : stage'[q] = "none" <=> stage[q] = "none"
    BY <1>5
  <2>2. i \in Stages /\ i' = i /\ pc' = pc
    BY ShellShape DEF shellVars
  <2> QED
    BY <1>3, <2>1, <2>2 DEF FdInv, ForkOrder
<1>9. \A q \in Stages \ {p} : StageInv(q)'
  BY <1>2, <1>3, <1>5, StageKept DEF FdInv
<1> QED
  BY <1>3, <1>4, <1>6, <1>7, <1>8, <1>9 DEF FdInv

\* What is known of a stage.
LEMMA StageShape ==
    ASSUME FdInv, NEW p \in Stages
    PROVE  /\ pipe \in Pipelines /\ StageInv(p) /\ fds[p] \in [Fds -> Ends]
           /\ DOMAIN fds[p] = Fds /\ 0..2 \subseteq Fds
           /\ p \in Nat \ {0} /\ p \in Procs /\ pipe[p].redirs \in Seq({"in", "out"})
           /\ fds = [fds EXCEPT ![p] = fds[p]]
           /\ redirs \in [Stages -> Seq({"in", "out"})]
           /\ stage \in [Stages -> StageStates]
           /\ todo \in [Stages -> 0..Output + 1] /\ buf \in [Links -> 0..Capacity]
           /\ Output \in Nat /\ Capacity \in Nat
<1>1. pipe \in Pipelines /\ Tables /\ StageInv(p)
  BY ShellShape DEF FdInv
<1>2. p \in Procs /\ fds \in [Procs -> [Fds -> Ends]]
  BY <1>1 DEF Procs, Tables
<1> QED
  BY <1>1, <1>2, PipeShape, TableShape, SizesAssumption
     DEF FdInv, TypeOK, StageStates, StageInv, Remaining

LEMMA OwnTable ==
    ASSUME FdInv, NEW p \in Stages, NEW table \in [Fds -> Ends],
           fds' = [fds EXCEPT ![p] = table]
    PROVE  fds'[p] = table /\ Fds' = Fds /\ Above' = Above
<1>1. /\ Tables /\ Shell \notin Stages /\ p \in Procs
      /\ fds \in [Procs -> [Fds -> Ends]]
  BY ShellShape, ShellIsNoStage DEF Tables, Procs
<1>2. fds'[p] = table /\ fds'[Shell] = fds[Shell]
  BY <1>1
<1> QED
  BY <1>2 DEF Fds, Above

\* A stage that ends has nothing to keep.
LEMMA DeadStage ==
    ASSUME FdInv, NEW p \in Stages, stage[p] # "none", Die(p),
           UNCHANGED <<pipe, shellVars, args, redirs, todo>>,
           buf' \in [Links -> 0..Capacity]
    PROVE  FdInv'
<1> DEFINE table == Close(fds[p], DOMAIN fds[p])
<1>1. table \in [Fds -> Ends]
  BY StageShape DEF Close, Ends
<1>2. /\ fds' = [fds EXCEPT ![p] = table] /\ stage' = [stage EXCEPT ![p] = "dead"]
      /\ stage'[p] = "dead"
  BY StageShape DEF Die
<1> HIDE DEF table
<1>3. StageInv(p)'
  BY <1>2, StageShape DEF StageInv, Remaining
<1> QED
  BY <1>1, <1>2, <1>3, StageShape, OthersKept DEF StageStates

LEMMA SetupKeeps == ASSUME FdInv, NEW p \in Stages, Setup(p) PROVE FdInv'
<1> DEFINE infd == args[p][1]
           outfd == args[p][2]
           in == IF infd # STDIN_FD THEN Dup2(fds[p], infd, STDIN_FD) ELSE fds[p]
           out == IF outfd # STDOUT_FD THEN Dup2(in, outfd, STDOUT_FD) ELSE in
           table == Close(out, {infd, outfd} \ {STDIN_FD, STDOUT_FD})
<1>1. /\ stage[p] = "setup" /\ fds' = [fds EXCEPT ![p] = table]
      /\ stage' = [stage EXCEPT ![p] = "redirect"]
      /\ UNCHANGED <<pipe, shellVars, childVars, buf>>
  BY DEF Setup, Rewired
<1>2. SetUp(p) /\ redirs[p] = pipe[p].redirs
  BY <1>1, StageShape DEF StageInv
<1>3. /\ fds[p] \in [Fds -> Ends] /\ 0..2 \subseteq Fds /\ 0 \in 0..2 /\ 1 \in 0..2
      /\ Above \subseteq Fds /\ 0 \notin Above /\ 1 \notin Above
  BY StageShape DEF Above
<1>4. infd \in Fds /\ outfd \in Fds
  BY <1>2, <1>3 DEF SetUp, STDIN_FD, STDOUT_FD
<1>5. in \in [Fds -> Ends] /\ \A f \in Fds \ {0} : in[f] = fds[p][f]
  BY <1>3, <1>4 DEF Dup2, STDIN_FD
<1>6. in[0] = IF p = 1 THEN Terminal ELSE ReadEnd(p - 1)
  BY <1>2, <1>3, <1>4 DEF Dup2, STDIN_FD, SetUp
<1> HIDE DEF in
<1>7. out \in [Fds -> Ends] /\ \A f \in Fds \ {1} : out[f] = in[f]
  BY <1>3, <1>4, <1>5 DEF Dup2, STDOUT_FD
<1>8. out[1] = IF p = Len(pipe) THEN Terminal ELSE WriteEnd(p)
  <2>1. in[1] = Terminal
    BY <1>2, <1>3, <1>5 DEF SetUp
  <2>2. outfd # 1 => in[outfd] = WriteEnd(p) /\ p # Len(pipe)
    BY <1>2, <1>3, <1>4, <1>5 DEF SetUp, STDOUT_FD
  <2>3. outfd = 1 => p = Len(pipe)
    BY <1>2, <1>3 DEF SetUp
  <2> QED
    BY <1>3, <1>5, <2>1, <2>2, <2>3 DEF Dup2, STDOUT_FD
<1> HIDE DEF out
<1>9. table \in [Fds -> Ends]
      /\ \A f \in Fds : table[f] = IF f \in {infd, outfd} \ {0, 1} THEN Closed ELSE out[f]
  BY <1>7 DEF Close, Ends, STDIN_FD, STDOUT_FD
<1> HIDE DEF table
<1>10. /\ table[0] = IF p = 1 THEN Terminal ELSE ReadEnd(p - 1)
       /\ table[1] = IF p = Len(pipe) THEN Terminal ELSE WriteEnd(p)
  BY <1>3, <1>6, <1>7, <1>8, <1>9
<1>11. ASSUME NEW f \in Above
       PROVE  table[f] \in {Closed, ReadEnd(p)}
  <2>1. f \in Fds /\ f # 0 /\ f # 1
    BY <1>3
  <2>2. f \notin {infd, outfd} => fds[p][f] \in {Closed, ReadEnd(p)}
    BY <1>2 DEF SetUp
  <2> QED
    BY <1>5, <1>7, <1>9, <2>1, <2>2
<1>12. /\ fds'[p] = table /\ stage'[p] = "redirect" /\ Above' = Above
       /\ redirs' = redirs /\ pipe' = pipe
  BY <1>1, <1>9, StageShape, OwnTable DEF childVars
<1>13. StageInv(p)'
  <2>1. Remaining(p)'
    BY <1>12, StageShape DEF StageInv, Remaining
  <2>2. ~Made(p, "in")' /\ ~Made(p, "out")'
    <3>1. Len(pipe[p].redirs) \in Nat
      BY StageShape
    <3>2. Len(pipe[p].redirs) - Len(redirs[p]) = 0
      BY <1>2, <3>1
    <3> QED
      BY <1>12, <3>2 DEF Made
  <2>3. Wired(p, {Closed, ReadEnd(p)})'
    BY <1>10, <1>11, <1>12, <2>2
       DEF Wired, STDIN_FD, STDOUT_FD, Closed, Terminal, ReadEnd, WriteEnd
  <2> QED
    BY <1>12, <2>1, <2>3 DEF StageInv
<1> QED
  BY <1>1, <1>9, <1>12, <1>13, StageShape, OthersKept DEF StageStates, childVars

LEMMA RedirectKeeps == ASSUME FdInv, NEW p \in Stages, Redirect(p) PROVE FdInv'
<1> DEFINE target == IF Head(redirs[p]) = "in" THEN STDIN_FD ELSE STDOUT_FD
           table == [fds[p] EXCEPT ![target] = File]
           all == pipe[p].redirs
           left == redirs[p]
<1>1. /\ stage[p] = "redirect" /\ left # <<>>
      /\ fds' = [fds EXCEPT ![p][target] = File]
      /\ redirs' = [redirs EXCEPT ![p] = Tail(@)]
      /\ UNCHANGED <<pipe, shellVars, stage, args, todo, buf>>
  BY DEF Redirect
<1>2. /\ left \in Seq({"in", "out"}) /\ all \in Seq({"in", "out"}) /\ Remaining(p)
      /\ Wired(p, {Closed, ReadEnd(p)})
      /\ fds[p] \in [Fds -> Ends] /\ 0..2 \subseteq Fds
  BY <1>1, StageShape DEF StageInv
<1>3. /\ target \in 0..2 /\ table \in [Fds -> Ends]
      /\ \A f \in Fds : table[f] = IF f = target THEN File ELSE fds[p][f]
  BY <1>2 DEF STDIN_FD, STDOUT_FD, Ends
<1>4. fds' = [fds EXCEPT ![p] = table]
  BY <1>1
<1> HIDE DEF table
<1>5. fds'[p] = table /\ Above' = Above
  BY <1>3, <1>4, OwnTable
<1>6. /\ Tail(left) \in Seq({"in", "out"}) /\ Len(Tail(left)) = Len(left) - 1
      /\ \A j \in 1..Len(left) - 1 : Tail(left)[j] = left[j + 1]
      /\ Len(left) \in Nat \ {0} /\ Len(all) \in Nat /\ Head(left) = left[1]
  BY <1>1, <1>2
<1>7. /\ redirs' \in [Stages -> Seq({"in", "out"})] /\ redirs'[p] = Tail(left)
      /\ \A q \in Stages \ {p} : redirs'[q] = redirs[q]
  BY <1>1, <1>6, StageShape
<1>8. Len(left) <= Len(all)
      /\ \A j \in 1..Len(left) : left[j] = all[Len(all) - Len(left) + j]
  BY <1>2 DEF Remaining
<1>9. Remaining(p)'
  <2>1. ASSUME NEW j \in 1..Len(Tail(left))
        PROVE  Tail(left)[j] = all[Len(all) - Len(Tail(left)) + j]
    <3>1. j \in 1..Len(left) - 1 /\ j + 1 \in 1..Len(left)
      BY <1>6
    <3> DEFINE a == Len(all)
               b == Len(left)
    <3>2. a - b + (j + 1) = a - (b - 1) + j
      <4>1. a \in Int /\ b \in Int /\ j \in Int
        BY <1>6, <3>1
      <4> HIDE DEF a, b
      <4> QED
        BY <4>1
    <3>3. left[j + 1] = all[Len(all) - Len(left) + (j + 1)]
      BY <1>8, <3>1
    <3> QED
      BY <1>6, <3>1, <3>2, <3>3
  <2>2. Len(Tail(left)) <= Len(all)
    BY <1>6, <1>8
  <2> QED
    BY <1>1, <1>6, <1>7, <2>1, <2>2 DEF Remaining
<1>10. ASSUME NEW dir
       PROVE  Made(p, dir)' <=> Made(p, dir) \/ dir = Head(left)
  <2> DEFINE k == Len(all) - Len(left)
  <2>1. k \in Nat /\ Len(all) - (Len(left) - 1) = k + 1
    BY <1>6, <1>8
  <2>2. Made(p, dir)' <=> \E j \in 1..k + 1 : all[j] = dir
    BY <1>1, <1>6, <1>7, <2>1 DEF Made
  <2>3. all[k + 1] = Head(left)
    <3>1. 1 \in 1..Len(left)
      BY <1>6
    <3> QED
      BY <1>6, <1>8, <3>1
  <2>4. Made(p, dir) <=> \E j \in 1..k : all[j] = dir
    BY DEF Made
  <2> HIDE DEF k
  <2>5. 1..k + 1 = 1..k \cup {k + 1}
    BY <2>1
  <2> QED
    BY <2>2, <2>3, <2>4, <2>5
<1>11. StageInv(p)'
  <2>1. Head(left) \in {"in", "out"}
    BY <1>2, <1>6
  <2>2. \A f \in Above : f \in Fds /\ f # target
    BY <1>3 DEF Above
  <2>3. /\ table[0] = IF target = 0 THEN File ELSE fds[p][0]
        /\ table[1] = IF target = 1 THEN File ELSE fds[p][1]
        /\ \A f \in Above : table[f] = fds[p][f]
    BY <1>2, <1>3, <2>2
  <2>4. /\ Made(p, "in")' <=> Made(p, "in") \/ target = 0
        /\ Made(p, "out")' <=> Made(p, "out") \/ target = 1
    BY <1>10, <2>1 DEF STDIN_FD, STDOUT_FD
  <2>5. Wired(p, {Closed, ReadEnd(p)})'
    BY <1>1, <1>2, <1>5, <2>3, <2>4
       DEF Wired, STDIN_FD, STDOUT_FD, Closed, Terminal, File, ReadEnd, WriteEnd
  <2> QED
    BY <1>1, <1>9, <2>5 DEF StageInv
<1>12. stage' = [stage EXCEPT ![p] = "redirect"]
  BY <1>1, StageShape
<1> QED
  BY <1>1, <1>3, <1>4, <1>7, <1>11, <1>12, StageShape, OthersKept DEF StageStates

LEMMA RunKeeps == ASSUME FdInv, NEW p \in Stages, Run(p) PROVE FdInv'
<1> DEFINE builtin == pipe[p].kind \in Builtins
           table == IF builtin THEN fds[p] ELSE AfterExec(fds[p])
<1>1. /\ stage[p] = "redirect" /\ redirs[p] = <<>>
      /\ stage' = [stage EXCEPT ![p] = "run"]
      /\ UNCHANGED <<pipe, shellVars, childVars, buf>>
  BY DEF Run
<1>2. fds' = [fds EXCEPT ![p] = table]
  BY StageShape DEF Run
<1>3. /\ table \in [Fds -> Ends]
      /\ \A f \in 0..2 : table[f] = fds[p][f]
      /\ \A f \in Above : table[f] = IF builtin THEN fds[p][f] ELSE Closed
  BY StageShape DEF AfterExec, Close, Ends, Above
<1> HIDE DEF table
<1>4. fds'[p] = table /\ Above' = Above /\ stage'[p] = "run"
  BY <1>1, <1>2, <1>3, StageShape, OwnTable
<1>5. StageInv(p)'
  <2>1. Remaining(p) /\ Wired(p, {Closed, ReadEnd(p)})
    BY <1>1, StageShape DEF StageInv
  <2>2. Remaining(p)'
    BY <1>1, <2>1 DEF Remaining, childVars
  <2>3. Made(p, "in")' = Made(p, "in") /\ Made(p, "out")' = Made(p, "out")
    BY <1>1 DEF Made, childVars
  <2>4. Wired(p, IF builtin THEN {Closed, ReadEnd(p)} ELSE {Closed})'
    BY <1>1, <1>3, <1>4, <2>1, <2>3
       DEF Wired, STDIN_FD, STDOUT_FD, Closed, Terminal, File, ReadEnd, WriteEnd, Builtins
  <2> QED
    BY <1>1, <1>4, <2>2, <2>4 DEF StageInv, childVars
<1> QED
  BY <1>1, <1>2, <1>3, <1>5, StageShape, OthersKept DEF StageStates, childVars

LEMMA ReadKeeps == ASSUME FdInv, NEW p \in Stages, Read(p) PROVE FdInv'
<1>1. /\ stage[p] = "run" /\ buf' \in [Links -> 0..Capacity]
      /\ UNCHANGED <<pipe, shellVars, args, redirs>>
  BY StageShape DEF Read
<1>2. CASE todo' = [todo EXCEPT ![p] = 1] /\ UNCHANGED <<stage, fds>>
  <2>1. todo' \in [Stages -> 0..Output + 1]
    BY <1>2, StageShape
  <2>2. fds' = [fds EXCEPT ![p] = fds[p]] /\ stage' = [stage EXCEPT ![p] = "run"]
    BY <1>1, <1>2, StageShape
  <2>3. Fds' = Fds
    BY <1>2 DEF Fds
  <2>4. StageInv(p)'
    BY <1>1, <1>2, <2>3, StageShape, StageKept
  <2> QED
    BY <1>1, <2>1, <2>2, <2>4, StageShape, OthersKept DEF StageStates
<1>3. CASE Die(p) /\ UNCHANGED todo
  BY <1>1, <1>3, DeadStage
<1> QED
  BY <1>2, <1>3 DEF Read

LEMMA WriteKeeps == ASSUME FdInv, NEW p \in Stages, Write(p) PROVE FdInv'
<1>1. /\ stage[p] = "run" /\ todo[p] > 0
      /\ UNCHANGED <<pipe, shellVars, fds, stage, args, redirs>>
      /\ todo' = [todo EXCEPT ![p] = @ - 1]
      /\ \A k \in Links : Out(p) = WriteEnd(k) => buf[k] < Capacity
      /\ buf' = [k \in Links |-> IF Out(p) = WriteEnd(k) THEN buf[k] + 1 ELSE buf[k]]
  BY DEF Write
<1>2. todo' \in [Stages -> 0..Output + 1]
  BY <1>1, StageShape
<1>3. buf' \in [Links -> 0..Capacity]
  <2>1. \A k \in Links : buf[k] \in 0..Capacity
    BY StageShape
  <2> HIDE DEF Out
  <2> QED
    BY <1>1, <2>1, StageShape
<1>4. fds' = [fds EXCEPT ![p] = fds[p]] /\ stage' = [stage EXCEPT ![p] = "run"]
  BY <1>1, StageShape
<1>5. Fds' = Fds
  BY <1>1 DEF Fds
<1>6. StageInv(p)'
  BY <1>1, <1>5, StageShape, StageKept
<1> QED
  BY <1>1, <1>2, <1>3, <1>4, <1>6, StageShape, OthersKept DEF StageStates

LEMMA StageKeeps == ASSUME FdInv, NEW p \in Stages, StageStep(p) PROVE FdInv'
<1>1. CASE StageFails(p)
  BY <1>1, DeadStage, StageShape DEF StageFails, childVars
<1>2. CASE Finish(p)
  BY <1>2, DeadStage, StageShape DEF Finish, childVars
<1>3. CASE BrokenPipe(p)
  BY <1>3, DeadStage, StageShape DEF BrokenPipe, childVars
<1> QED
  BY <1>1, <1>2, <1>3, SetupKeeps, RedirectKeeps, RunKeeps, ReadKeeps, WriteKeeps
     DEF StageStep

\* No stage touches the table or the state of another process.
LEMMA StagesApart ==
    ASSUME FdInv, NEW p \in Stages, StageStep(p)
    PROVE  /\ \A q \in Procs \ {p} : fds'[q] = fds[q]
           /\ \A q \in Stages \ {p} : stage'[q] = stage[q]
<1>1. /\ fds \in [Procs -> [Fds -> Ends]] /\ p \in Procs
      /\ stage \in [Stages -> StageStates]
  BY StageShape DEF FdInv, Tables
<1>2. CASE Die(p)
  BY <1>1, <1>2 DEF Die
<1>3. CASE UNCHANGED <<stage, fds>>
  BY <1>3
<1>4. CASE Setup(p)
  BY <1>1, <1>4 DEF Setup
<1>5. CASE Redirect(p)
  BY <1>1, <1>5 DEF Redirect
<1>6. CASE Run(p)
  BY <1>1, <1>6 DEF Run
<1> QED
  BY <1>2, <1>3, <1>4, <1>5, <1>6
     DEF StageStep, StageFails, Read, Finish, Write, BrokenPipe

-----------------------------------------------------------------------------
(* The theorems.                                                             *)

LEMMA InitHolds == ASSUME Init PROVE FdInv
<1>1. PICK limit \in Limits :
          fds = [p \in {Shell} \cup Stages |->
                   [f \in 0..limit - 1 |->
                      IF p = Shell /\ f \in 0..2 THEN Terminal ELSE Closed]]
  BY DEF Init
<1>2. /\ pipe \in Pipelines /\ pc = "pipe" /\ i = 1 /\ fd = NoPipe /\ cur_read = STDIN_FD
      /\ stage = [p \in Stages |-> "none"] /\ args = [p \in Stages |-> <<0, 0>>]
      /\ redirs = [p \in Stages |-> pipe[p].redirs]
      /\ todo = [p \in Stages |->
                   IF pipe[p].kind \in {"gen", "history"} THEN Output ELSE 0]
      /\ buf = [k \in Links |-> 0]
  BY DEF Init
<1>3. Fds = 0..limit - 1
  BY <1>1 DEF Fds
<1>4. Tables
  BY <1>1, <1>3 DEF Tables, Procs, Ends
<1>5. EndsOK
  BY <1>1 DEF EndsOK
<1>6. 1 \in Stages
  BY <1>2, PipeShape DEF Stages
<1>7. TypeOK
  BY <1>2, <1>5, <1>6, PipeShape, SizesAssumption DEF TypeOK, EndsOK, NoPipe, STDIN_FD
<1>8. ShellInv
  <2>1. ASSUME NEW f \in Fds
        PROVE  fds[Shell][f] = ShellHolds(f)
    <3>1. limit \in Nat
      BY LimitsAssumption
    <3>2. f = cur_read => f \in 0..2
      BY <1>2 DEF STDIN_FD
    <3> QED
      BY <1>1, <1>2, <1>3, <3>2 DEF ShellHolds, InRound
  <2> QED
    BY <1>2, <2>1 DEF ShellInv, InRound
<1>9. ForkOrder
  BY <1>2, <1>6 DEF ForkOrder, Stages
<1>10. ASSUME NEW p \in Stages
       PROVE  StageInv(p)
  <2>1. redirs[p] = pipe[p].redirs /\ stage[p] = "none" /\ redirs[p] \in Seq({"in", "out"})
    BY <1>2, PipeShape
  <2>2. Remaining(p)
    BY <2>1 DEF Remaining
  <2> QED
    BY <2>1, <2>2 DEF StageInv
<1> QED
  BY <1>4, <1>7, <1>8, <1>9, <1>10 DEF FdInv

LEMMA StutterKeeps == ASSUME FdInv, UNCHANGED vars PROVE FdInv'
<1>1. /\ UNCHANGED <<pipe, pc, i, fd, cur_read, fds, stage, args, redirs, todo, buf>>
      /\ Fds' = Fds /\ Stages' = Stages /\ Links' = Links /\ Above' = Above
      /\ Procs' = Procs /\ Ends' = Ends
  BY DEF vars, shellVars, childVars, Fds, Stages, Links, Above, Procs, Ends, Closed,
         Terminal, File, ReadEnd, WriteEnd
<1>2. TypeOK'
  BY <1>1 DEF FdInv, TypeOK, Closed, Terminal, File, ReadEnd, WriteEnd
<1>3. Tables' /\ ForkOrder'
  BY <1>1 DEF FdInv, Tables, ForkOrder
<1>4. \A f \in Fds : ShellHolds(f)' = ShellHolds(f)
  BY <1>1 DEF ShellHolds, InRound, IsLast, Terminal, Closed, ReadEnd, WriteEnd
<1>5. ShellInv'
  BY <1>1, <1>4 DEF FdInv, ShellInv, InRound, IsLast
<1>6. \A p \in Stages : StageInv(p)'
  BY <1>1, StageKept DEF FdInv
<1> QED
  BY <1>1, <1>2, <1>3, <1>5, <1>6 DEF FdInv

LEMMA FdSafety == Spec => []FdInv
<1>1. FdInv /\ [Next]_vars => FdInv'
  BY ShellKeeps, StageKeeps, StutterKeeps DEF Next
<1> QED
  BY <1>1, InitHolds, PTL DEF Spec

\* Type correctness of PipelineFds.
THEOREM FdsTypeCorrect == Spec => []TypeOK
<1>1. FdInv => TypeOK
  BY DEF FdInv
<1> QED
  BY <1>1, FdSafety, PTL

\* However execute_pipeline ends, at the end of its loop or on one of its error
\* paths, the shell has the descriptors it started with.
THEOREM NoDescriptorLeaks == Spec => []NoFdLeak
<1>1. ASSUME FdInv PROVE NoFdLeak
  BY <1>1 DEF FdInv, ShellInv, ShellHolds, InRound, NoFdLeak, Fds
<1> QED
  BY <1>1, FdSafety, PTL

\* The close of cur_read after the loop changes nothing: the number it names has
\* not been given out again.
THEOREM SecondCloseHarmless == Spec => SecondCloseIsHarmless
<1>1. FdInv /\ [Next]_vars => [pc = "closeAgain" => fds'[Shell] = fds[Shell]]_vars
  <2> SUFFICES ASSUME FdInv, Next, pc = "closeAgain"
               PROVE  fds'[Shell] = fds[Shell]
    OBVIOUS
  <2>1. CASE ShellStep
    BY <2>1, CloseAgainKeeps
       DEF ShellStep, CreatePipe, PipeFails, NoPipeNeeded, Fork, CommandFails, CloseWrite,
           CloseRead
  <2>2. ASSUME NEW p \in Stages, StageStep(p)
        PROVE  fds'[Shell] = fds[Shell]
    <3>1. Shell # p /\ Shell \in Procs
      BY ShellShape, ShellIsNoStage DEF Procs
    <3> QED
      BY <2>2, <3>1, StagesApart
  <2> QED
    BY <2>1, <2>2 DEF Next
<1> QED
  BY <1>1, FdSafety, PTL DEF Spec, SecondCloseIsHarmless

\* Every stage runs with the input and output that its place in the pipeline and
\* its redirections ask for, and a program without any other end of a pipe.
THEOREM StagesAreWired == Spec => []StagesWired
<1>1. ASSUME FdInv PROVE StagesWired
  <2> SUFFICES ASSUME NEW p \in Stages, stage[p] = "run"
               PROVE  LET has(dir) == \E r \in DOMAIN pipe[p].redirs : pipe[p].redirs[r] = dir
                          own == IF pipe[p].kind \in Builtins THEN {Closed, ReadEnd(p)}
                                                              ELSE {Closed}
                      IN  /\ Input(p) = IF has("in") THEN File
                                        ELSE IF p = 1 THEN Terminal ELSE ReadEnd(p - 1)
                          /\ Out(p) = IF has("out") THEN File
                                      ELSE IF p = Len(pipe) THEN Terminal ELSE WriteEnd(p)
                          /\ \A f \in DOMAIN fds[p] \ 0..2 : fds[p][f] \in own
    BY DEF StagesWired
  <2>1. /\ redirs[p] = <<>>
        /\ Wired(p, IF pipe[p].kind \in Builtins THEN {Closed, ReadEnd(p)} ELSE {Closed})
    BY <1>1, StageShape DEF StageInv
  <2>2. \A dir : Made(p, dir)
                   <=> \E r \in DOMAIN pipe[p].redirs : pipe[p].redirs[r] = dir
    <3>1. Len(pipe[p].redirs) - Len(redirs[p]) = Len(pipe[p].redirs)
      BY <1>1, <2>1, StageShape
    <3>2. DOMAIN pipe[p].redirs = 1..Len(pipe[p].redirs)
      BY <1>1, StageShape
    <3> QED
      BY <3>1, <3>2 DEF Made
  <2>3. DOMAIN fds[p] \ 0..2 = Above
    BY <1>1, StageShape DEF Above
  <2> QED
    BY <2>1, <2>2, <2>3 DEF Wired, Input, Out
<1> QED
  BY <1>1, FdSafety, PTL

\* A program that comes to the end of its input through the pipe before it has not
\* overtaken the stage that writes it: that one has ended or writes to a file.
THEOREM EofIsReal == Spec => EofIsTrue
<1>1. FdInv /\ [Next]_vars
        => [\A p \in Stages :
              /\ stage[p] = "run" /\ stage'[p] = "dead"
              /\ pipe[p].kind = "cat" /\ todo[p] = 0
              /\ p > 1 /\ Input(p) = ReadEnd(p - 1)
              => \/ stage[p - 1] = "dead"
                 \/ Out(p - 1) = File]_vars
  <2> SUFFICES ASSUME FdInv, Next, NEW p \in Stages,
                      stage[p] = "run", stage'[p] = "dead", pipe[p].kind = "cat",
                      todo[p] = 0, p > 1, Input(p) = ReadEnd(p - 1)
               PROVE  stage[p - 1] = "dead" \/ Out(p - 1) = File
    OBVIOUS
  <2> DEFINE q == p - 1
  <2>1. stage \in [Stages -> StageStates] /\ p \in Nat /\ Len(pipe) \in Nat /\ i \in Nat
    BY StageShape, ShellShape
  <2>2. q \in Stages /\ q \in Links /\ q # Len(pipe) /\ q < p
    BY <2>1 DEF Stages, Links
  <2> HIDE DEF q
  <2>3. Finish(p)
    <3>1. CASE ShellStep
      BY <2>1, <3>1
         DEF ShellStep, CreatePipe, PipeFails, NoPipeNeeded, Fork, CommandFails,
             CloseWrite, CloseRead, CloseAgain
    <3>2. ASSUME NEW r \in Stages, StageStep(r), r # p
          PROVE  FALSE
      BY <3>2, StagesApart
    <3>3. CASE StageStep(p)
      BY <2>1, <3>3
         DEF StageStep, Setup, Redirect, StageFails, Run, Read, Write, BrokenPipe
    <3> QED
      BY <3>1, <3>2, <3>3 DEF Next
  <2>4. Holders(WriteEnd(q)) = {}
    BY <2>2, <2>3 DEF Finish, AtEof, q
  <2>5. stage[q] # "none"
    <3>1. p <= i
      BY <2>1 DEF FdInv, ForkOrder
    <3>2. q < i
      BY <2>1, <2>2, <3>1 DEF Stages
    <3> QED
      BY <2>2, <3>2 DEF FdInv, ForkOrder
  <2>6. \A f \in Fds : fds[q][f] # WriteEnd(q)
    BY <2>2, <2>4, StageShape DEF Holders
  <2>7. stage[q] # "setup"
    <3>1. stage[q] = "setup" => SetUp(q)
      BY <2>2, StageShape DEF StageInv
    <3> QED
      BY <2>2, <2>6, <3>1 DEF SetUp, Above
  <2>8. stage[q] \in {"redirect", "run"} => Out(q) = File
    <3> SUFFICES ASSUME stage[q] \in {"redirect", "run"}
                 PROVE  Out(q) = File
      OBVIOUS
    <3>1. \E own : Wired(q, own)
      BY <2>2, StageShape DEF StageInv
    <3>2. STDOUT_FD \in Fds
      BY <2>2, StageShape DEF STDOUT_FD
    <3> QED
      BY <2>2, <2>6, <3>1, <3>2 DEF Wired, Out
  <2> QED
    BY <2>1, <2>2, <2>5, <2>7, <2>8 DEF StageStates, q
<1> QED
  BY <1>1, FdSafety, PTL DEF Spec, EofIsTrue

=============================================================================
