-------------------------- MODULE JobControlProofs --------------------------
(* Proofs about JobControl, for every set of process ids, of programs and of *)
(* exit codes that its assumptions allow.                                    *)
EXTENDS JobControl, TLAPS

-----------------------------------------------------------------------------
(* The control state.                                                      *)

\* What ProgramsAssumption gives for one line.
LEMMA ProgramShape ==
    ASSUME NEW prog \in Programs
    PROVE  /\ prog.pipes \in Seq(Seq(Command))
           /\ prog.ops \in Seq(Ops)
           /\ Len(prog.pipes) \in Nat \ {0}
           /\ Len(prog.ops) \in Nat
           /\ Len(prog.pipes) <= Len(prog.ops) + 1
           /\ Len(prog.ops) <= Len(prog.pipes)
           /\ \A i \in 1..Len(prog.pipes) :
                 /\ prog.pipes[i] \in Seq(Command)
                 /\ Len(prog.pipes[i]) \in Nat \ {0}
<1>1. prog \in [pipes: Seq(Seq(Command)), ops: Seq(Ops)]
  BY ProgramsAssumption
<1>2. prog.pipes \in Seq(Seq(Command)) /\ prog.ops \in Seq(Ops)
  BY <1>1
<1>3. /\ Len(prog.pipes) > 0
      /\ \A i \in 1..Len(prog.pipes) : Len(prog.pipes[i]) > 0
      /\ Len(prog.ops) \in {Len(prog.pipes) - 1, Len(prog.pipes)}
  BY ProgramsAssumption
<1>4. Len(prog.pipes) \in Nat /\ Len(prog.ops) \in Nat
  BY <1>2
<1>5. \A i \in 1..Len(prog.pipes) : prog.pipes[i] \in Seq(Command)
  BY <1>2
<1>6. \A i \in 1..Len(prog.pipes) : Len(prog.pipes[i]) \in Nat
  BY <1>5
<1> QED
  BY <1>2, <1>3, <1>4, <1>5, <1>6

\* Executing the right side of operator n leads to a proper control state.
LEMMA RightOK ==
    ASSUME line \in Programs, line' = line,
           NEW n \in 1..Len(line.ops), Right(n)
    PROVE  /\ ControlOK'
           /\ pc' \in {"cmd", "reap"} /\ at' \in Nat /\ cmd' \in Nat
<1>1. /\ Len(line.pipes) \in Nat \ {0} /\ Len(line.ops) \in Nat
      /\ \A i \in 1..Len(line.pipes) : Len(line.pipes[i]) \in Nat \ {0}
  BY ProgramShape
<1>2. at' = n + 1 /\ cmd' = 1
      /\ pc' = IF n < Len(line.pipes) THEN "cmd" ELSE "reap"
  BY DEF Right
<1>3. CASE n < Len(line.pipes)
  BY <1>1, <1>2, <1>3 DEF ControlOK, Waiting
<1>4. CASE ~(n < Len(line.pipes))
  BY <1>1, <1>2, <1>4 DEF ControlOK, Waiting
<1> QED
  BY <1>3, <1>4

\* So does returning to operator n, or to main when there is none.
LEMMA ReturnsOK ==
    ASSUME line \in Programs, line' = line,
           NEW n \in 1..(Len(line.ops) + 1), Returns(n)
    PROVE  /\ ControlOK'
           /\ pc' \in {"cmd"} \cup Waiting /\ at' \in Nat /\ cmd' \in Nat
<1>1. Len(line.ops) \in Nat
  BY ProgramShape
<1>2. CASE n > Len(line.ops) /\ pc' = "collect" /\ at' = n /\ cmd' = 1
  BY <1>1, <1>2 DEF ControlOK, Waiting
<1>3. CASE /\ n <= Len(line.ops) /\ line.ops[n] # "&"
           /\ pc' = "listwait" /\ at' = n /\ cmd' = 1
  BY <1>1, <1>3 DEF ControlOK, Waiting
<1>4. CASE n <= Len(line.ops) /\ line.ops[n] = "&" /\ Right(n)
  BY <1>1, <1>4, RightOK DEF Waiting
<1> QED
  BY <1>2, <1>3, <1>4 DEF Returns

\* And so does the return of execute_pipeline.
LEMMA EndPipelineOK ==
    ASSUME TypeOK, pc = "cmd", line' = line,
           NEW p \in Pids \cup {0, -1}, EndPipeline(p)
    PROVE  /\ ControlOK'
           /\ pc' \in {"cmd"} \cup Waiting /\ at' \in Nat /\ cmd' \in Nat
           /\ pid' = p /\ outcome' = NoOutcome
<1>1. line \in Programs /\ at \in 1..Len(line.pipes)
  BY DEF TypeOK, ControlOK
<1>2. /\ Len(line.ops) \in Nat /\ Len(line.pipes) \in Nat
      /\ Len(line.pipes) <= Len(line.ops) + 1
  BY <1>1, ProgramShape
<1>3. CASE at = 1 /\ Returns(1)
  BY <1>1, <1>2, <1>3, ReturnsOK DEF EndPipeline
<1>4. CASE at > 1 /\ pc' = "reap" /\ at' = at /\ cmd' = 1
  BY <1>1, <1>2, <1>4 DEF EndPipeline, ControlOK, Waiting
<1> QED
  BY <1>3, <1>4 DEF EndPipeline

\* The decision after a list's wait does too.
LEMMA DecideOK ==
    ASSUME TypeOK, pc = "listwait", line' = line, NEW ok \in BOOLEAN, Decide(ok)
    PROVE  /\ ControlOK'
           /\ pc' \in {"cmd"} \cup Waiting /\ at' \in Nat /\ cmd' \in Nat
<1>1. line \in Programs /\ at \in 1..Len(line.ops)
  BY DEF TypeOK, ControlOK
<1>2. Len(line.ops) \in Nat
  BY <1>1, ProgramShape
<1>3. Returns(at + 1) \/ Right(at)
  BY DEF Decide
<1>4. CASE Returns(at + 1)
  <2>1. at + 1 \in 1..(Len(line.ops) + 1)
    BY <1>1, <1>2
  <2> QED
    BY <1>1, <1>4, <2>1, ReturnsOK
<1>5. CASE Right(at)
  BY <1>1, <1>5, RightOK DEF Waiting
<1> QED
  BY <1>3, <1>4, <1>5

-----------------------------------------------------------------------------
(* Type correctness.                                                       *)

\* The record fork writes for a child.
LEMMA CurrentIsCommand ==
    ASSUME TypeOK, pc = "cmd"
    PROVE  Current \in Command
<1>1. /\ line \in Programs /\ at \in 1..Len(line.pipes)
      /\ cmd \in 1..Len(line.pipes[at])
  BY DEF TypeOK, ControlOK
<1>2. line.pipes[at] \in Seq(Command)
  BY <1>1, ProgramShape
<1> QED
  BY <1>1, <1>2 DEF Current, Pipeline

\* The record of a process id that is not in use.
LEMMA NoKidType == NoKid \in Kid
  BY DEF NoKid, Kid, Kinds

\* A child's status is one that wait4 can report.
LEMMA CodesType ==
    ASSUME NEW k \in Kid
    PROVE  Codes(k) \subseteq (0..255) \cup {NotExited}
<1>1. ExitCodes \subseteq 0..255
  BY CodesAssumption
<1>2. CASE k.kind = "builtinOk"
  BY <1>1, <1>2 DEF Codes, NotExited
<1>3. CASE k.kind = "builtinFail"
  BY <1>1, <1>3 DEF Codes, NotExited
<1>4. CASE k.kind \notin {"builtinOk", "builtinFail"}
  BY <1>1, <1>4 DEF Codes, NotExited
<1> QED
  BY <1>2, <1>3, <1>4

\* The variables hold values of their types and the control state points into
\* the line being executed.
THEOREM TypeCorrect == Spec => []TypeOK
<1>1. Init => TypeOK
  <2> SUFFICES ASSUME Init
               PROVE  TypeOK
    OBVIOUS
  <2>1. /\ builtin_executed \in BOOLEAN
        /\ sigPending \in BOOLEAN /\ handler \in BOOLEAN
    BY DEF Init
  <2>2. /\ proc \in [Pids -> {"free", "running", "zombie"}]
        /\ code \in [Pids -> (0..255) \cup {NotExited}]
        /\ kid \in [Pids -> Kid]
    BY NoKidType DEF Init
  <2>3. ControlOK
    BY DEF Init, ControlOK, Waiting
  <2> QED
    BY <2>1, <2>2, <2>3 DEF Init, TypeOK, Waiting, Modes
<1>2. TypeOK /\ [Next]_vars => TypeOK'
  <2> SUFFICES ASSUME TypeOK, [Next]_vars
               PROVE  TypeOK'
    OBVIOUS
  <2> USE DEF TypeOK
  <2>f. ASSUME NEW p \in Pids, Fork(p)
        PROVE  /\ line' = line /\ proc' \in [Pids -> {"free", "running", "zombie"}]
               /\ kid' \in [Pids -> Kid]
    <3>1. Current \in Command
      BY <2>f, CurrentIsCommand DEF Fork
    <3>2. Foreground \in BOOLEAN /\ ChildTermios \in Modes \cup {"none"}
      BY DEF Foreground, ChildTermios
    <3>3. [kind |-> Current.kind, redir |-> Current.redir,
           fg |-> Foreground, termios |-> ChildTermios] \in Kid
      BY <3>1, <3>2 DEF Kid, Command
    <3> QED
      BY <2>f, <3>3 DEF Fork
  <2>r. ASSUME NEW p \in Pids, Reap(p)
        PROVE  /\ proc' \in [Pids -> {"free", "running", "zombie"}]
               /\ code' \in [Pids -> (0..255) \cup {NotExited}]
               /\ kid' \in [Pids -> Kid]
               /\ code[p] \in (0..255) \cup {NotExited}
    BY <2>r, NoKidType DEF Reap
  <2>s. ASSUME NEW st \in (0..255) \cup {NotExited}, Finish(st)
        PROVE  /\ last_status' \in 0..255 /\ builtin_executed' \in BOOLEAN
               /\ tty' \in Modes /\ default_flags' \in Modes
               /\ pc' = "prompt" /\ line' = NoLine /\ at' \in Nat
               /\ cmd' \in Nat /\ pid' = -1 /\ outcome' = NoOutcome
               /\ ControlOK' /\ UNCHANGED signal
    <3>1. last_status' \in 0..255
      BY <2>s DEF Finish, NotExited
    <3> QED
      BY <2>s, <3>1 DEF Finish, Modes, ControlOK, Waiting
  <2>l. ASSUME Leave
        PROVE  TypeOK'
    <3>1. /\ builtin_executed' \in BOOLEAN
          /\ sigPending' \in BOOLEAN /\ handler' \in BOOLEAN
      BY <2>l DEF Leave, status
    <3>2. /\ proc' \in [Pids -> {"free", "running", "zombie"}]
          /\ code' \in [Pids -> (0..255) \cup {NotExited}]
          /\ kid' \in [Pids -> Kid]
      BY <2>l, NoKidType DEF Leave
    <3>3. ControlOK'
      BY <2>l DEF Leave, ControlOK, Waiting
    <3> QED
      BY <2>l, <3>1, <3>2, <3>3 DEF Leave, status
  <2>1. ASSUME NEW prog \in Programs, ReadLine(prog)
        PROVE  TypeOK'
    <3>1. /\ Len(prog.pipes) \in Nat \ {0}
          /\ \A i \in 1..Len(prog.pipes) : Len(prog.pipes[i]) \in Nat \ {0}
      BY ProgramShape
    <3> QED
      BY <2>1, <3>1 DEF ReadLine, ControlOK, Waiting, status, children, signal
  <2>2. CASE LineRefused
    BY <2>2, <2>l DEF LineRefused
  <2>3. ASSUME NEW p \in Pids, ForkStage(p)
        PROVE  TypeOK'
    <3>1. /\ line \in Programs /\ at \in 1..Len(line.pipes)
          /\ cmd \in 1..Len(line.pipes[at])
      BY <2>3 DEF ForkStage, Fork, ControlOK
    <3>2. Len(line.pipes[at]) \in Nat \ {0}
      BY <3>1, ProgramShape
    <3>3. cmd' \in 1..Len(line.pipes[at])
      BY <2>3, <3>1, <3>2 DEF ForkStage, IsLast, Pipeline
    <3>4. ControlOK'
      BY <2>3, <3>1, <3>3 DEF ForkStage, Fork, ControlOK, Waiting
    <3>5. pc' = pc /\ at' = at /\ pid' = pid /\ outcome' = outcome
      BY <2>3 DEF ForkStage
    <3>6. cmd' \in Nat
      BY <3>2, <3>3
    <3>7. Fork(p)
      BY <2>3 DEF ForkStage
    <3>8. /\ line' = line /\ proc' \in [Pids -> {"free", "running", "zombie"}]
          /\ kid' \in [Pids -> Kid]
      BY <2>f, <3>7
    <3> QED
      BY <3>4, <3>5, <3>6, <3>7, <3>8 DEF Fork, status, terminal, signal
  <2>4. ASSUME NEW p \in Pids, ForkLast(p)
        PROVE  TypeOK'
    <3>1. /\ ControlOK'
          /\ pc' \in {"cmd"} \cup Waiting /\ at' \in Nat /\ cmd' \in Nat
          /\ pid' = p /\ outcome' = NoOutcome
      BY <2>4, EndPipelineOK DEF ForkLast, Fork
    <3> QED
      BY <2>4, <2>f, <3>1
         DEF ForkLast, Fork, status, terminal, signal, NoOutcome
  <2>5. ASSUME NEW p \in {0, -1}, EndPipeline(p), pc = "cmd",
               UNCHANGED <<line, last_status, terminal, children, signal>>,
               builtin_executed' \in BOOLEAN
        PROVE  TypeOK'
    <3>1. /\ ControlOK'
          /\ pc' \in {"cmd"} \cup Waiting /\ at' \in Nat /\ cmd' \in Nat
          /\ pid' = p /\ outcome' = NoOutcome
      BY <2>5, EndPipelineOK
    <3> QED
      BY <2>5, <3>1 DEF terminal, children, signal, NoOutcome
  <2>6. CASE CommandFails
    BY <2>5, <2>6 DEF CommandFails, status
  <2>7. CASE PipeFails
    BY <2>5, <2>7 DEF PipeFails, status
  <2>8. CASE RunBuiltin
    BY <2>5, <2>8 DEF RunBuiltin
  <2>9. CASE ExitShell
    BY <2>9, <2>l DEF ExitShell
  <2>10. ASSUME NEW p \in Pids, WaitReaps(p)
         PROVE  TypeOK'
    <3>1. /\ ControlOK'
          /\ pc' \in {"cmd"} \cup Waiting /\ at' \in Nat /\ cmd' \in Nat
      BY <2>10, DecideOK, (code[p] = 0) \in BOOLEAN DEF WaitReaps
    <3> QED
      BY <2>10, <2>r, <3>1 DEF WaitReaps, status, terminal, signal
  <2>11. CASE WaitFails
    <3>1. /\ ControlOK'
          /\ pc' \in {"cmd"} \cup Waiting /\ at' \in Nat /\ cmd' \in Nat
      BY <2>11, DecideOK DEF WaitFails
    <3> QED
      BY <2>11, <3>1 DEF WaitFails, status, terminal, children, signal
  <2>12. ASSUME NEW p \in Pids, ReapOne(p)
         PROVE  TypeOK'
    BY <2>12, <2>r DEF ReapOne, control, status, terminal, signal, ControlOK
  <2>13. CASE ReapDone
    <3>1. line \in Programs /\ at \in 1..(Len(line.ops) + 1)
      BY <2>13 DEF ReapDone, ControlOK, Waiting
    <3>2. /\ ControlOK'
          /\ pc' \in {"cmd"} \cup Waiting /\ at' \in Nat /\ cmd' \in Nat
      BY <2>13, <3>1, ReturnsOK DEF ReapDone
    <3> QED
      BY <2>13, <3>2 DEF ReapDone, status, terminal, children, signal
  <2>14. CASE Collect
    <3>1. pid \in Pids /\ Reap(pid) /\ Finish(code[pid])
      BY <2>14 DEF Collect
    <3>2. /\ code[pid] \in (0..255) \cup {NotExited}
          /\ proc' \in [Pids -> {"free", "running", "zombie"}]
          /\ code' \in [Pids -> (0..255) \cup {NotExited}]
          /\ kid' \in [Pids -> Kid]
      BY <2>r, <3>1
    <3>3. /\ last_status' \in 0..255 /\ builtin_executed' \in BOOLEAN
          /\ tty' \in Modes /\ default_flags' \in Modes
          /\ pc' = "prompt" /\ line' = NoLine /\ at' \in Nat
          /\ cmd' \in Nat /\ pid' = -1 /\ outcome' = NoOutcome
          /\ ControlOK' /\ UNCHANGED signal
      BY <2>s, <3>1, <3>2
    <3> QED
      BY <3>2, <3>3 DEF signal, NoOutcome
  <2>15. CASE CollectNothing
    <3>1. Finish(NotExited) /\ UNCHANGED children
      BY <2>15 DEF CollectNothing
    <3>2. /\ last_status' \in 0..255 /\ builtin_executed' \in BOOLEAN
          /\ tty' \in Modes /\ default_flags' \in Modes
          /\ pc' = "prompt" /\ line' = NoLine /\ at' \in Nat
          /\ cmd' \in Nat /\ pid' = -1 /\ outcome' = NoOutcome
          /\ ControlOK' /\ UNCHANGED signal
      BY <2>s, <3>1
    <3> QED
      BY <3>1, <3>2 DEF signal, children, NoOutcome
  <2>16. CASE DeliverSignal
    <3>1. sigPending' \in BOOLEAN /\ handler' \in BOOLEAN
      BY <2>16 DEF DeliverSignal
    <3>2. ControlOK'
      BY <2>16 DEF DeliverSignal, control, ControlOK
    <3> QED
      BY <2>16, <3>1, <3>2 DEF DeliverSignal, control, status, terminal, children
  <2>17. ASSUME NEW p \in Pids, HandlerReap(p)
         PROVE  TypeOK'
    BY <2>17, <2>r DEF HandlerReap, control, status, terminal, signal, ControlOK
  <2>18. CASE HandlerReturn
    <3>1. sigPending' \in BOOLEAN /\ handler' \in BOOLEAN
      BY <2>18 DEF HandlerReturn
    <3>2. ControlOK'
      BY <2>18 DEF HandlerReturn, control, ControlOK
    <3> QED
      BY <2>18, <3>1, <3>2 DEF HandlerReturn, control, status, terminal, children
  <2>19. ASSUME NEW p \in Pids, ChildRestores(p)
         PROVE  TypeOK'
    <3>1. kid[p] \in Kid
      OBVIOUS
    <3>2. tty' \in Modes
      BY <2>19, <3>1 DEF ChildRestores, Kid
    <3>3. [kid[p] EXCEPT !.termios = "none"] \in Kid
      BY <3>1 DEF Kid
    <3>4. kid' \in [Pids -> Kid]
      BY <2>19, <3>3 DEF ChildRestores
    <3>5. ControlOK'
      BY <2>19 DEF ChildRestores, control, ControlOK
    <3> QED
      BY <2>19, <3>2, <3>4, <3>5 DEF ChildRestores, control, status, signal
  <2>20. ASSUME NEW p \in Pids, ChildExit(p)
         PROVE  TypeOK'
    <3>1. PICK c \in Codes(kid[p]) :
              /\ code' = [code EXCEPT ![p] = c]
              /\ outcome' = IF p = pid /\ pc \in Waiting THEN c ELSE outcome
      BY <2>20 DEF ChildExit
    <3>2. c \in (0..255) \cup {NotExited}
      BY <3>1, CodesType
    <3>3. [NoKid EXCEPT !.fg = kid[p].fg] \in Kid
      BY DEF TypeOK, Kid, NoKid, Kinds
    <3>4. kid' \in [Pids -> Kid]
      BY <2>20, <3>3 DEF ChildExit, TypeOK
    <3> QED
      BY <2>20, <3>1, <3>2, <3>4 DEF ChildExit, control, status, terminal, ControlOK
  <2>21. CASE UNCHANGED vars
    BY <2>21 DEF vars, control, status, terminal, children, signal, ControlOK
  <2> QED
    BY <2>1, <2>2, <2>3, <2>4, <2>6, <2>7, <2>8, <2>9, <2>10, <2>11, <2>12,
       <2>13, <2>14, <2>15, <2>16, <2>17, <2>18, <2>19, <2>20, <2>21
       DEF Next, Execute, Handle, Exited
<1> QED
  BY <1>1, <1>2, PTL DEF Spec

-----------------------------------------------------------------------------
(* Zombies.                                                                *)

\* A zombie never waits for a signal that was lost: NoLostZombie is inductive
\* once the types are known.  Only ChildExit adds a zombie, and it makes
\* SIGCHLD pending; only HandlerReturn ends the handler, when none is left.
THEOREM ZombieSafety == Spec => []NoLostZombie
<1>1. Init => NoLostZombie
  BY DEF Init, NoLostZombie, Zombies
<1>2. TypeOK /\ NoLostZombie /\ [Next]_vars => NoLostZombie'
  <2> SUFFICES ASSUME TypeOK, NoLostZombie, [Next]_vars
               PROVE  NoLostZombie'
    OBVIOUS
  <2> USE DEF NoLostZombie, Zombies
  <2>t. proc \in [Pids -> {"free", "running", "zombie"}]
    BY DEF TypeOK
  <2>f. ASSUME NEW p \in Pids, Fork(p)
        PROVE  NoLostZombie'
    BY <2>t, <2>f DEF Fork, signal
  <2>r. ASSUME NEW p \in Pids, Reap(p), pc # "exited" \/ pc' = pc,
               UNCHANGED signal
        PROVE  NoLostZombie'
    BY <2>t, <2>r DEF Reap, signal
  <2>u. ASSUME UNCHANGED proc, UNCHANGED signal, pc # "exited" \/ pc' = pc
        PROVE  NoLostZombie'
    BY <2>u DEF signal
  <2>l. ASSUME Leave
        PROVE  NoLostZombie'
    BY <2>l DEF Leave
  <2>1. ASSUME NEW prog \in Programs, ReadLine(prog)
        PROVE  NoLostZombie'
    BY <2>1, <2>u DEF ReadLine, children
  <2>2. CASE LineRefused
    BY <2>2, <2>l DEF LineRefused
  <2>3. ASSUME NEW p \in Pids, ForkStage(p) \/ ForkLast(p)
        PROVE  NoLostZombie'
    BY <2>3, <2>f DEF ForkStage, ForkLast
  <2>4. CASE CommandFails \/ PipeFails \/ RunBuiltin
    BY <2>4, <2>u DEF CommandFails, PipeFails, RunBuiltin, children
  <2>5. CASE ExitShell
    BY <2>5, <2>l DEF ExitShell
  <2>6. ASSUME NEW p \in Pids, WaitReaps(p)
        PROVE  NoLostZombie'
    BY <2>6, <2>r DEF WaitReaps
  <2>7. CASE WaitFails \/ ReapDone
    BY <2>7, <2>u DEF WaitFails, ReapDone, children
  <2>8. ASSUME NEW p \in Pids, ReapOne(p)
        PROVE  NoLostZombie'
    BY <2>8, <2>r DEF ReapOne
  <2>9. CASE Collect
    <3>1. pid \in Pids
      BY <2>9 DEF Collect, TypeOK
    <3> QED
      BY <2>9, <3>1, <2>r DEF Collect, Finish
  <2>10. CASE CollectNothing
    BY <2>10, <2>u DEF CollectNothing, Finish, children
  <2>11. CASE DeliverSignal
    BY <2>11 DEF DeliverSignal
  <2>12. ASSUME NEW p \in Pids, HandlerReap(p)
         PROVE  NoLostZombie'
    BY <2>12, <2>r DEF HandlerReap, control
  <2>13. CASE HandlerReturn
    BY <2>13 DEF HandlerReturn, children
  <2>14. ASSUME NEW p \in Pids, ChildRestores(p)
         PROVE  NoLostZombie'
    BY <2>14, <2>u DEF ChildRestores, control
  <2>15. ASSUME NEW p \in Pids, ChildExit(p)
         PROVE  NoLostZombie'
    BY <2>15 DEF ChildExit
  <2>16. CASE UNCHANGED vars
    BY <2>16, <2>u DEF vars, control, children
  <2> QED
    BY <2>1, <2>2, <2>3, <2>4, <2>5, <2>6, <2>7, <2>8, <2>9, <2>10, <2>11,
       <2>12, <2>13, <2>14, <2>15, <2>16 DEF Next, Execute, Handle, Exited
<1> QED
  BY <1>1, <1>2, TypeCorrect, PTL DEF Spec

-----------------------------------------------------------------------------
(* The foreground process.                                                 *)

\* OneForeground is not inductive by itself: the loop that reaps must not lead
\* past an "&" while the foreground process runs.
ForegroundInv ==
    /\ OneForeground
    /\ pc = "reap" /\ (\E p \in Pids : proc[p] = "running" /\ kid[p].fg)
         => at > Len(line.ops) \/ line.ops[at] # "&"

\* A step that starts no process and keeps the shell where it is.
LEMMA ForegroundKept ==
    ASSUME TypeOK, ForegroundInv, UNCHANGED <<pc, pid, line, at>>,
           \A p \in Pids : proc'[p] = "running"
                             => proc[p] = "running" /\ kid'[p].fg = kid[p].fg
    PROVE  ForegroundInv'
  BY DEF ForegroundInv, OneForeground

\* A step after which nothing that is waited for runs.
LEMMA NoForeground ==
    ASSUME \A p \in Pids : proc'[p] = "running" => ~kid'[p].fg
    PROVE  ForegroundInv'
  BY DEF ForegroundInv, OneForeground

\* A process is reaped.
LEMMA ReapRunning ==
    ASSUME TypeOK, NEW q \in Pids, Reap(q)
    PROVE  \A p \in Pids : proc'[p] = "running"
                             => p # q /\ proc[p] = "running" /\ kid'[p] = kid[p]
  BY DEF Reap, TypeOK

\* Where execute_pipeline returns to, nothing is waited for except the process
\* it returns.
LEMMA EndPipelineForeground ==
    ASSUME TypeOK, pc = "cmd", line' = line,
           NEW q \in Pids \cup {0, -1}, EndPipeline(q),
           \A p \in Pids : proc'[p] = "running" /\ kid'[p].fg
              => p = q /\ (at > Len(line.ops) \/ line.ops[at] # "&")
    PROVE  ForegroundInv'
<1>1. pid' = q
  BY DEF EndPipeline
<1>2. at \in 1..Len(line.pipes) /\ Len(line.ops) \in Nat
  BY ProgramShape DEF TypeOK, ControlOK
<1>3. CASE at = 1 /\ Returns(1) /\ 1 <= Len(line.ops) /\ line.ops[1] = "&"
  BY <1>2, <1>3, NoForeground
<1>4. CASE at = 1 /\ pc' \in {"collect", "listwait"}
  BY <1>1, <1>4 DEF ForegroundInv, OneForeground, Waiting
<1>5. CASE at > 1 /\ pc' = "reap" /\ at' = at
  BY <1>1, <1>5 DEF ForegroundInv, OneForeground, Waiting
<1> QED
  BY <1>3, <1>4, <1>5 DEF EndPipeline, Returns

\* The shell never runs two processes it must wait for, and it starts no
\* command and shows no prompt while one of them runs.
THEOREM ForegroundSafety == Spec => []OneForeground
<1>1. Init => ForegroundInv
  BY DEF Init, ForegroundInv, OneForeground
<1>2. TypeOK /\ ForegroundInv /\ [Next]_vars => ForegroundInv'
  <2> SUFFICES ASSUME TypeOK, ForegroundInv, [Next]_vars
               PROVE  ForegroundInv'
    OBVIOUS
  <2>c. ASSUME pc \in {"prompt", "cmd", "exited"}
        PROVE  \A p \in Pids : proc[p] = "running" => ~kid[p].fg
    BY <2>c DEF ForegroundInv, OneForeground, Waiting
  <2>f. ASSUME NEW q \in Pids, Fork(q)
        PROVE  /\ line' = line /\ pc = "cmd"
               /\ \A p \in Pids : proc'[p] = "running" /\ kid'[p].fg
                                    => p = q /\ Foreground
    <3>1. kid'[q].fg = Foreground
      BY <2>f DEF Fork, TypeOK
    <3>2. \A p \in Pids : p # q => proc'[p] = proc[p] /\ kid'[p] = kid[p]
      BY <2>f DEF Fork, TypeOK
    <3> QED
      BY <2>f, <2>c, <3>1, <3>2 DEF Fork
  <2>l. ASSUME Leave
        PROVE  ForegroundInv'
    BY <2>l, NoForeground DEF Leave
  <2>1. ASSUME NEW prog \in Programs, ReadLine(prog)
        PROVE  ForegroundInv'
    BY <2>1, <2>c, NoForeground DEF ReadLine, children
  <2>2. CASE LineRefused
    BY <2>2, <2>l DEF LineRefused
  <2>3. ASSUME NEW q \in Pids, ForkStage(q)
        PROVE  ForegroundInv'
    BY <2>3, <2>f, NoForeground DEF ForkStage, Foreground
  <2>4. ASSUME NEW q \in Pids, ForkLast(q)
        PROVE  ForegroundInv'
    BY <2>4, <2>f, EndPipelineForeground DEF ForkLast, Foreground
  <2>5. CASE CommandFails \/ PipeFails \/ RunBuiltin
    <3>1. PICK q \in {0, -1} : EndPipeline(q)
      BY <2>5 DEF CommandFails, PipeFails, RunBuiltin
    <3>2. pc = "cmd" /\ line' = line /\ UNCHANGED children
      BY <2>5 DEF CommandFails, PipeFails, RunBuiltin
    <3> QED
      BY <2>c, <3>1, <3>2, EndPipelineForeground DEF children
  <2>6. CASE ExitShell
    BY <2>6, <2>l DEF ExitShell
  <2>7. ASSUME NEW q \in Pids, WaitReaps(q)
        PROVE  ForegroundInv'
    <3>1. \A p \in Pids : proc'[p] = "running" => ~kid'[p].fg
      <4>1. SUFFICES ASSUME NEW p \in Pids, proc'[p] = "running", kid'[p].fg
                     PROVE  FALSE
        OBVIOUS
      <4>2. proc[p] = "running" /\ kid[p].fg /\ p # q
        BY <2>7, <4>1, ReapRunning DEF WaitReaps
      <4>3. p = pid /\ pid > 0
        BY <4>2, PidsAssumption DEF ForegroundInv, OneForeground
      <4>4. q = pid
        BY <2>7, <4>3 DEF WaitReaps, Awaited
      <4> QED
        BY <4>2, <4>3, <4>4
    <3> QED
      BY <3>1, NoForeground
  <2>8. CASE WaitFails
    <3>1. \A p \in Pids : proc[p] = "running" => ~kid[p].fg
      BY <2>8, PidsAssumption
         DEF WaitFails, ForegroundInv, OneForeground, Awaited, Free
    <3> QED
      BY <2>8, <3>1, NoForeground DEF WaitFails, children
  <2>9. ASSUME NEW q \in Pids, ReapOne(q)
        PROVE  ForegroundInv'
    <3>1. UNCHANGED <<pc, pid, line, at>> /\ Reap(q)
      BY <2>9 DEF ReapOne, control
    <3>2. \A p \in Pids : proc'[p] = "running"
                              => proc[p] = "running" /\ kid'[p].fg = kid[p].fg
      BY <3>1, ReapRunning
    <3> QED
      BY <3>1, <3>2, ForegroundKept
  <2>10. CASE ReapDone
    <3>1. line' = line /\ pid' = pid /\ UNCHANGED children
      BY <2>10 DEF ReapDone
    <3>2. CASE \A p \in Pids : proc[p] = "running" => ~kid[p].fg
      BY <3>1, <3>2, NoForeground DEF children
    <3>3. CASE \E p \in Pids : proc[p] = "running" /\ kid[p].fg
      <4>1. at > Len(line.ops) \/ line.ops[at] # "&"
        BY <2>10, <3>3 DEF ReapDone, ForegroundInv
      <4>2. at \in 2..Len(line.ops) + 1 /\ Len(line.ops) \in Nat
        BY <2>10, ProgramShape DEF ReapDone, TypeOK, ControlOK, Waiting
      <4>3. pc' \in {"collect", "listwait"}
        BY <2>10, <4>1, <4>2 DEF ReapDone, Returns
      <4> QED
        BY <3>1, <4>3 DEF ForegroundInv, OneForeground, Waiting, children
    <3> QED
      BY <3>2, <3>3
  <2>11. CASE Collect
    <3>1. pid \in Pids /\ Reap(pid)
      BY <2>11 DEF Collect, TypeOK
    <3>2. \A p \in Pids : proc'[p] = "running" => ~kid'[p].fg
      BY <3>1, ReapRunning DEF ForegroundInv, OneForeground
    <3> QED
      BY <3>2, NoForeground
  <2>12. CASE CollectNothing
    <3>1. \A p \in Pids : proc[p] = "running" => ~kid[p].fg
      BY <2>12, PidsAssumption
         DEF CollectNothing, ForegroundInv, OneForeground, Free
    <3> QED
      BY <2>12, <3>1, NoForeground DEF CollectNothing, children
  <2>13. CASE DeliverSignal \/ HandlerReturn
    BY <2>13, ForegroundKept DEF DeliverSignal, HandlerReturn, control, children
  <2>14. ASSUME NEW q \in Pids, HandlerReap(q)
         PROVE  ForegroundInv'
    <3>1. UNCHANGED <<pc, pid, line, at>> /\ Reap(q)
      BY <2>14 DEF HandlerReap, control
    <3>2. \A p \in Pids : proc'[p] = "running"
                              => proc[p] = "running" /\ kid'[p].fg = kid[p].fg
      BY <3>1, ReapRunning
    <3> QED
      BY <3>1, <3>2, ForegroundKept
  <2>15. ASSUME NEW q \in Pids, ChildRestores(q)
         PROVE  ForegroundInv'
    <3>1. \A p \in Pids : kid'[p].fg = kid[p].fg
      BY <2>15 DEF ChildRestores, TypeOK, Kid
    <3> QED
      BY <2>15, <3>1, ForegroundKept DEF ChildRestores, control
  <2>16. ASSUME NEW q \in Pids, ChildExit(q)
         PROVE  ForegroundInv'
    <3>1. \A p \in Pids : proc'[p] = "running"
                            => proc[p] = "running" /\ kid'[p] = kid[p]
      BY <2>16 DEF ChildExit, TypeOK
    <3> QED
      BY <2>16, <3>1, ForegroundKept DEF ChildExit, control
  <2>17. CASE UNCHANGED vars
    BY <2>17, ForegroundKept DEF vars, control, children
  <2> QED
    BY <2>1, <2>2, <2>3, <2>4, <2>5, <2>6, <2>7, <2>8, <2>9, <2>10, <2>11,
       <2>12, <2>13, <2>14, <2>15, <2>16, <2>17 DEF Next, Execute, Handle, Exited
<1>3. ForegroundInv => OneForeground
  BY DEF ForegroundInv
<1> QED
  BY <1>1, <1>2, <1>3, TypeCorrect, PTL DEF Spec

-----------------------------------------------------------------------------
(* The terminal.                                                           *)

\* A child that will run ldisc_deinit holds a copy of the saved mode.
TerminalInv ==
    /\ TerminalRestored
    /\ \A p \in Pids : kid[p].termios # "raw"

\* The saved mode is never the raw mode the shell itself sets, so a line is
\* executed in the terminal's own mode and the shell leaves it behind.
THEOREM TerminalSafety == Spec => []TerminalRestored
<1>1. Init => TerminalInv
  BY DEF Init, TerminalInv, TerminalRestored, NoKid
<1>2. TypeOK /\ TerminalInv /\ [Next]_vars => TerminalInv'
  <2> SUFFICES ASSUME TypeOK, TerminalInv, [Next]_vars
               PROVE  TerminalInv'
    OBVIOUS
  <2> USE DEF TerminalInv, TerminalRestored
  <2>f. ASSUME NEW q \in Pids, Fork(q)
        PROVE  TerminalInv'
    <3>1. ChildTermios # "raw"
      BY DEF ChildTermios
    <3>2. \A p \in Pids : kid'[p].termios # "raw"
      BY <2>f, <3>1 DEF Fork, TypeOK
    <3> QED
      BY <2>f, <3>2 DEF Fork, terminal
  <2>r. ASSUME NEW q \in Pids, Reap(q)
        PROVE  \A p \in Pids : kid'[p].termios # "raw"
    BY <2>r DEF Reap, TypeOK, NoKid
  <2>l. ASSUME Leave
        PROVE  TerminalInv'
    BY <2>l DEF Leave, NoKid
  <2>1. ASSUME NEW prog \in Programs, ReadLine(prog)
        PROVE  TerminalInv'
    BY <2>1 DEF ReadLine, children
  <2>2. CASE LineRefused \/ ExitShell
    BY <2>2, <2>l DEF LineRefused, ExitShell
  <2>3. ASSUME NEW q \in Pids, ForkStage(q) \/ ForkLast(q)
        PROVE  TerminalInv'
    BY <2>3, <2>f DEF ForkStage, ForkLast
  <2>4. CASE CommandFails \/ PipeFails \/ RunBuiltin
    BY <2>4 DEF CommandFails, PipeFails, RunBuiltin, terminal, children
  <2>5. ASSUME NEW q \in Pids, WaitReaps(q) \/ ReapOne(q) \/ HandlerReap(q)
        PROVE  TerminalInv'
    <3>1. \A p \in Pids : kid'[p].termios # "raw"
      BY <2>5, <2>r DEF WaitReaps, ReapOne, HandlerReap
    <3> QED
      BY <2>5, <3>1 DEF WaitReaps, ReapOne, HandlerReap, terminal, control
  <2>6. CASE WaitFails \/ ReapDone
    BY <2>6 DEF WaitFails, ReapDone, terminal, children
  <2>7. CASE Collect
    <3>1. pid \in Pids
      BY <2>7 DEF Collect, TypeOK
    <3>2. \A p \in Pids : kid'[p].termios # "raw"
      BY <2>7, <2>r, <3>1 DEF Collect
    <3> QED
      BY <2>7, <3>2 DEF Collect, Finish
  <2>8. CASE CollectNothing
    BY <2>8 DEF CollectNothing, Finish, children
  <2>9. CASE DeliverSignal \/ HandlerReturn
    BY <2>9 DEF DeliverSignal, HandlerReturn, control, terminal, children
  <2>10. ASSUME NEW q \in Pids, ChildRestores(q)
         PROVE  TerminalInv'
    <3>1. tty' = "cooked"
      BY <2>10 DEF ChildRestores, TypeOK, Kid, Modes
    <3>2. \A p \in Pids : kid'[p].termios # "raw"
      BY <2>10 DEF ChildRestores, TypeOK, Kid
    <3> QED
      BY <2>10, <3>1, <3>2 DEF ChildRestores
  <2>11. ASSUME NEW q \in Pids, ChildExit(q)
         PROVE  TerminalInv'
    <3>1. \A p \in Pids : kid'[p].termios # "raw"
      BY <2>11 DEF ChildExit, TypeOK, Kid, NoKid
    <3> QED
      BY <2>11, <3>1 DEF ChildExit, control, terminal
  <2>12. CASE UNCHANGED vars
    BY <2>12 DEF vars, control, terminal, children
  <2> QED
    BY <2>1, <2>2, <2>3, <2>4, <2>5, <2>6, <2>7, <2>8, <2>9, <2>10, <2>11,
       <2>12 DEF Next, Execute, Handle, Exited
<1>3. TerminalInv => TerminalRestored
  BY DEF TerminalInv
<1> QED
  BY <1>1, <1>2, <1>3, TypeCorrect, PTL DEF Spec

-----------------------------------------------------------------------------
(* The status at the prompt.                                               *)

\* While the shell waits, the status a zombie holds is the one it ended with.
OutcomeLinked ==
    pc \in Waiting /\ pid \in Pids /\ proc[pid] = "zombie"
      => outcome = code[pid]

LEMMA OutcomeKept == Spec => []OutcomeLinked
<1>1. Init => OutcomeLinked
  BY DEF Init, OutcomeLinked, Waiting
<1>2. TypeOK /\ OutcomeLinked /\ [Next]_vars => OutcomeLinked'
  <2> SUFFICES ASSUME TypeOK, OutcomeLinked, [Next]_vars
               PROVE  OutcomeLinked'
    OBVIOUS
  <2> USE DEF OutcomeLinked
  <2>r. ASSUME NEW q \in Pids, Reap(q), pid' = pid, outcome' = outcome,
               pc \in Waiting \/ pc' \notin Waiting
        PROVE  OutcomeLinked'
    BY <2>r DEF Reap, TypeOK
  <2>u. ASSUME UNCHANGED <<children, pid, outcome>>,
               pc \in Waiting \/ pc' \notin Waiting
        PROVE  OutcomeLinked'
    BY <2>u DEF children
  <2>n. ASSUME pid' \notin Pids \/ pc' \notin Waiting
        PROVE  OutcomeLinked'
    BY <2>n
  <2>1. ASSUME NEW prog \in Programs, ReadLine(prog)
        PROVE  OutcomeLinked'
    BY <2>1, <2>n DEF ReadLine, Waiting
  <2>2. CASE LineRefused \/ ExitShell
    BY <2>2, <2>n DEF LineRefused, ExitShell, Leave, Waiting
  <2>3. ASSUME NEW q \in Pids, ForkStage(q)
        PROVE  OutcomeLinked'
    BY <2>3, <2>n DEF ForkStage, Fork, Waiting
  <2>4. ASSUME NEW q \in Pids, ForkLast(q)
        PROVE  OutcomeLinked'
    BY <2>4 DEF ForkLast, Fork, EndPipeline, TypeOK
  <2>5. CASE CommandFails \/ PipeFails \/ RunBuiltin
    <3>1. pid' \in {0, -1}
      BY <2>5 DEF CommandFails, PipeFails, RunBuiltin, EndPipeline
    <3> QED
      BY <3>1, <2>n, PidsAssumption
  <2>6. ASSUME NEW q \in Pids, WaitReaps(q) \/ ReapOne(q) \/ HandlerReap(q)
        PROVE  OutcomeLinked'
    BY <2>6, <2>r DEF WaitReaps, ReapOne, HandlerReap, control, Waiting
  <2>7. CASE WaitFails \/ ReapDone
    BY <2>7, <2>u DEF WaitFails, ReapDone, Waiting
  <2>8. CASE Collect \/ CollectNothing
    BY <2>8, <2>n DEF Collect, CollectNothing, Finish, Waiting
  <2>9. CASE DeliverSignal \/ HandlerReturn
    BY <2>9, <2>u DEF DeliverSignal, HandlerReturn, control
  <2>10. ASSUME NEW q \in Pids, ChildRestores(q)
         PROVE  OutcomeLinked'
    BY <2>10 DEF ChildRestores, control
  <2>11. ASSUME NEW q \in Pids, ChildExit(q)
         PROVE  OutcomeLinked'
    BY <2>11 DEF ChildExit, control, TypeOK
  <2>12. CASE UNCHANGED vars
    BY <2>12, <2>u DEF vars, control
  <2> QED
    BY <2>1, <2>2, <2>3, <2>4, <2>5, <2>6, <2>7, <2>8, <2>9, <2>10, <2>11,
       <2>12 DEF Next, Execute, Handle, Exited
<1> QED
  BY <1>1, <1>2, TypeCorrect, PTL DEF Spec

\* main clears the flag before the prompt.
FlagClear == pc = "prompt" => ~builtin_executed

LEMMA FlagKept == Spec => []FlagClear
<1>1. Init => FlagClear
  BY DEF Init, FlagClear
<1>2. FlagClear /\ [Next]_vars => FlagClear'
  <2> SUFFICES ASSUME FlagClear, [Next]_vars
               PROVE  FlagClear'
    OBVIOUS
  <2> USE DEF FlagClear
  <2>s. ASSUME pc' = pc, builtin_executed' = builtin_executed
        PROVE  FlagClear'
    BY <2>s
  <2>1. ASSUME NEW prog \in Programs, ReadLine(prog)
        PROVE  FlagClear'
    BY <2>1 DEF ReadLine
  <2>2. CASE LineRefused \/ ExitShell
    BY <2>2 DEF LineRefused, ExitShell, Leave
  <2>3. ASSUME NEW q \in Pids, ForkStage(q)
        PROVE  FlagClear'
    BY <2>3 DEF ForkStage, Fork
  <2>4. ASSUME NEW q \in Pids, ForkLast(q)
        PROVE  FlagClear'
    BY <2>4 DEF ForkLast, EndPipeline, Returns, Right
  <2>5. CASE CommandFails \/ PipeFails \/ RunBuiltin
    BY <2>5 DEF CommandFails, PipeFails, RunBuiltin, EndPipeline, Returns, Right
  <2>6. ASSUME NEW q \in Pids, WaitReaps(q)
        PROVE  FlagClear'
    BY <2>6 DEF WaitReaps, Decide, Returns, Right
  <2>7. CASE WaitFails \/ ReapDone
    BY <2>7 DEF WaitFails, ReapDone, Decide, Returns, Right
  <2>8. CASE Collect \/ CollectNothing
    BY <2>8 DEF Collect, CollectNothing, Finish
  <2>9. ASSUME NEW q \in Pids, ReapOne(q) \/ HandlerReap(q)
        PROVE  FlagClear'
    BY <2>9, <2>s DEF ReapOne, HandlerReap, control, status
  <2>10. CASE DeliverSignal \/ HandlerReturn
    BY <2>10, <2>s DEF DeliverSignal, HandlerReturn, control, status
  <2>11. ASSUME NEW q \in Pids, ChildRestores(q) \/ ChildExit(q)
         PROVE  FlagClear'
    BY <2>11, <2>s DEF ChildRestores, ChildExit, control, status
  <2>12. CASE UNCHANGED vars
    BY <2>12, <2>s DEF vars, control, status
  <2> QED
    BY <2>1, <2>2, <2>3, <2>4, <2>5, <2>6, <2>7, <2>8, <2>9, <2>10, <2>11,
       <2>12 DEF Next, Execute, Handle, Exited
<1> QED
  BY <1>1, <1>2, PTL DEF Spec

\* A line on which no builtin has succeeded in the shell ends with a green prompt
\* only if its last process exited with 0, and the flag never outlives its line.
THEOREM GreenSafety == Spec => GreenWithoutBuiltin
<1>1. TypeOK /\ OutcomeLinked /\ FlagClear /\ [Next]_vars
        => [/\ pc = "collect" /\ pc' = "prompt" /\ ~builtin_executed /\ last_status' = 0
                 => outcome = 0
            /\ pc = "prompt" /\ pc' = "cmd" => ~builtin_executed]_vars
  <2> SUFFICES ASSUME TypeOK, OutcomeLinked, Next, pc = "collect", pc' = "prompt",
                      last_status' = 0, ~builtin_executed
               PROVE  outcome = 0
    BY DEF FlagClear
  <2>1. Collect \/ CollectNothing
    BY DEF Next, Execute, Handle, Exited, ReadLine, LineRefused, ForkStage,
           ForkLast, Fork, CommandFails, PipeFails, RunBuiltin, ExitShell,
           WaitReaps, WaitFails, ReapOne, ReapDone, DeliverSignal, HandlerReap,
           HandlerReturn, ChildRestores, ChildExit, control, vars
  <2>2. CASE Collect
    <3>1. code[pid] = 0
      BY <2>2 DEF Collect, Finish
    <3>2. pid \in Pids /\ proc[pid] = "zombie"
      BY <2>2 DEF Collect, Reap, TypeOK
    <3> QED
      BY <3>1, <3>2 DEF OutcomeLinked, Waiting
  <2>3. CASE CollectNothing
    BY <2>3 DEF CollectNothing, Finish
  <2> QED
    BY <2>1, <2>2, <2>3
<1> QED
  BY <1>1, TypeCorrect, OutcomeKept, FlagKept, PTL DEF Spec, GreenWithoutBuiltin

\* While the process awaited has not been taken by the handler, its own end decides
\* whether the right side of an operator runs.
THEOREM OperatorSafety == Spec => OperatorsObeyed
<1>1. ASSUME TypeOK, OutcomeLinked, Next, pc = "listwait", at' # at,
             line.ops[at] # ";", pid \in Pids, proc[pid] # "free"
      PROVE  (pc' \in {"cmd", "reap"} /\ at' = at + 1)
               <=> IF line.ops[at] = "&&" THEN outcome = 0 ELSE outcome # 0
  <2>1. Awaited = {pid}
    <3>1. pid > 0
      BY ONLY PidsAssumption, pid \in Pids
    <3> QED
      BY <3>1, <1>1 DEF Awaited, Free
  <2>2. WaitReaps(pid)
    BY <1>1, <2>1
    DEF Next, Execute, Handle, Exited, ReadLine, LineRefused, ForkStage,
        ForkLast, Fork, CommandFails, PipeFails, RunBuiltin, ExitShell,
        WaitReaps, WaitFails, ReapOne, ReapDone, Collect, CollectNothing,
        DeliverSignal, HandlerReap, HandlerReturn, ChildRestores, ChildExit,
        control, vars
  <2>3. outcome = code[pid]
    BY <1>1, <2>2 DEF WaitReaps, Reap, OutcomeLinked, Waiting
  <2>4. Decide(outcome = 0)
    BY <2>2, <2>3 DEF WaitReaps
  <2>5. at \in 1..Len(line.ops) /\ line.ops \in Seq(Ops) /\ line.ops[at] # "&"
    BY <1>1, ProgramsAssumption DEF TypeOK, ControlOK, Waiting
  <2>6. line.ops[at] \in Ops /\ at + 1 + 1 # at + 1
    BY ONLY <2>5
  <2>7. line.ops[at] \in {"&&", "||"}
    BY <1>1, <2>5, <2>6 DEF Ops
  <2>8. CASE IF line.ops[at] = "&&" THEN outcome = 0 ELSE outcome # 0
    <3>1. Right(at)
      BY <2>4, <2>7, <2>8 DEF Decide
    <3>2. pc' \in {"cmd", "reap"} /\ at' = at + 1
      BY <3>1 DEF Right
    <3> QED
      BY <3>2, <2>8
  <2>9. CASE ~(IF line.ops[at] = "&&" THEN outcome = 0 ELSE outcome # 0)
    <3>1. Returns(at + 1)
      BY <2>4, <2>7, <2>9 DEF Decide
    <3>2. pc' \in {"cmd", "reap"} => at' = at + 1 + 1
      BY <3>1, Zenon DEF Returns, Right
    <3> QED
      BY <3>2, <2>6, <2>9
  <2> QED
    BY <2>8, <2>9
<1>2. TypeOK /\ OutcomeLinked /\ [Next]_vars
        => [pc = "listwait" /\ at' # at /\ line.ops[at] # ";"
              /\ pid \in Pids /\ proc[pid] # "free"
              => (pc' \in {"cmd", "reap"} /\ at' = at + 1)
                   <=> IF line.ops[at] = "&&" THEN outcome = 0 ELSE outcome # 0]_vars
  BY <1>1, Zenon
<1> QED
  BY <1>2, TypeCorrect, OutcomeKept, PTL DEF Spec, OperatorsObeyed

-----------------------------------------------------------------------------
(* The raw mode at the prompt.                                               *)

\* Only a child that runs "exit" on the terminal has a mode to write.
ModeOfExit ==
    \A p \in Pids : kid[p].termios # "none"
                      => kid[p].kind = "exit" /\ kid[p].redir # "in"

LEMMA ModeKept == Spec => []ModeOfExit
<1>1. Init => ModeOfExit
  BY DEF Init, ModeOfExit, NoKid
<1>2. TypeOK /\ ModeOfExit /\ [Next]_vars => ModeOfExit'
  <2> SUFFICES ASSUME TypeOK, ModeOfExit, [Next]_vars
               PROVE  ModeOfExit'
    OBVIOUS
  <2> USE DEF ModeOfExit
  <2>1. ASSUME UNCHANGED kid
        PROVE  ModeOfExit'
    BY <2>1
  <2>2. ASSUME NEW q \in Pids, Reap(q)
        PROVE  ModeOfExit'
    BY <2>2 DEF Reap, TypeOK, NoKid
  <2>3. ASSUME NEW q \in Pids, Fork(q)
        PROVE  ModeOfExit'
    <3>1. ChildTermios # "none" => Current.kind = "exit" /\ Current.redir # "in"
      BY DEF ChildTermios
    <3> QED
      BY <2>3, <3>1 DEF Fork, TypeOK
  <2>4. ASSUME Leave
        PROVE  ModeOfExit'
    BY <2>4 DEF Leave, NoKid
  <2>5. ASSUME NEW q \in Pids, ForkStage(q) \/ ForkLast(q)
        PROVE  ModeOfExit'
    BY <2>3, <2>5 DEF ForkStage, ForkLast
  <2>6. CASE LineRefused \/ ExitShell
    BY <2>4, <2>6 DEF LineRefused, ExitShell
  <2>7. ASSUME NEW q \in Pids, WaitReaps(q) \/ ReapOne(q) \/ HandlerReap(q)
        PROVE  ModeOfExit'
    BY <2>2, <2>7 DEF WaitReaps, ReapOne, HandlerReap
  <2>8. CASE Collect
    <3>1. pid \in Pids /\ Reap(pid)
      BY <2>8 DEF Collect, TypeOK
    <3> QED
      BY <2>2, <3>1
  <2>9. ASSUME NEW q \in Pids, ChildRestores(q)
        PROVE  ModeOfExit'
    BY <2>9 DEF ChildRestores, TypeOK, Kid
  <2>10. CASE \/ CommandFails \/ PipeFails \/ RunBuiltin \/ WaitFails \/ ReapDone
              \/ CollectNothing \/ DeliverSignal \/ HandlerReturn \/ UNCHANGED vars
    BY <2>1, <2>10 DEF CommandFails, PipeFails, RunBuiltin, WaitFails, ReapDone,
       CollectNothing, DeliverSignal, HandlerReturn, vars, children
  <2>11. ASSUME NEW q \in Pids, ChildExit(q)
         PROVE  ModeOfExit'
    <3>1. \A p \in Pids : p # q => kid'[p] = kid[p]
      BY <2>11 DEF ChildExit, TypeOK
    <3>2. kid'[q].termios = "none"
      BY <2>11 DEF ChildExit, TypeOK, NoKid
    <3> QED
      BY <3>1, <3>2
  <2>12. ASSUME NEW prog \in Programs, ReadLine(prog)
         PROVE  ModeOfExit'
    BY <2>1, <2>12 DEF ReadLine, children
  <2> QED
    BY <2>5, <2>6, <2>7, <2>8, <2>9, <2>10, <2>11, <2>12
       DEF Next, Execute, Handle, Exited
<1> QED
  BY <1>1, <1>2, TypeCorrect, PTL DEF Spec

\* While the shell edits a line, only a process that nobody waits for can take the
\* raw mode of main.c:150 away: one that must be waited for is not there any more.
THEOREM PromptSafety == Spec => PromptStaysRaw
<1>1. TypeOK /\ OneForeground /\ ModeOfExit /\ [Next]_vars
        => [pc = "prompt" /\ pc' = "prompt" /\ tty' # tty
              => \E p \in Pids : /\ proc[p] = "running" /\ ~kid[p].fg
                                /\ kid[p].kind = "exit" /\ kid[p].redir # "in"]_vars
  <2> SUFFICES ASSUME TypeOK, OneForeground, ModeOfExit, Next,
                      pc = "prompt", pc' = "prompt", tty' # tty
               PROVE  \E p \in Pids : /\ proc[p] = "running" /\ ~kid[p].fg
                                     /\ kid[p].kind = "exit" /\ kid[p].redir # "in"
    OBVIOUS
  <2>1. PICK q \in Pids : ChildRestores(q)
    BY DEF Next, Execute, Handle, Exited, ReadLine, LineRefused, Leave, ForkStage,
           ForkLast, Fork, CommandFails, PipeFails, RunBuiltin, ExitShell,
           WaitReaps, WaitFails, ReapOne, ReapDone, Collect, CollectNothing,
           DeliverSignal, HandlerReap, HandlerReturn, ChildExit, terminal, vars
  <2>2. proc[q] = "running" /\ kid[q].termios # "none"
    BY <2>1 DEF ChildRestores
  <2>3. kid[q].kind = "exit" /\ kid[q].redir # "in"
    BY <2>2 DEF ModeOfExit
  <2>4. ~kid[q].fg
    BY <2>2 DEF OneForeground, Waiting
  <2> QED
    BY <2>2, <2>3, <2>4
<1> QED
  BY <1>1, TypeCorrect, ForegroundSafety, ModeKept, PTL DEF Spec, PromptStaysRaw

=============================================================================
