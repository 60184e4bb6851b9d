------------------------------ MODULE ShellHeap ------------------------------
(***************************************************************************)
(* The heap as the shell uses it: the calls of my_malloc and my_free that  *)
(* main makes at its start (map.c, symtab.c, lexer.c) and for each line    *)
(* (history.c, lexer.c, parser.c), in the order of the code.  A name       *)
(* stands for the variable or field that holds the pointer; what a pointer *)
(* that is overwritten led to is lost.  my_malloc is taken to succeed.     *)
(* The shell is one thread, and its signal handler does not touch the      *)
(* heap.                                                                   *)
(***************************************************************************)
EXTENDS Heap, Primes, SequencesExt

CONSTANTS
    Envs,       \* what envp may hold: its variables that start with PATH
    Lines,      \* the lines the user may enter
    MaxLines,   \* how many of them are executed
    HistorySize \* MAX_HISTORY, the places of history's ring

\* A directory of PATH: whether it can be opened and read, and how many
\* executables it adds to the table.  A variable: its length, and the
\* directories before the first empty one.
Directory == [opens: BOOLEAN, reads: BOOLEAN, names: Nat]
Variable == [len: Nat, dirs: Seq(Directory)]

\* A line: its length, its pipelines of commands (the lengths of their words and
\* of the files they redirect to), and whether it ends in an operator.
Line == [len: 1..511, list: Seq(Seq([words: Seq(Nat), redirs: Seq(Nat)])),
         trail: BOOLEAN]
NoLine == [len |-> 0, list |-> <<>>, trail |-> FALSE]

ASSUME ShellHeapAssumption ==
    /\ Envs \subseteq Seq(Variable)
    /\ Lines \subseteq Line
    /\ \A l \in Lines : Len(l.list) > 0
    /\ MaxLines \in Nat
    /\ HistorySize \in Nat \ {0}

\* The sizes of the structures, in bytes, for a 64-bit machine.
HashSize == 40
PairSize == 1028
PointerSize == 8
TokenSize == 16
AstSize == 32
RedirectionSize == 24

VARIABLES
    todo,       \* the calls that are left
    owned,      \* the block and the size behind every pointer the shell holds
    lost,       \* those behind the copies of lines that history has overwritten
    stage,      \* how far main is: "variables", "directories", "builtins", "lines"
    env,        \* the variables of envp that start with PATH
    var, dir,   \* the variable, and the directory of it, that come next
    names,      \* how many names have been put in the symbol table
    next_num,   \* history's number for the next line it keeps
    last,       \* the last line entered
    nlines      \* how many lines have been entered

start == <<stage, env, var, dir, names>>
vars == <<heap, todo, owned, lost, start, next_num, last, nlines>>

M(name, bytes) == [op |-> "malloc", name |-> name, bytes |-> bytes]
F(name) == [op |-> "free", name |-> name, bytes |-> 0]

-----------------------------------------------------------------------------
(* The start of main.                                                      *)

\* The size of the symbol table after v rehashes, and how many there have been
\* when k names have been put in it: one for every insertion that brings the
\* load factor over 0.7.
TableSize[v \in Nat] ==
    IF v = 0 THEN getPrime[10] ELSE getPrime[2 * TableSize[v - 1]]

Rehashes[k \in Nat] ==
    IF k = 0 THEN 0
    ELSE LET v == Rehashes[k - 1]
         IN  IF 10 * k > 7 * TableSize[v] THEN v + 1 ELSE v

rehash(v) ==
    << M(<<"hash", v + 1>>, HashSize),
       M(<<"table", v + 1>>, TableSize[v + 1] * PointerSize),
       F(<<"table", v>>), F(<<"hash", v>>) >>

\* map_insert of the k-th name.
map_insert(k) ==
    << M(<<"pair", k>>, PairSize) >> \o
    (IF Rehashes[k] # Rehashes[k - 1] THEN rehash(Rehashes[k - 1]) ELSE <<>>)

\* Directory d, when the table has k names.  One that cannot be opened is given
\* up before its buffers are allocated, one that cannot be read after that.
load_dir_into_symtab(d, k) ==
    IF ~d.opens THEN <<>>
    ELSE << M(<<"dirents">>, 1024 * 1024), M(<<"full_path">>, 512) >> \o
         FlattenSeq([i \in 1..(IF d.reads THEN d.names ELSE 0) |-> map_insert(k + i)]) \o
         << F(<<"dirents">>), F(<<"full_path">>) >>

-----------------------------------------------------------------------------
(* One line.                                                               *)

\* The lexemes of a line, in its order.
Lexemes(l) ==
    FlattenSeq([j \in DOMAIN l.list |->
        FlattenSeq([k \in DOMAIN l.list[j] |->
            l.list[j][k].words \o l.list[j][k].redirs])])

tokenize(l) ==
    << M(<<"buf">>, 258) >> \o
    [w \in DOMAIN Lexemes(l) |-> M(<<"lexeme", w>>, Lexemes(l)[w] + 1)] \o
    << F(<<"buf">>) >>

free_tokens(l) == [w \in DOMAIN Lexemes(l) |-> F(<<"lexeme", w>>)]

\* argv and the commands of a pipeline start with 10 elements and double.
Elements[v \in Nat] == IF v = 0 THEN 10 ELSE 2 * Elements[v - 1]

\* How often, when n words or commands have been stored.
Grown[n \in Nat] ==
    IF n = 0 THEN 0
    ELSE LET v == Grown[n - 1]
         IN  IF n > Elements[v] THEN v + 1 ELSE v

get_words(j, k, n) ==
    << M(<<"argv", j, k, 0>>, (Elements[0] + 1) * PointerSize) >> \o
    FlattenSeq([v \in 1..Grown[n] |->
        << M(<<"argv", j, k, v>>, (Elements[v] + 1) * PointerSize),
           F(<<"argv", j, k, v - 1>>) >>])

parse_command(j, k, c) ==
    << M(<<"command", j, k>>, AstSize) >> \o
    get_words(j, k, Len(c.words)) \o
    [r \in DOMAIN c.redirs |-> M(<<"redir", j, k, r>>, RedirectionSize)]

resize_cmd_array(j, v) ==
    << M(<<"cmds", j, v>>, Elements[v] * PointerSize), F(<<"cmds", j, v - 1>>) >>

parse_pipeline(j, pl) ==
    << M(<<"pipeline", j>>, AstSize),
       M(<<"cmds", j, 0>>, Elements[0] * PointerSize) >> \o
    FlattenSeq([k \in DOMAIN pl |->
        (IF Grown[k] > Grown[k - 1] THEN resize_cmd_array(j, Grown[k])
                                             ELSE <<>>)
        \o parse_command(j, k, pl[k])])

\* Operator n becomes a list node, whose right side may be missing.
parse_list(l) ==
    parse_pipeline(1, l.list[1]) \o
    FlattenSeq([n \in 1..Len(l.list) - 1 |->
        << M(<<"list", n>>, AstSize) >> \o parse_pipeline(n + 1, l.list[n + 1])]) \o
    (IF l.trail THEN << M(<<"list", Len(l.list)>>, AstSize) >> ELSE <<>>)

free_command(j, k, c) ==
    << F(<<"argv", j, k, Grown[Len(c.words)]>>) >> \o
    Reverse([r \in DOMAIN c.redirs |-> F(<<"redir", j, k, r>>)]) \o
    << F(<<"command", j, k>>) >>

free_pipeline(j, pl) ==
    FlattenSeq([k \in DOMAIN pl |-> free_command(j, k, pl[k])]) \o
    << F(<<"cmds", j, Grown[Len(pl)]>>), F(<<"pipeline", j>>) >>

\* Mutant: the right side that a trailing operator lacks is freed as well.
free_astFreesMissing(l) ==
    free_pipeline(1, l.list[1]) \o
    FlattenSeq([n \in 1..Len(l.list) - 1 |->
        free_pipeline(n + 1, l.list[n + 1]) \o << F(<<"list", n>>) >>]) \o
    (IF l.trail THEN << F(<<"pipeline", Len(l.list) + 1>>),
                        F(<<"list", Len(l.list)>>) >> ELSE <<>>)

free_ast(l) ==
    free_pipeline(1, l.list[1]) \o
    FlattenSeq([n \in 1..Len(l.list) - 1 |->
        free_pipeline(n + 1, l.list[n + 1]) \o << F(<<"list", n>>) >>]) \o
    (IF l.trail THEN << F(<<"list", Len(l.list)>>) >> ELSE <<>>)

\* update_history keeps no second copy of a line that repeats the last one.  The
\* n-th line it keeps goes to the place after that of the one before: head is
\* counted up with next_num.
update_history(l, repeated, n) ==
    IF repeated THEN <<>>
    ELSE << M(<<"history", (n - 1) % HistorySize>>, l.len + 1) >>

\* The body of main's loop: tokenize, parse_list, and when the line has been
\* executed free_ast and free_tokens.
Work(l) == tokenize(l) \o parse_list(l) \o free_ast(l) \o free_tokens(l)

LineCalls(l, repeated, n) == update_history(l, repeated, n) \o Work(l)

-----------------------------------------------------------------------------

Init ==
    /\ HeapInit
    /\ todo = << M(<<"hash", 0>>, HashSize),
                M(<<"table", 0>>, TableSize[0] * PointerSize) >>
    /\ owned = << >> /\ lost = << >>
    /\ stage = "variables"
    /\ env \in Envs
    /\ var = 1 /\ dir = 1
    /\ names = 0
    /\ next_num = 1
    /\ last = NoLine
    /\ nlines = 0

\* A pointer that is overwritten leaves what it led to without one.
CallMalloc ==
    /\ todo # <<>> /\ Head(todo).op = "malloc"
    /\ todo' = Tail(todo)
    /\ \E a \in DOMAIN blk \cup {heap_end} :
          /\ Malloc(Head(todo).bytes, a)
          /\ owned' = Put(owned, Head(todo).name,
                          [at |-> a, bytes |-> Head(todo).bytes])
    /\ lost' = IF Head(todo).name \in DOMAIN owned
               THEN Put(lost, next_num - 1 - HistorySize, owned[Head(todo).name])
               ELSE lost
    /\ UNCHANGED <<start, next_num, last, nlines>>

CallFree ==
    /\ todo # <<>> /\ Head(todo).op = "free"
    /\ todo' = Tail(todo)
    /\ Free(owned[Head(todo).name].at)
    /\ owned' = Restrict(owned, DOMAIN owned \ {Head(todo).name})
    /\ UNCHANGED <<lost, start, next_num, last, nlines>>

\* What main does between two calls leaves the heap, and history, alone.
Computes(s) ==
    /\ todo = <<>> /\ stage = s
    /\ UNCHANGED <<heap, owned, lost, env>>

\* symtab_build_from_env copies the next variable, ...
NextVariable ==
    /\ Computes("variables") /\ var <= Len(env)
    /\ todo' = << M(<<"path">>, env[var].len + 2) >>
    /\ stage' = "directories" /\ dir' = 1
    /\ UNCHANGED <<var, names, next_num, last, nlines>>

\* ... loads its next directory, and returns, with the copy still allocated, when
\* that fails, ...
LoadDir ==
    /\ Computes("directories") /\ dir <= Len(env[var].dirs)
    /\ LET d == env[var].dirs[dir]
       IN  /\ todo' = load_dir_into_symtab(d, names)
           /\ IF d.opens /\ d.reads
              THEN names' = names + d.names /\ stage' = stage
              ELSE names' = names /\ stage' = "builtins"
    /\ dir' = dir + 1
    /\ UNCHANGED <<var, next_num, last, nlines>>

\* ... and frees the copy when the last directory has been loaded.
EndVariable ==
    /\ Computes("directories") /\ dir > Len(env[var].dirs)
    /\ todo' = << F(<<"path">>) >>
    /\ stage' = "variables" /\ var' = var + 1
    /\ UNCHANGED <<dir, names, next_num, last, nlines>>

\* main puts in the builtins, and lexer_init allocates the tokens.
Builtins ==
    /\ Computes("builtins") \/ (Computes("variables") /\ var > Len(env))
    /\ todo' = FlattenSeq([b \in 1..3 |-> map_insert(names + b)])
                  \o << M(<<"tokens">>, 512 * TokenSize) >>
    /\ names' = names + 3
    /\ stage' = "lines"
    /\ UNCHANGED <<var, dir, next_num, last, nlines>>

EnterLine(l) ==
    /\ Computes("lines")
    /\ nlines < MaxLines
    /\ nlines' = nlines + 1
    /\ last' = l
    /\ \E repeated \in IF l = last THEN BOOLEAN ELSE {FALSE} :
          /\ todo' = LineCalls(l, repeated, next_num)
          /\ next_num' = next_num + (IF repeated THEN 0 ELSE 1)
    /\ UNCHANGED <<stage, var, dir, names>>

Next ==
    \/ CallMalloc \/ CallFree
    \/ NextVariable \/ LoadDir \/ EndVariable \/ Builtins
    \/ \E l \in Lines : EnterLine(l)

Spec == Init /\ [][Next]_vars

-----------------------------------------------------------------------------
(* Properties.                                                             *)

TypeOK ==
    /\ heap_end \in Nat
    /\ heap_start \in DOMAIN blk
    /\ \A a \in DOMAIN blk :
          /\ a \in 0..heap_end - HeaderSize /\ a % MACHINE_ALIGNMENT = 0
          /\ blk[a].size \in 0..heap_end
          /\ blk[a].free \in BOOLEAN
          /\ blk[a].next \in DOMAIN blk \cup {NULL}
          /\ blk[a].prev = NULL \/ blk[a].prev \in 0..a - 1
    /\ \A name \in DOMAIN owned : owned[name].at \in DOMAIN blk

\* What my_malloc returns is the shell's alone until it is freed: no two objects
\* that have not been freed share a byte, headers included.
Apart(o, p) ==
    \/ o.at + HeaderSize + o.bytes <= p.at
    \/ p.at + HeaderSize + p.bytes <= o.at

NoOverlap ==
    /\ \A m, n \in DOMAIN owned : m # n => Apart(owned[m], owned[n])
    /\ \A m, n \in DOMAIN lost : m # n => Apart(lost[m], lost[n])
    /\ \A m \in DOMAIN owned, n \in DOMAIN lost : Apart(owned[m], lost[n])

\* The list covers the heap without a gap, although split_block leaves stale
\* prev pointers behind: every block that has not been freed is on the list and
\* in use, so that my_free never calls it invalid, and no other is in use.
HeapTiled ==
    /\ \A a \in Listed : IF blk[a].next = NULL THEN End(a) = heap_end
                                               ELSE End(a) = blk[a].next
    /\ {a \in Listed : ~blk[a].free} =
          {owned[n].at : n \in DOMAIN owned} \cup {lost[n].at : n \in DOMAIN lost}

\* symtab_build_from_env gives up: a directory cannot be opened or read.
GivesUp ==
    \E v \in DOMAIN env : \E d \in DOMAIN env[v].dirs :
        ~(env[v].dirs[d].opens /\ env[v].dirs[d].reads)

\* When a line has been executed its memory has been given back, all but the
\* copies in history's ring and, of each line that the ring had to overwrite, the
\* copy that history.c:66 does not free; of the start the tables are left, and
\* the copy of PATH if symtab.c:126 gave up, ...
HistoryLeft ==
    todo = <<>> /\ stage = "lines" =>
        /\ \A name \in DOMAIN owned :
              \/ name[1] \in {"hash", "table", "pair", "tokens"}
              \/ name = <<"path">> /\ GivesUp
              \/ \E i \in 0..HistorySize - 1 : i < next_num - 1 /\ name = <<"history", i>>
        /\ DOMAIN lost \subseteq 1..next_num - 1 - HistorySize

\* ... and no two free blocks are neighbours.
FreeMerged ==
    todo = <<>> =>
        \A a \in Listed : blk[a].free /\ blk[a].next # NULL => ~blk[blk[a].next].free

LineLeavesOnlyHistory == HistoryLeft /\ FreeMerged

\* The shell frees only what it holds, and once; and the one pointer that it
\* overwrites before what it leads to has been freed is that of the oldest line,
\* in a ring of history that is full.
CallsLegal ==
    todo # <<>> =>
        LET call == Head(todo)
        IN  IF call.op = "malloc"
            THEN /\ call.bytes \in Nat
                 /\ call.name \in DOMAIN owned =>
                       call.name[1] = "history" /\ next_num - 1 > HistorySize
            ELSE call.name \in DOMAIN owned

\* No block is freed while its prev leads to a free block it does not follow.
\* The stale prev pointers of split_block can break this (ShellHeapStartup.cfg);
\* it is what the theorems about the blocks assume.
FreeSound ==
    todo # <<>> /\ Head(todo).op = "free"
        => ~Astray(blk, owned[Head(todo).name].at)

=============================================================================
