---------------------------- MODULE SymbolTable ----------------------------
(***************************************************************************)
(* The symbol table (map.c) and how main fills it at its start: with the   *)
(* executables of the directories of PATH (symtab.c) and the builtins      *)
(* (main.c).  Looking a name up is the only use of it afterwards.          *)
(*                                                                         *)
(* Double hashing with open addressing; nothing is ever deleted.           *)
(*                                                                         *)
(* The allocator is taken to be sound: the entries and the slots share no  *)
(* byte with anything else.  my_free does not keep to that for every PATH  *)
(* (the run heap_startup of ShellHeap), so what is said here of the table  *)
(* is said of the starts on which it does.                                 *)
(***************************************************************************)
EXTENDS Machine, Primes, Sequences, FiniteSets

CONSTANTS
    Names,          \* names of files, and commands
    FNV1a,          \* their hash values
    Slots,          \* the slots that map_init is asked for
    Builtins,       \* the builtins in the order main inserts them
    Envs,           \* the environments the shell is started in
    Leftovers       \* which slots of memory that is used again are not zero

\* A component of PATH: what can be done with the directory, and the names that
\* getdents64 returns, with the ones access(X_OK) accepts.
Directory == [opens: BOOLEAN, reads: BOOLEAN,
              entries: Seq([name: Names, runnable: BOOLEAN])]
EMPTY == NULL       \* a component without characters

\* What the table holds.  A path is the place of its directory in the
\* environment: the variable and the component.
Path == Nat \X Nat
Value == [path: Path \cup {NULL}, builtin: BOOLEAN]
KeyValuePair == [cmd: Names, val: Value]
JUNK == [cmd |-> NULL]      \* not zero, and no pointer to an entry

ASSUME SymbolTableAssumption ==
    /\ FNV1a \in [Names -> Nat]
    /\ Slots \in Nat \ {0}
    /\ Builtins \in Seq(Names)
    /\ \A j, k \in DOMAIN Builtins : Builtins[j] = Builtins[k] => j = k
    /\ \A e \in Envs : e \in Seq(Seq(Directory \cup {EMPTY}))
    /\ Leftovers \subseteq SUBSET Nat
    /\ {} \in Leftovers
    /\ NULL \notin Nat \cup Names \cup Path \cup Value \cup KeyValuePair \cup {JUNK}

VARIABLES
    env,        \* the variables whose names begin with PATH
    building,   \* what the start of main is at
    var, dir, entry,    \* the variable, its component and the entry in it
    table,      \* the hash map
    fresh,      \* the map that rehash is filling
    moved,      \* how many slots of the old one it has treated, NULL when it is
                \* not running
    reused,     \* memory has been given back that a new map may be put in
    damaged     \* the memory for some map was not zero

tableVars == <<env, building, var, dir, entry, table, fresh, moved, reused, damaged>>

-----------------------------------------------------------------------------
(* map.c.                                                                  *)

\* The j-th slot to be tried: hash1 and hash2.
Probe(name, j, size) ==
    ((FNV1a[name] % size) + j * (1 + (FNV1a[name] % (size - 1)))) % size

Map(size) == [size |-> size, num |-> 0, slot |-> [i \in 0..size - 1 |-> NULL]]

\* The first slot of set S that is tried for name, NULL when none is.
First(name, size, S) ==
    LET tries == {j \in 0..size - 1 : Probe(name, j, size) \in S}
    IN  IF tries = {} THEN NULL
        ELSE Probe(name, CHOOSE j \in tries : \A k \in tries : j <= k, size)

Free(m) == {i \in DOMAIN m.slot : m.slot[i] = NULL}
Wild(m) == {i \in DOMAIN m.slot : m.slot[i] = JUNK}

\* Mutant: names are the same when their first letters are.
FirstLetter(m, name) ==
    {i \in DOMAIN m.slot \ (Free(m) \cup Wild(m)) : m.slot[i].cmd[1] = name[1]}

\* The slots where the comparison succeeds; to compare with JUNK is to follow a
\* wild pointer.
Matching(m, name) == {i \in DOMAIN m.slot \ Free(m) : m.slot[i].cmd = name}

\* Where probing for name ends.
Stop(m, name) == First(name, m.size, Free(m) \cup Wild(m) \cup Matching(m, name))

\* Mutant: the elements are not counted.
PutUncounted(m, i, e) == [m EXCEPT !.slot[i] = e]

Put(m, i, e) == [m EXCEPT !.slot[i] = e, !.num = @ + 1]

\* map_lookup, unless it ends at JUNK.
Lookup(m, name) ==
    LET i == Stop(m, name)
    IN  IF i \in Matching(m, name) THEN m.slot[i].val ELSE NULL

\* The load factor is above 0.7.
Crowded(m) == 10 * m.num > 7 * m.size

\* A new map, in memory that nothing has cleared.
RehashStarts(m) ==
    LET size == getPrime[2 * m.size]
    IN  \E dirty \in IF reused THEN Leftovers ELSE {{}} :
          /\ fresh' = [Map(size) EXCEPT
                         !.slot = [i \in DOMAIN @ |-> IF i \in dirty THEN JUNK
                                                                     ELSE NULL]]
          /\ moved' = 0
          /\ damaged' = (damaged \/ dirty \cap DOMAIN fresh'.slot # {})

NewEntry(name, path, builtin) ==
    [cmd |-> name, val |-> [path |-> path, builtin |-> builtin]]

InsertNew(i, name, path, builtin) ==
    LET m == Put(table, i, NewEntry(name, path, builtin))
    IN  /\ table' = m
        /\ IF Crowded(m) THEN RehashStarts(m) ELSE UNCHANGED <<fresh, moved, damaged>>

Overwrite(i, path, builtin) ==
    /\ table' = [table EXCEPT !.slot[i].val = [path |-> path, builtin |-> builtin]]
    /\ UNCHANGED <<fresh, moved, damaged>>

\* map_insert; next is where main is afterwards.  An entry that is there is
\* overwritten, and my_strncpy needs a path for that.
map_insert(name, path, builtin, next) ==
    LET i == Stop(table, name)
        crashes == i \in Wild(table) \/ (i \in Matching(table, name) /\ path = NULL)
    IN  /\ building' = IF crashes THEN "crashed" ELSE next
        /\ \/ (crashes \/ i = NULL) /\ UNCHANGED <<table, fresh, moved, damaged>>
           \/ i \in Free(table) /\ InsertNew(i, name, path, builtin)
           \/ ~crashes /\ i \in Matching(table, name) /\ Overwrite(i, path, builtin)

\* Mutant: an entry keeps its place although the new map is larger.
rehash_in_place(e) == IF moved \in Free(fresh) THEN moved ELSE NULL

\* Where rehash puts an entry: the pointers in the new map are not followed.
Placed(e) == First(e.cmd, fresh.size, Free(fresh))

\* rehash, one slot of the old map.
RehashSlot ==
    /\ moved # NULL /\ moved < table.size /\ building # "crashed"
    /\ moved' = moved + 1
    /\ LET e == table.slot[moved]
       IN  /\ building' = IF e = JUNK THEN "crashed" ELSE building
           /\ fresh' = IF e \in {NULL, JUNK} \/ Placed(e) = NULL THEN fresh
                       ELSE Put(fresh, Placed(e), e)
    /\ UNCHANGED <<env, var, dir, entry, table, reused, damaged>>

RehashDone ==
    /\ moved = table.size
    /\ table' = fresh
    /\ fresh' = NULL /\ moved' = NULL
    /\ UNCHANGED <<env, building, var, dir, entry, reused, damaged>>

-----------------------------------------------------------------------------
(* symtab.c and the start of main.                                         *)

TableInit ==
    /\ env \in Envs
    /\ building = "variables"
    /\ var = 1 /\ dir = 1 /\ entry = 1
    /\ table = Map(getPrime[Slots])
    /\ fresh = NULL /\ moved = NULL
    /\ reused = FALSE /\ damaged = FALSE

\* main goes on when map_insert, and with it rehash, has returned.
At(stage) == building = stage /\ moved = NULL

\* Components end at the last one or at an empty one: two NULs in a row.
MoreDirs == dir <= Len(env[var]) /\ env[var][dir] # EMPTY

\* The memory that directories took is free.
GivesBack == reused' = (reused \/ dir > 1)

\* split_path looks for colons before the copy has its terminators (symtab.c:118).
\* The first copy is followed by zeros.  A later one may lie in memory that has
\* been used and be followed by more, up to the header of the next block, whose
\* magic number has a NUL and no colon: of what is changed there nothing is read.
NextVariable ==
    /\ At("variables") /\ var <= Len(env) /\ ~MoreDirs
    /\ var' = var + 1 /\ dir' = 1
    /\ GivesBack
    /\ UNCHANGED <<env, building, entry, table, fresh, moved, damaged>>

OpenDir ==
    /\ At("variables") /\ var <= Len(env) /\ MoreDirs
    /\ env[var][dir].opens /\ env[var][dir].reads
    /\ building' = "entries" /\ entry' = 1
    /\ UNCHANGED <<env, var, dir, table, fresh, moved, reused, damaged>>

\* Mutant: the build goes on with the next directory.
SkipDir ==
    /\ At("variables") /\ var <= Len(env) /\ MoreDirs
    /\ ~(env[var][dir].opens /\ env[var][dir].reads)
    /\ dir' = dir + 1
    /\ UNCHANGED <<env, building, var, entry, table, fresh, moved, reused, damaged>>

\* symtab_build_from_env gives up; main does not look at its result.
DirFails ==
    /\ At("variables") /\ var <= Len(env) /\ MoreDirs
    /\ ~(env[var][dir].opens /\ env[var][dir].reads)
    /\ building' = "builtins" /\ entry' = 1
    /\ GivesBack
    /\ UNCHANGED <<env, var, dir, table, fresh, moved, damaged>>

Entries == env[var][dir].entries

\* Mutant: every file is loaded, whether or not it can be executed.
LoadUnchecked ==
    /\ At("entries") /\ entry <= Len(Entries)
    /\ entry' = entry + 1
    /\ map_insert(Entries[entry].name, <<var, dir>>, FALSE, building)
    /\ UNCHANGED <<env, var, dir, reused>>

LoadEntry ==
    /\ At("entries") /\ entry <= Len(Entries)
    /\ entry' = entry + 1
    /\ LET e == Entries[entry]
       IN  IF e.runnable THEN map_insert(e.name, <<var, dir>>, FALSE, building)
           ELSE UNCHANGED <<building, table, fresh, moved, damaged>>
    /\ UNCHANGED <<env, var, dir, reused>>

\* Mutant: the pointer into the path is not moved on.
CloseDirAgain ==
    /\ At("entries") /\ entry > Len(Entries)
    /\ building' = "variables"
    /\ UNCHANGED <<env, var, dir, entry, table, fresh, moved, reused, damaged>>

CloseDir ==
    /\ At("entries") /\ entry > Len(Entries)
    /\ building' = "variables" /\ dir' = dir + 1
    /\ UNCHANGED <<env, var, entry, table, fresh, moved, reused, damaged>>

BuildEnds ==
    /\ At("variables") /\ var > Len(env)
    /\ building' = "builtins" /\ entry' = 1
    /\ UNCHANGED <<env, var, dir, table, fresh, moved, reused, damaged>>

InsertBuiltin ==
    /\ At("builtins") /\ entry <= Len(Builtins)
    /\ entry' = entry + 1
    /\ map_insert(Builtins[entry], NULL, TRUE, building)
    /\ UNCHANGED <<env, var, dir, reused>>

TableReady ==
    /\ At("builtins") /\ entry > Len(Builtins)
    /\ building' = "ready"
    /\ UNCHANGED <<env, var, dir, entry, table, fresh, moved, reused, damaged>>

BuildTable ==
    \/ NextVariable \/ OpenDir \/ DirFails \/ LoadEntry \/ CloseDir
    \/ BuildEnds \/ InsertBuiltin \/ TableReady
    \/ RehashSlot \/ RehashDone

-----------------------------------------------------------------------------
(* Properties.                                                             *)

\* The directories that are loaded: those that are reached in a variable, and
\* before the first one that cannot be opened or read.
Reached == UNION {{<<v, d>> : d \in {k \in DOMAIN env[v] :
                                        \A m \in 1..k : env[v][m] # EMPTY}} :
                  v \in DOMAIN env}
DirAt(p) == env[p[1]][p[2]]
NotAfter(p, q) == p[1] < q[1] \/ (p[1] = q[1] /\ p[2] <= q[2])
Loaded == {p \in Reached : \A q \in Reached :
                               NotAfter(q, p) => DirAt(q).opens /\ DirAt(q).reads}

\* The loaded directories that have an executable of that name.
Having(name) ==
    {p \in Loaded : \E k \in DOMAIN DirAt(p).entries :
                        DirAt(p).entries[k] = [name |-> name, runnable |-> TRUE]}

IsBuiltin(name) == \E k \in DOMAIN Builtins : Builtins[k] = name

\* What a name stands for once the table is complete.
Meaning(name) ==
    IF IsBuiltin(name) THEN [path |-> NULL, builtin |-> TRUE]
    ELSE IF Having(name) = {} THEN NULL
    ELSE [path |-> CHOOSE p \in Having(name) : \A q \in Having(name) : NotAfter(q, p),
          builtin |-> FALSE]

Promise == INSTANCE NameTable
    WITH Values <- {}, Unbound <- NULL,
         bound <- [name \in Names |-> Lookup(table, name)]

\* The hash map implements the finite map NameTable: a step binds the name that
\* is inserted and disturbs no other one, whatever collides with it, or changes
\* nothing, a whole rehash included.  It need not when some map was put in
\* memory that is not zero, since rehash (map.c:119) does not clear it.
TableKept ==
    [][ \/ UNCHANGED table
        \/ damaged'
        \/ building = "entries" /\ entry <= Len(Entries)
           /\ Promise!Bind(Entries[entry].name,
                           [path |-> <<var, dir>>, builtin |-> FALSE])
        \/ building = "builtins" /\ entry <= Len(Builtins)
           /\ Promise!Bind(Builtins[entry], [path |-> NULL, builtin |-> TRUE])
        \/ UNCHANGED [name \in Names |-> Lookup(table, name)] ]_table

\* When the start is over, a name stands for the file of the last directory that
\* has it (not the first, as execvp would), among the directories before the
\* first that cannot be read (symtab.c:124) or is empty (symtab.c:123).
LastDirectoryWins ==
    [][building' = "ready" /\ ~damaged =>
          \A name \in Names : Lookup(table, name) = Meaning(name)]_building

\* The start crashes when, and only when, PATH has an executable with the name of
\* a builtin, which map_insert then overwrites with a NULL path (map.c:243).
CrashExplained ==
    [][~damaged =>
        LET shadowed == \E name \in Names : IsBuiltin(name) /\ Having(name) # {}
        IN  /\ building' = "crashed" => shadowed
            /\ building' = "ready" => ~shadowed]_building

=============================================================================
