# A verification project for bare-shell

bare-shell is an interactive shell for x86-64 Linux written without libc: one
process with one thread, a SIGCHLD handler, its own allocator, line editor, lexer,
parser and symbol table, and the commands it forks. This directory holds TLA+ models
of it, the TLC runs that check them and the proofs TLAPS checks. All paths below are
relative to the repository's root.

Contents: 1 inventory, 2 modules, 3 runs and bounds, 4 fairness, 5 proofs, 6 what the
runs found, 7 what is not modelled, 8 plan.

## 1. Inventory

| component | state | operations | used by |
| --- | --- | --- | --- |
| main loop and SIGCHLD handler (`main.c`) | `last_status`, `builtin_executed`, `home_dir` | `main`, `sigchld_handler`, `install_sigchld`, `smart_prompt` | everything |
| executor (`execute.c`) | none of its own; processes, descriptors, `builtin_executed` | `execute_ast`, `execute_list`, `execute_pipeline`, `execute_command`, `handle_redirection`, the builtins `cd`, `exit`, `history` | main |
| line discipline (`ldisc.c`) | `ldisc_line`, `flags`, `default_flags`, the terminal | `ldisc_init`, `ldisc_deinit`, `my_readline`, `redraw` | main, `exit` |
| history (`history.c`) | ring `history[]`, `next_num`, `head`, `count`, `cursor` | `update_history`, `get_previous_history`, `get_next_history`, `print_history` | main, ldisc, `history` |
| allocator (`heap.c`) | block list `heap_start`..`heap_end` | `heap_init`, `my_malloc`, `my_free` | map, symtab, lexer, parser, history |
| lexer (`lexer.c`) | `tokens` | `lexer_init`, `tokenize`, `free_tokens`, `lexer_deinit` | main, `exit` |
| parser (`parser.c`) | none; builds the AST | `parse`, `free_ast` and what they call | main |
| symbol table (`map.c`, `symtab.c`) | hash table with double hashing | `map_init`, `map_insert`, `map_lookup`, `rehash`, `symtab_build_from_env` | main, executor |
| memory and strings (`memory.c`, `string.c`) | none | `my_memcpy`, `my_memmove`, `my_memset`, `my_strlen`, ... | everything |
| output (`print.c`, `stdlib.c`, `ctype.c`) | none | `my_printf`, `my_atoi`, ... | main, ldisc |
| system calls (`syscall.c`) | none; the kernel's | one wrapper per call | everything |

How they interact. `main` asks `my_readline` for a line, stores it in the history,
tokenizes and parses it, puts the terminal back into its own mode, executes the AST,
waits for the pid that `execute_ast` returned, computes the status for the prompt,
makes the terminal raw again and frees AST and tokens. The executor forks the stages of
a pipeline, waits between the pipelines of a list and reaps children when a list ends.
The SIGCHLD handler may run between any two instructions and reaps whatever has ended,
so the three places that wait for a child (`execute.c:225/233`, `execute.c:247`,
`main.c:140`) compete with it for the same zombies. Children share the terminal and
its modes, and pipes, with the shell and with each other.

What is hard, and what would make each part correct:

* *Waiting.* Merged signals must not leave a zombie, a `wait4` must not block for
  good although the handler has taken its child, the next command must not start
  before the foreground one has ended, `&&` and `||` must go by its status, and a green
  prompt must be earned.
* *Terminal.* Whatever runs, a program sees the terminal in the mode it had before the
  shell started, and gets it back in that mode at the end, although children that run
  `exit` write the mode, too.
* *Descriptors.* No path through `execute_pipeline`, the error paths included, may leak
  a pipe; each stage must have its own input and output and no other end of a pipe,
  or a reader never sees the end of its input.
* *Heap.* No two live objects may overlap, the list must cover the heap, and a line
  must give its memory back, all but its entry in the history.
* *History and line editing.* The ring must keep the last lines across its wrap, the
  line must stay terminated under edits in the middle, and the echo must agree with it.
* *Lexer, parser, symbol table.* Tokens and AST must follow
  `shell_supported_ebnf.txt`; every name inserted must be found after any rehash; what
  is executed must be what was typed, from the directory that PATH gives it.
* *Library.* Copies by words must agree with copies by bytes at every alignment and
  overlap; conversions must saturate; output that fits its buffer must be exact.

`PROJECT.json` lists the hazards one by one, each at its line.

## 2. Modules

| module | models | note |
| --- | --- | --- |
| `JobControl` | `main.c` loop and handler, `execute.c` lists, pipelines and commands, terminal modes of `ldisc.c` | the core |
| `JobControlProofs` | theorems about `JobControl` | TLAPS |
| `PipelineFds` | descriptors of `execute_pipeline`, `execute_command`, `handle_redirection`, and the pipes | shell and stages run concurrently |
| `PipelineFdsProofs` | theorems about `PipelineFds` | TLAPS |
| `Heap` | `heap.c` | operators and actions |
| `ShellHeap` | the calls of `my_malloc` and `my_free` made by `main.c`, `map.c`, `symtab.c`, `lexer.c`, `parser.c`, `history.c` | composes `Heap` |
| `HeapProofs` | the shell's side of the allocator's contract and `heap.c`'s, as theorems about `ShellHeap` | TLAPS |
| `HistoryList` | what a history promises | abstract specification |
| `History` | `history.c` | ring; refines `HistoryList` |
| `Readline` | `my_readline` of `ldisc.c` with the history | composes `History` |
| `ReadlineProofs` | theorems about `Readline`, and that `History` implements `HistoryList` | TLAPS |
| `Lexer` | `tokenize` and the token array of `lexer.c` | one action per round of the loop |
| `Parser` | `parser.c` | one action per token or end of a rule; extends `Lexer` |
| `NameTable` | what a symbol table promises: a finite map | abstract specification |
| `SymbolTable` | `map.c`, `symtab.c` and the start of `main` | implements `NameTable` |
| `FrontEnd` | `main`'s loop over lexer, parser, symbol table and the lookup of `execute_command` | composes `Parser` and `SymbolTable` |
| `Primes` | `isPrime` and `getPrime` of `map.c` | shared by `SymbolTable` and `ShellHeap` |
| `FrontEndProofs` | the tokens, the arrays, the commands and the tree, as theorems about `FrontEnd` | TLAPS |
| `SymbolTableProofs` | the map, its rehash, the meaning of names, what is looked up and what crashes, as theorems about `FrontEnd` | TLAPS; extends `FrontEndProofs` |
| `CommonProofs` | lemmas about numbers, primes and concatenation that several proofs need | TLAPS |
| `Machine` | `NULL` | shared |
| `Memory` | `memory.c` and `my_strlen` | loop by loop |
| `Conversions` | `my_vsnprintf` (`print.c`), `my_atoi` (`stdlib.c`, `ctype.c`) | operators |
| `Libc` | calls of `Memory` and `Conversions`, with their references | composes them |
| `LibcProofs` | the memory routines, `my_atoi` and `my_vsnprintf`, as theorems about `Memory` and `Libc` | TLAPS |
| `MC...` | values for the constants | for TLC |

Definitions named *Mutant* in the modules are not part of any specification: each is
the definition after it with a bug one could plausibly write, and the property it is
paired with in `PROJECT.json` fails when it takes that definition's place.

**JobControl.** `pc` is the shell's control point: `prompt` (in `my_readline`), `cmd`
(in `execute_command` for command `cmd` of pipeline `at`), `listwait` (blocked in
`execute_list`'s `wait4` after operator `at`), `reap` (the loop at `execute.c:247`),
`collect` (`main.c:139`) and `exited`. `parse_list` nests lists to the left, so the recursion of
`execute_list` visits the operators from left to right, and the counter `at` stands
for its stack. A command is reduced to what the executor asks of it: external, not in
the symbol table, or a builtin that succeeds or fails, and its redirections. Every
kernel event is an action of its own: `ChildExit`, `DeliverSignal`. SIGCHLD is one pending
bit and it is blocked while the handler runs. While `handler` is set no shell action is
enabled, because the handler runs on the shell's only thread. A blocked `wait4` is an
action that is enabled when a child it accepts is a zombie or when there is none (ECHILD).
`wait4(0)` and `wait4(-1)`, which happen when a builtin or a command that failed stands before an
operator, accept any child. After ECHILD the status is uninitialised
(`execute.c:218`), so `WaitFails` chooses either outcome. `outcome` and the field `fg` of
`kid` are history variables that only the properties read.

**PipelineFds.** One pipeline; `fds` is every process' descriptor table, `buf` the
contents of the pipes. Each group of system calls of `execute_pipeline` between which
another process may act is an action; the child's sequence is `Setup`, `Redirect`
(once per redirection), `Run`, then the program's `Read`, `Write`, `Finish`.
Programs are cat, head, a generator and true: enough for readers that
wait for end of file, readers that stop early and writers that block.

**Heap, ShellHeap.** A block is named by the address of its header; `blk` holds the headers
whose magic number is intact. `Malloc` and `Free` are the whole calls, with splitting,
extension and coalescing. `ShellHeap` makes the calls of the start and of each line in the order of the code, as a list `todo`;
`stage`, `var` and `dir` say how far `symtab_build_from_env` is in an environment with any number of variables that start with PATH, whose directories
may fail to open or to be read: then it returns and `path` is never freed. A name in `owned` stands for the variable or field that holds a
pointer (`<<"argv", j, k, v>>` is the array of the `k`-th command of the `j`-th pipeline after it has grown `v` times, `<<"history", i>>` is
`history[i].arr`). `update_history` overwrites the oldest place of a full ring without freeing it (`history.c:66`);
what the place led to moves to `lost`, where it stays. `my_malloc` is taken to succeed, and a line has words in every command. `split_block` leaves the
`prev` of the block after the split stale, as the code does: it may name a block that is not the one before, or
no block at all, but always a lower address. `Astray` says when `coalesce` would be misled by it.

**History, Readline.** One action per kind of byte read. `ldisc_line` is a C buffer
with terminators, edited by `my_memmove` and `my_strncpy`; `col` is the terminal's
cursor. A line keeps of each byte only whether it is part of an arrow key's sequence.
`Return` is the end of `my_readline`, `update_history`, and the start of the next call;
what happens in between is `JobControl`'s. `recall` is a history variable: where a walk of the arrow keys would be
that knew of places in a circle but not of `head` and the numbers. It starts at place 0, which is empty, goes up through the entries, the latest
first, stops at the oldest, and back. Two things a user would not expect are part of that walk, since the code does them and no
document promises otherwise: a full ring has no empty place and the walk begins at its oldest entry (`cursor = head`), and Down at a fresh
prompt leaves the entries on the other side, into the empty places.

**Lexer, Parser.** A character is a letter, a blank or one of `; & | > <`; a token keeps its type and
the word it points to. `Round` is what every round of `tokenize`'s loop does first; the
three actions that extend it are its branches. The parser's recursion is never deeper
than list, pipeline, command and redirections, so `pc` says which of them runs, and
`tree`, `cmds` and `argv` are what the callers hold; a right side that is missing is `<<>>`. Arrays are functions
from 0 with a cell for every slot that was allocated: they grow, and `resize_string_array` finds
their end by the NULL, as in the code. A redirection at the end of the
line makes `next_token` return NULL and the parser dereference it: `pc` becomes `crashed`.

**SymbolTable.** Insertions and lookups take the allocator to be sound: a table and its entries share no byte with anything else. `heap_startup`
shows that this fails for some PATHs, and then nothing here is claimed. `NextVariable` splits the value of PATH alone, although `split_path` scans the
copy before its terminators are written (`symtab.c:118-120`) and may go past it in memory that has been used before. FNV-1a is a constant function of the names, so that the instance can choose collisions
in the first slot and in the step. `Stop` is where probing for a name ends: a free slot, the
name itself, or `JUNK`. `map_insert` is one action up to the
rehash it may start; `RehashSlot` moves one slot, and `moved` counts them (it is NULL when no rehash
runs). `rehash` does not clear the
table it allocates (`map.c:119`). `my_malloc` gives zeroed pages from `brk` until memory is
used again, which is first possible when buffers of a directory have been given back
(`reused`); then any of the `Leftovers` may be in it: a slot that is not zero is taken for an entry,
by `rehash` as occupied and later by `map_lookup` as a pointer to follow,
which ends the shell. `damaged` is a history variable that tells when such a
slot was in a table, and the properties that need a clean one say so. A component of
PATH has what `openat`, `getdents64` and `access` answer; an empty component ends
the loop over them, as two NULs in a row do. One call of `getdents64` is
made for each directory, as in the code.

**FrontEnd.** `Start` is `main` up to its loop. Which commands of a tree the executor
comes to is `JobControl`'s affair, so `Execute` may look up any of them. A command without
words is a NULL name in `map_lookup` and ends the shell. The reference in the second half of the module
(`LineTokens`, `Sentence`, `Spelling`) is written over positions of the line and
neighbouring tokens, not as another parser.

**Memory, Conversions, Libc.** A byte is named by the address it has when the routine is called, so the
final memory shows where each byte went. `HeadByte`, `Word` and `Byte` are the three loops that
all copying routines consist of; `MovesDown`, `NoWords` and `Nothing` choose among
them. The fall-through `switch` statements for small regions are the same byte loop unrolled.
A conversion is done at once; `my_vsnprintf` is a fold over the pieces of
its format, and keeps `i`, `total_length` and what has been written where.

## 3. Runs and bounds

| run | question | size |
| --- | --- | --- |
| `jobs` | waiting, terminal, status, `&&` and `\|\|`; zombies are reaped, the prompt returns | 354 thousand states, 130 s |
| `jobs_status` | is the prompt's status the program's? violated | |
| `jobs_background` | does the prompt wait for `&`? violated | |
| `jobs_flag` | is a failure behind a builtin red? violated | |
| `fds` | descriptors and ends of files | 3.7 thousand, 3 s |
| `fds_builtin` | do all stages end? violated | |
| `heap` | the allocator under the calls of the start and of four lines | 281 thousand, 120 s |
| `heap_startup` | the same for a PATH with more directories: violated | |
| `readline` | editing, history, echo | 765 thousand, 70 s |
| `readline_cursor` | is the cursor where the edit is? violated | |
| `libc` | copies, conversions and output against references | 15 thousand, 45 s |
| `frontend` | from a typed line to the file it names | 65 thousand, 45 s |

*jobs*: three process ids, so that fork can fail, a pipeline of two stages can run
beside a background job, and the handler can find several zombies; exit codes 0 and 129
and death by signal; twelve lines that contain every operator, every kind of command, the
trailing operator and the pipelines that are given up in the middle. Lines may be entered
again and again, so processes left behind by one line meet the next ones. The three runs that are violated
need one line each, and two process ids: one for the foreground, one for what is left over.
*fds*: up to three stages, pipes of one unit and writers of two, so that writers block;
descriptor limits of 4, 5 and 6, so that `pipe2` fails for the first, the second and no
stage; nine pipelines with missing commands and builtins at each place.
*heap*: besides the layout of the blocks, `CallsLegal` checks the shell's side of the allocator's contract. The real
sizes of the structures, `HEAP_INIT_SIZE` and alignment; six environments: one directory and two with up to
eight executables (one rehash happens), a directory that cannot be opened, one that cannot be read with a second PATH variable behind it,
two variables that load, and none; four lines out of five, up to ten words per command
and ten stages; a ring of two, so that the third and the fourth line overwrite copies, as the 1025th and the
next do in the code. More executables and more words are exactly where `heap_startup` fails (section 6).
*readline*: lines of up to three bytes, a ring of three slots, four entries: the
ring wraps, the arrow keys are used before and after it is full, and edits in the middle move bytes in both directions.

*libc*: words of four bytes and a memory of 36; both pointers take every offset in a word, every overlap
up to nine bytes and lengths on both sides of 16, where the routines change their way, and
of a word. `my_atoi` gets every text of up to three of ten characters (and of four of
seven) with an int of 8 bits, so the limits are reached exactly, from both sides and past them;
`my_vsnprintf` gets every pair of pieces and buffers of 0, 1, 4, 6 and 9 bytes.
*frontend*: lines of up to ten characters; every text of up to four characters over one letter
and all operators, every sequence of four tokens of six kinds that fits, and
lines made for the word limit, the arrays' growth and the token array. The arrays start with two cells
instead of ten and a word is cut at 3 letters instead of 256, so both limits
are passed; `MAX_TOKENS` is one more than the longest line, as 512 is to 511. Ten environments: directories that cannot
be opened or read, empty components, two variables, a name in two
directories, an executable with a builtin's name, and up to nine names in a table of
three slots, which is rehashed twice; five contents of memory that is used again.

Deadlock is checked for `JobControl`. It is off for `PipelineFds` (one pipeline ends),
`ShellHeap` and `Readline` (the user stops at a bound), `Libc` (one call is made) and
`FrontEnd` (the user need not type, and the shell may have crashed).

## 4. Fairness

`JobControl!FairSpec`: the shell takes its next step (`Execute`), the handler runs when a
signal is pending (`Handle`), and each program ends (`ChildExit`). The first two are the
kernel's scheduling and signal delivery; the third is an assumption about programs, since
no shell can return to its prompt from a program that never ends. The user is not
fair: nobody has to enter a line.
`PipelineFds!Spec`: the shell and each stage take steps they can take.
A blocked read or write is a step that is not enabled.
`Libc!Spec` lets the routine that was called, and
`FrontEnd!Spec` the shell between two lines (`Start`, `Tokenize`, `BuildTree`) continue: one thread that nothing blocks.
`ShellHeap` and `Readline` state no fairness, since nothing is claimed to happen there. No strong fairness is used anywhere.

## 5. Proofs

`JobControlProofs` proves, for every set of process ids, every set of lines of the form
the parser builds and every set of exit codes:

* `TypeCorrect`: `Spec => []TypeOK`. `TypeOK` contains `ControlOK`, which says where `at` and
  `cmd` may point in each control state. Without it `line.ops[at]` and `line.pipes[at]` would be
  applied outside their domains, so it is part of the invariant and not a separate one.
* `ZombieSafety`: `[]NoLostZombie`. It is inductive with `TypeOK`: only `ChildExit` makes
  a zombie, and it sets the pending bit; only `HandlerReturn` drops the last
  cause, and its guard is that no zombie is left.
* `ForegroundSafety`: `[]OneForeground`. The strengthening `ForegroundInv` adds that, when the shell
  is in the reaping loop while such a process runs, the operator it will reach next is not `&`, which
  nothing waits after. A step that starts no process keeps it (`ForegroundKept`), and each of
  `WaitReaps`, `WaitFails`, `Collect` and `CollectNothing` shows that none is left
  (`NoForeground`).
* `TerminalSafety`: `[]TerminalRestored`. The strengthening `TerminalInv` adds that the
  copy of the mode that a child may still write is never the raw one.
* `GreenSafety`: `Spec => GreenWithoutBuiltin`, from two invariants: `OutcomeLinked` (while
  the shell waits, the status in the awaited zombie is the one it ended with) and
  `FlagClear` (`builtin_executed` is clear at the prompt).
* `OperatorSafety`: `Spec => OperatorsObeyed`, from `OutcomeLinked` and what `wait4` accepts: while the child it was called for has not
  been reaped it returns that child, and its status decides.
* `PromptSafety`: `Spec => PromptStaysRaw`, from `OneForeground` and `ModeOfExit` (only a
  child that runs `exit` on the terminal has a mode to write).

They rest on the assumptions on the constants in `JobControl` only: `PidsAssumption`,
`CodesAssumption` and `ProgramsAssumption`. TLC evaluates them in every run of
`MCJobControl`.

`LibcProofs` proves, for words of four or eight bytes, every memory and every set of calls, and for every width of an int:

* `MemTypeCorrect`: `MemSpec => []MemTypeOK`, and `RoutinesCorrect`:
  `MemSpec => []RoutinesRight`. The invariant `MemInv` says how far the pointers have come
  (`PointersMoved`) and that the part of the target behind them holds what
  it must while every other byte is untouched (`CopiedSoFar`). `CopyDown` and `CopyUp` are the heart: the bytes
  about to be read have not been written, because of the direction that was chosen and
  of `n >= MACHINE_ALIGNMENT` before a word is copied. They are proved for any number of bytes at a time, so a word
  and a byte are one case. `ScanningStep` shows that `my_strlen` does not pass the terminator.
  `LibcIsMemory` (`Spec => MemSpec`) carries both over to `Libc`.
* `AtoiAlwaysSaturates`: `Spec => []AtoiSaturates`, for every string. `FitsExactly` says that `cutoff` and `cutlim`
  decide whether `val * 10 + digit` is at most the largest int; `LoopValue`, that after each digit the loop has either the value of the
  digits so far or its flag and a value that is no int, since one more digit never makes a value smaller. `Value`
  is a sum of powers of ten, not the loop's own rule. `SkipsAll` and `LongestPrefix` relate the positions at which the
  code stops to the longest runs of blanks and digits. For the least int itself the loop reports an overflow, and what is returned then is its value.
* `PrintfAlwaysExact`: `Spec => []PrintfExact`, for every format and size. `Exact(out, size, t)` says of the output after the text `t`: the
  total is `t`'s length, `i` is at most that, and if `t` fits, `i` is exactly that and the buffer holds `t` and nothing else. `PutsExact` shows that each of the
  three ways to put a character keeps it, fitting or not, although they advance `i` differently. `DigitsMore` (a number's digits are those of its tenth
  and its remainder) carries it through `itostr`'s recursion, and `FoldPrefixes` through the characters and the pieces.

`FrontEndProofs` proves, for every environment, alphabet, line and word limit:

* `TokensAlwaysFit`: `Spec => []TokensFit`. `LexInv` counts: the tokens and the word in `buf` are never more
  than the characters read, so the array, which is longer than any line, never fills up, and the round of
  `lexer.c:66` that may store two tokens has room for both.
* `TokensAreRight`: `Spec => []TokensRight`. `ScanInv` says what the loop of `tokenize` has done when it has read `at`
  characters: the tokens are those that begin in the characters before the word in `buf` (`Right`), that word is the part
  of the line behind them, it begins where a word begins, and the next character is not the second one of an
  operator. The last part needs an argument about a whole run of equal characters: `TokensRight` pairs
  them from the left by parity, while `tokenize` looks at one neighbour only. `SecondAlternates` shows that both
  agree. The order of the tokens comes from `Right`, too: the tokens up to a position are as many as the starts up to it,
  and every start has the token with its rank (`RightAppends`, `RightIsAll`).
* Lemmas for `RunsOnlyWhatWasTyped` below. `TextInv`: every token is from a start of the line, the last word of a line whose
  scan was cut off included, of which `TokensRight` says less. `OriginTyped` takes the first word of a command back
  to the characters: no token starts between that word and the token before it (`StartsCounted`), and every character but a blank is part
  of a token (`StartBefore`), so there are only blanks between them.

and, for every line and every initial size of the parser's arrays:

* `ArgvAlwaysTerminated`: `Spec => []ArgvTerminated`. `Words` is the shape of the array: words, then
  NULLs, and at least one. `Growing` and `Storing` show that `resize_string_array` and `get_words` keep it;
  it needs `LexInv` since a WORD token must carry a lexeme.
* `Leading`: the first word of each command in the tree, in the parser's arrays and
  in the one being read is a word that is the first token or stands behind `;`, `&`, `&&`, `||` or `|` (`Origin`);
  `Growing` and `CommandStored` carry it through the resizing of both arrays.
* `Treeing`: the invariant `TreeInv` of the tree. Either the tokens read so far are a legal beginning of a line (`Read`: what
  stands behind each of them may stand there) and are exactly the text of the tree, the operator, the stored commands and
  the command being read, in this order (`Parts`); or the line is not one of the language
  and a command that shows it, without words or with a redirection without a file, is in
  the tree, in the array or being read (`Wrong`), and stays there (`WrongStays`). `TreeRight` speaks of the end of the parse only and is far
  from inductive. A text is a concatenation of concatenations (`FlattenSeq`), whose value for every sequence would be an induction;
  `JoinsExists` and `JoinedGrows` get it from the least index at which a partial concatenation fails to exist or two of them differ.

`SymbolTableProofs` proves, for every hash function, number of slots, order of the builtins and environment:

* `TableIsKept`: `Spec => TableKept`, the refinement of `NameTable` step by step. The invariant `TableInv` says that
  each entry is where probing for its name ends (`Clean`), that the table is at most 0.7 full
  between two calls, and what a rehash has done so far (`Moving`): the new map has the entries of the slots that were treated, and
  is at least twice as large, so it never fills up. `PutClean` is the step on which all depends: an entry put in the first free slot
  of its own probe sequence takes no other name away, since the other sequences end before they come to it.
* That there is such a slot needs the primes. `getPrime` is the recursive function of `map.c:64`; that it returns a prime no less than its argument
  (`PrimeFound`) rests on Euclid's argument (`PrimesGoOn`), and that the probes of a name come to every slot (`ProbesCover`)
  on the step and the size having no common divisor (`NoCommonDivisor`). `map_insert` ends for no other reason.
* `LastOneWins`: `Spec => LastDirectoryWins`, and `CrashIsExplained`: `Spec => CrashExplained`. Both speak of the end of the start; the
  invariant is what a name stands for at each point of it (`SoFar`): the last of the directories that have been looked at
  (`Done`) and have it (`BoundInv`), and where the walk through the environment is (`WayInv`), which makes `Done` the directories of
  `Loaded` when it ends (`LoadedDone`).
* `FrontEndTypeCorrect`: `Spec => []TypeOK`: the number of elements, which decides when to rehash, is that of the entries
  even in memory that is not zero, and the parser does not read past the tokens (`PosInv`).
* `RunsOnlyWhatWasTyped`: `Spec => []RunsWhatWasTyped`, the path of a command through the lexer, the parser and the table.
  `FoundInv` says that the command looked up last has an `Origin` in the tokens and that the table has not changed since; the rest is
  `OriginTyped` and, for what was found, `CompleteMeans`.
* `TreeIsRight`: `Spec => []TreeRight`, from `TreeInv`: when the parse ends and the line is one of the language, the tree spells all of its
  tokens (`ParsedRight`). `CrashInv` adds that no such line ends the shell: the parser crashes on a
  redirection at the end only (`RedirectionCrash`), the executor on a command without words, which the tree of such a line has not, or
  in a table with something left in its memory, which a clean one has not (`ExecuteCrash`).

`PipelineFdsProofs` proves, for every pipeline of any length, limit of descriptors, size of pipes and amount of output:

* `FdsTypeCorrect`: `Spec => []TypeOK`, and `NoDescriptorLeaks`: `Spec => []NoFdLeak`. The invariant `FdInv` says
  exactly what the shell's table holds in every control state (`ShellHolds`): the terminal, the read end
  of the pipe before this stage, and those ends of the pipe behind it that have not been closed yet. `NoFdLeak` speaks of the end of the
  pipeline only and is far from inductive.
* `SecondCloseHarmless`: `Spec => SecondCloseIsHarmless`. After the last stage `execute_pipeline` closes
  `cur_read` twice. `ShellInv` shows that the number names nothing the second time.
* `StagesAreWired`: `Spec => []StagesWired`. `StageInv` follows a stage from the copy of the shell's table that it
  inherits (`SetUp`) through its redirections (`Wired`, over those that have been made) to the program. What it inherits depends on
  `ShellInv` in the moment of the fork, `ForkOrder` says which stages there are.
* `EofIsReal`: `Spec => EofIsTrue`: a `cat` that reads the end of a pipe has no writer left, and with the wiring
  (`StagesApart`) the only stage that could be one is the stage before it.

`ReadlineProofs` proves for every size of the line and of the ring, every set of bytes read in any order and every width of
the prompt:

* `ReadlineTypeCorrect`, `LineIsTerminated` and `ArrowsFollowListing`: `[]TypeOK`, `[]LineTerminated` and `[]ArrowsWalkListing`. The
  invariant is `RInv`: `LineInv` (the bytes before `len` are not NUL and those from it on are), `CursorInv`
  (`cursor_pos` is in the line), `WalkInv` (the cursor is `recall` slots before `head`, counted with the wrap)
  and the types of the ring. `ArrowsWalkListing` compares
  with what `print_history` lists, before the ring is full and after, so it needs `ListingShape`: the entries of the ring have consecutive numbers and
  `Back(n)` is the slot of the n-th from the end.
* `CursorKept`: `Spec => CursorFollowsEdit`: every key but Backspace leaves the terminal's cursor at
  `cursor_pos` if it was there or if the key draws the line. It needs `LineInv`, since `redraw` measures the line with `my_strlen`.
* `HistoryIsKept`: `Spec => HistoryKept`. The ring of `history.c` implements `HistoryList`: `InitRefines`, `MoveRefines` (a step of
  the cursor is a stutter) and `NewRefines` (a new line is appended and, in a full ring, the oldest one is forgotten).

`HeapProofs` proves for every heap size, header size, set of environments and of lines, number of lines and size of the ring, first about the calls:

* `ContractKept`: `Spec => []CallsLegal`. The shell frees only what it holds, and once, and the one pointer that it overwrites
  before freeing what it leads to is that of the oldest line in a full ring. `CallsLegal` looks at the next call only; the inductive invariant `CallsInv` says that the whole rest
  of `todo` is `Legal`: step by step it leads from what is held now to what may be left over. Legal scripts can be put one behind the other
  (`LegalCat`, `LegalFlatten`), and what a script does among other objects is what it does alone (`LegalGrows`), so that each function of the code has
  one lemma about the objects it takes and gives: `GetWordsLegal`, `ParseCommandLegal` and `ParsePipelineLegal` for arrays that grow any number of times,
  `FreeCommandLegal`, `FreePipelineLegal` and `FreeListLegal` for the tree, `TokenizeLegal` and `FreeTokensLegal`,
  `MapInitLegal`, `RehashLegal`, `InsertLegal`, `LoadLegal` and `BuiltinsLegal` for the start, and `RingPlace` for the place of the ring that a line takes.
  `WorkLegal` and `LineLegal` join those of a line; `CallStep`, `StartStep` and `LineStep` show that each kind of step keeps the invariant.
* `HistoryRemains`: `Spec => []HistoryLeft`, from the same invariant. Between two lines there are the symbol table, the token array, the copies in the ring,
  one lost copy for each line that the ring has overwritten, and `path` if a directory could not be loaded. Nothing else is left over: these are
  two leaks of the code, and the theorem says that the calls modelled have no third.

Then about the blocks, in every state that is reached while no call has been misled by a stale `prev` (`FreeSound`):

* `ObjectsDisjoint`, `ListTilesHeap` and `BlocksWellFormed`: `Spec => ([]FreeSound => []P)` for `NoOverlap`,
  `HeapTiled` and `TypeOK`. Without the hypothesis they are false: `heap_startup` violates `NoOverlap` in an instance of the same
  module. The theorems say that the stale `prev` of `split_block` is the only way in which
  `heap.c` can hand out overlapping memory or lose track of a block: first fit, splitting, extension of the heap, alignment and the rest of `coalesce`
  are right for every sequence of legal calls, and by `ContractKept` the shell makes no others.
* The inductive invariant `HeapSound` is `Tiled` (the headers are aligned, each block ends where its `next` begins and the last one at the
  heap's end, no two share a byte, a `prev` that is right or stale points lower) and `Held` (what the shell holds or has lost are the
  blocks in use, one each, and large enough). `NoOverlap` alone says nothing of the list that `my_malloc` walks.
* The three walks of `heap.c` along `next` are recursive functions in the model. What they return (`FirstFitWalks`, `LastBlockWalks`, `ListedWalks`)
  is shown by giving the function's value at every block and, for the blocks that they pass, by looking at the last block at which
  a statement fails (`WalkBack`). `TakeShape`, `ExtendShape` and `MergeShape` do the rest, one for each way in which the list changes;
  after `extend_heap` the first fit always succeeds, so `my_malloc` returns NULL for no size.

All these theorems rest on the assumptions on the constants, which TLC evaluates in the runs: `MemoryAssumption` and `ConversionsAssumption`;
`LexerAssumption`, `ParserAssumption`, `TypedAssumption`, `NamesAssumption` and `SymbolTableAssumption`; `PipelinesAssumption`, `LimitsAssumption` and `SizesAssumption`;
`HistoryAssumption`, `ReadlineAssumption` and `LinesAssumption`; `HeapSizesAssumption` and `ShellHeapAssumption`. `HeapSizesAssumption` has
`HEAP_INIT_SIZE` aligned, as 8192 is, `ConversionsAssumption` says that every digit is an int and that a format's numbers are, `LimitsAssumption` says that a process may have its
three standard descriptors at least, `PipelinesAssumption` that a single builtin comes here only with redirections, which is when
`execute_command` forks for it, `NamesAssumption` that every word the lexer can read has a hash value, `SymbolTableAssumption` that the builtins have different names and that NULL is no value, and `ParserAssumption` that it is no type of a token. The inductive invariants
were checked by TLC on the instances of the runs before they were proved.

Induction over the numbers. The library's theorem takes the statement as an operator, which the provers cannot instantiate. `CommonProofs` has it for
a *set* instead (`Induction`: a set of numbers that has 0 and with each number the next has them all), from the least number
that is missing. `Least` gets that from the well-foundedness of inclusion among the subsets of a finite set, a theorem of the library
that has no operator parameter. `Recursion` (a function is defined by its value at 0 and what leads from each number to the next) and `Joining`
(what `FlattenSeq` returns) rest on it, and so do `Descent` (a function whose value at a number is made from its value at a smaller one, as in `itostr`) and
`FoldPrefixes` (what `FoldLeft` has computed after each element). Statements about recursive functions and about concatenations are proved in this form where
the statement can be written as a set of numbers.

Model-checked only:

* the liveness properties `ZombiesReaped`, `PromptReturns`, `PipelineEnds`, `RoutinesReturn` and `Responds`: liveness and
  ENABLED are out of the prover's reach;
* `FreeMerged`, the half of `LineLeavesOnlyHistory` that says that free neighbours
  are merged. A stale `prev` that names a block in use makes `coalesce` miss the free block before it, which harms nothing but
  leaves neighbours unmerged, so it does not follow from `FreeSound`.

`FreeSound` itself is neither proved nor checked: it is false for larger inputs (`heap_startup`), and stands only as a hypothesis.

## 6. What the runs found

* `jobs_status`. `README.md:79-80` has the prompt show the exit status. When the handler
  reaps the child before `main.c:140` does, `wait4` answers ECHILD, `status` stays -1 and
  the prompt shows 1. This is a race between the child's end and the shell's `wait4`.
  What does hold, and is proved, is that without a builtin green means success (`GreenWithoutBuiltin`).
* `jobs_background`. `README.md:15` promises background jobs. `execute_list` does not
  wait after `&`, but it returns the pid and `main.c:140` waits for it.
* `jobs_flag`. The same lines say that failure is red. `builtin_executed` is set until the end of the
  line, and `main.c:143` shows 0 whenever it is: `cd x ; false` gives a green prompt.
* `fds_builtin`. `README.md:13` and `README.md:119`. A builtin in a pipeline is forked and
  does not call execve, so O_CLOEXEC never closes its copy of its pipe's read end.
  If the next stage does not read and the output is more than a pipe
  holds, it blocks for good instead of receiving SIGPIPE.
* `heap_startup`. `split_block` does not update the `prev` of the block after the split. Once a
  block in the middle has been split and freed, `coalesce` follows the stale `prev` and merges
  blocks that are not neighbours. A PATH of two directories with 8 and 25
  executables already makes an entry of the symbol table overlap the live `struct hash`.
  `FreeSound` fails two calls before that, and by `ObjectsDisjoint` it must have failed: nothing else can lead to an overlap.
* `readline_cursor`. `ldisc.c:125` says that the loop moves the cursor "back where it
  belongs"; `redraw` has done so already, and it moves again.

The `frontend` run passes, and its properties say where the code is weaker than one would
expect, since no document promises more: a name in several directories of PATH stands for the *last*
one (`LastDirectoryWins`), the first directory that cannot be opened hides all later
ones, an executable called `cd`, `exit` or `history` in PATH ends the shell at its start
(`CrashExplained`), a word of 256 characters cuts the line (which `TokensRight` accepts), and a line outside the grammar is not reported
but parsed in part, or ends the shell (`TreeRight`).

## 7. What is not modelled

* The bytes of commands and files, colours and the prompt's text, and the wrappers in `syscall.c`, which
  stand for the kernel's calls that the modules model from their use.
* `symtab_get_home_directory`, which copies HOME for the prompt and `cd`; directories and file names whose path does
  not fit 512 bytes (`symtab.c:62-65`); a directory whose entries do not fit one megabyte.
* `my_memcmp`, `my_strcmp`, `my_strncmp`, `my_strdup`: byte loops that stand for what they compute;
  the bases of `my_strtol` other than 10, `isdigit` and `my_itoa`, which nothing calls. What `my_printf` writes
  when the text is longer than its buffer of 1024 bytes.
* SIGINT and other signals that kill the shell itself in cooked mode; programs
  that change the terminal's mode themselves; terminal lines that wrap.
* A failing `brk`: `heap.c:55-56` tests for a negative result, which the system call never
  gives, so the code cannot take its error paths for it.
* Commands without words (`;`, `| x`, `> f`) in `JobControl` and `ShellHeap`: they are a null pointer in
  `map_lookup`, and `FrontEnd` shows the crash.
* The working directory: `cd` is its success or failure.
* `get_history`, `map_delete` and the debugging printers, which nothing calls.

## 8. Plan

Done: `JobControl`, `PipelineFds`, `Heap` with `ShellHeap`, `History`
with `HistoryList` and `Readline`, `Lexer`, `Parser` and `SymbolTable` with `FrontEnd`, `Memory`, `Conversions` and `Libc`, and
the proofs of section 5. Next, in this order:

1. HOME and the paths that do not fit their buffers.
