# MacMini Shell in TLA+

A model of minishell (`src/src/shell`, `src/src/common`) and of its daemon tools
(`src/src/system`), checked with TLC and, for the properties that matter most, proved
with TLAPS. Paths below are relative to the repository root.

## 1. The system

### 1.1 The shell

One process, one thread. `main` (00_main.c) initialises `t_root` (01a_init.c), runs the
rc file, prints a banner and enters `prompt()` (02_prompt.c): read a line, expand it,
split it into tokens, build a tree, walk the tree, undo what the line did to the shell
(`reset_data`, 12_free.c). The concurrency is between the *processes* a line forks: they
share pipes, files, the terminal and its signal keys, one `.here_doc_tmp` in the working
directory, and, by inheritance at fork, a copy of everything the parent had at that
moment, in particular `sh->pipe`, `sh->tree_arg_value`, `g_exit_status` and the signal
dispositions.

| Component | Source | State | Operations | Interacts with | What makes it correct |
|---|---|---|---|---|---|
| prompt loop | 00_main.c, 02_prompt.c | `t_root`, terminal mode | read, run, reset, exit | all of the below | every line ends; the next prompt finds the shell as it was |
| expansion | 03_expand.c, 03a | none | `$NAME`, `$?`, quotes | environment, `g_exit_status` | what is in single quotes is not touched |
| lexer, quotes | 04*.c, 10*.c | none | count tokens, cut tokens, remove quotes | prompt, parser | the counting pass agrees with the cutting pass |
| parser | 05*.c | none | first `\|`, else first `<`, else first `>`, else a command | executor | the tree holds each token of its interval |
| executor | 06*.c | `g_exit_status`, `tree_arg_value` | walk the tree, builtin or fork and exec, wait | all | status of a line, arguments of a command, one wait per child |
| pipes | 07_pipe.c | `sh->pipe` | pipe, two forks, close, two waits | executor, here-documents | both ends open while needed and closed when not; status is the right side's |
| redirections, here-documents | 08*.c | descriptors 0 and 1, `.here_doc_tmp` | `<` `>` `>>` `<<` | executor, signals | what is opened is undone; a failed one stops the command |
| builtins | 09*.c | environment list, history, `exit_cmd_flag` | echo, cd, pwd, export, setenv, unset, unsetenv, env, history, exit, usage, help | executor, expansion | effect in the shell, not in a child; status |
| signals | 11*.c | dispositions of each process | install, ignore while waiting, restore, reset in children | executor, pipes, here-documents | Ctrl-C ends the line and not the shell, and is caught again at the prompt |
| wrappers | src/common/ft_*.c | none | fork, pipe, open, dup2, kill; exit on failure | all | a failure ends the process that has it |
| environment | 09b_cd.c, 09d_export.c, 09e_unset.c, 09f_env.c | `sh->env_list`, the C library's `environ`, the working directory | export, setenv, unset, unsetenv, cd | expansion, command lookup, prompt, execve | one value per name; the list and `environ` agree; OLDPWD is where the shell was |
| command lookup | 06b_exec_path.c, `env_list_to_arr` (06_execute.c) | none | search PATH, fork, execve | environment | what runs comes from the PATH the program is given |
| rc file | 01b_rc.c, 01c_rc_utils.c | PATH, the file itself | find or create the file, its lines as commands before the first prompt | executor, prompt loop, other shells that start | nothing in an rc file is overwritten; `exit` in it is obeyed |
| history | 09g_history.c | `sh->history`, a static number | add, show, clear | prompt loop | the lines that were typed, in order |
| stdio | 09c_pwd.c, 09f_env.c, 09g_history.c, 09i_usage.c, 09j_help.c, 01d_banner.c | the buffer of stdout, copied by fork | printf, flush at a prompt and in `exit()` | pipes, redirections | what is printed comes out once, and where it belongs |

### 1.2 The programs

`dspawn` daemonises itself and appends a line to `tmp/daemons.reg`; `dkill` lists the
live daemons of that file, sends SIGTERM to one or all, appends a record per daemon to
`tmp/cematary.reg`, and after "all" truncates the registry; `dcheck` prints both files.
All three begin with `ensure_daemon_files()`, which makes the directory and the files.
Several of them may run at once and no lock is taken on any file. `find`, `ld` and `ldr`
list a directory, the first and the last with everything below it, while others change
it. `backup` and `sys` are sequential tools that print.

Several shells may run in one project and in one directory: they share the project's rc
file, which the first one creates, and `.here_doc_tmp` in the working directory.

### 1.3 What is hard to test here

`PROJECT.json` lists the hazards with their lines. They are of nine kinds: (1) a key
typed between a fork and the first call of the child, or while one side of a pipe is
still being forked; (2) descriptors, the argument word and the status, which live in one
place for the whole line and are inherited at fork; (3) processes that wait for each
other through a full or empty pipe; (4) a handler that gives up and leaves its callers
to go on; (5) the variables, which are kept twice, in a list of the shell and in the C
library, by builtins that each search and change the list in their own loop; (6) the
text of a line, which four passes read with pointers of their own (expand, count, cut,
split), each with its own way to skip a quoted part, and of which the second sizes what
the third writes; (7) files that several shells or tools make, look for, open and remove
by one name; (8) output that waits in a buffer while its process forks and moves
descriptors; (9) programs that walk or search directories that others change between two
steps.

## 2. The modules

| Module | Models | Extends |
|---|---|---|
| `Syntax` | the tokens and the tree of 05_parser.c | |
| `Executor` | prompt loop, executor, pipes, redirections, here-documents, signals, wrappers, with all the processes of a line | `Syntax` |
| `ExecutorProofs` | theorems about `Executor`: types, `sh->pipe`, dispositions; parents, children and waits; the shell's handler, and what a line leaves at the prompt | `Executor`, TLAPS |
| `PipeProofs` | theorems about `Executor`: who has which end of a pipe, whose argument words a command gets, who owes the shell the status of its line | `ExecutorProofs` |
| `MCExecutor` | words, programs and lines for TLC | `Executor` |
| `Daemons` | dspawn, dkill and dcheck on the registry, the graveyard and the directory they make | |
| `DaemonsProofs` | theorems about `Daemons` | `Daemons`, TLAPS |
| `MCDaemons` | symmetry for TLC | `Daemons` |
| `Variables` | what export, unset and cd promise: a function from names to values | |
| `Environment` | the environment builtins, cd, the rc file's PATH lines, start-up, the search for a program | instantiates `Variables` |
| `EnvironmentProofs` | theorems about `Environment` | `Environment`, TLAPS |
| `MCEnvironment` | names, directories and commands for TLC | `Environment` |
| `Text` | expansion, the lexer's two passes, the splitting into words | |
| `TextProofs` | a theorem about `Text` | `Text`, TLAPS |
| `MCText` | the lines for TLC | `Text` |
| `Shells` | several shells from start-up to exit: rc file, prompt loop, history, exit, `.here_doc_tmp` | |
| `ShellsProofs` | theorems about `Shells` | `Shells`, TLAPS |
| `MCShells` | rc files and symmetry for TLC | `Shells` |
| `Printing` | stdout's buffer through forks, redirections and ends of processes | |
| `PrintingProofs` | theorems about `Printing` | `Printing`, TLAPS |
| `MCPrinting` | the lines and rc files for TLC | `Printing` |
| `Walk` | find, ld and ldr on a tree that changes | |
| `WalkProofs` | theorems about `Walk` | `Walk`, TLAPS |
| `MCWalk` | three trees for TLC | `Walk` |

`Executor`, `Shells` and `Printing` are three views of the same lines. `Executor` has
all the processes of one shell's line and counts bytes; `Shells` has several shells and
of a line only what they share or keep; `Printing` has one shell and its children, and
of a line only who prints, where to and how the process ends. A property that needs two
of these at once (another shell's document in the middle of a pipeline, say) is not
stated: the product is out of TLC's reach, and what the views share (the order of
`reset_data`, the child's `_exit`, here-documents before the forks of a pipe) is
translated from the same lines in each.

### 2.1 Syntax

A line is a sequence of tokens; a token is its operator character, how often the
character is repeated (`<<<` is one token), and one word. The tree is not built: the
subtree of the tokens `lo..hi` is the pair `(lo, hi)`; `Root` finds its root the way
`parser()` does, and the children are the two intervals around it.

### 2.2 Executor

*Processes.* `Pid` is a set of slots; `st`, `par` and `ws` hold what the kernel knows
(state, parent, wait status). `Fork` copies descriptors, memory and dispositions; `End`
closes descriptors, makes orphans and leaves a zombie.

*Calls.* `todo[p]` is a stack of frames: what is left of the C calls the process is in.
A handler is one action that replaces the top frame by those of the calls it makes, in
the order of the code. Calls that block or that others can observe half-done are frames
of their own: the wait, the child's `child_restore_signals`, the two forks of a pipe,
the `dup2` calls around a here-document, a read or a write of one unit.

| Frame or action | Code |
|---|---|
| `ReadLine`, `ResetData`, `EndOfInput` | `prompt`, `lexer_paser_exec`, `reset_data` |
| `ExecBuiltin`, `ExecCmd`, `Execve`, `CommandNotFound` | `builtin`, `exec_cmd` |
| `SigintIgnore`, `WaitEnded`, `WaitStopped`, `SigintRestore` | the five lines every parent waits with, `ft_kill` and `exit_status` included |
| `PipeSyntaxError`, `PipeHandler`, `PipeHeredoc`, `ForkLeft`, `ForkRight`, `ClosePipe` | `pipe_handler`, `pipe_heredoc`, `pipe_child_process` |
| `ChildRestoreSignals`, `LeftChild`, `RightChild`, `ChildExit` | the children of a pipe |
| `RdinHandler`, `RdoutHandler`, `HeredocHandler`, `HeredocOpen` | the redirection handlers, each with `tree_transversal` |
| `RedirectionError`, `RedirectionFails`, `OpenFails`, `OutOfResources` | their early returns, and the wrappers that exit |
| `HeredocChild`, `HeredocLine`, `HeredocEnd` | the process that reads a here-document |
| `ProgramReads`, `Writes`, `EndOfFile`, `BrokenPipe`, `ProgramEnds`, `TypedEnd` | programs and the kernel (external; also `echo`) |
| `CtrlC`, `CtrlBackslash`, `CtrlZ` | a key: one signal to every running process, by its disposition |

*Memory.* `mem[p]` is the part of `t_root` a line changes: `r` and `w` are `sh->pipe`,
`arg` is the token `tree_arg_value` points to, `g` is `g_exit_status`, `exit` the flag.
`fd[p]` says what descriptors 0 and 1 refer to and which pipe ends are open elsewhere;
`leak` counts the descriptors of `.here_doc_tmp` that nothing can close any more.

*Data.* Bytes are units and only counted: `gen` writes two, `echo` one, `cat` copies,
`take` reads one and ends. A pipe holds `Cap` units. A file is read by each program from
its own position.

*Left out*, because no property here depends on it: expansion and lexing (a line arrives
as tokens; `Text` is the module for these), an empty line, one the lexer refuses and the
lines of the rc file (`Shells`), what messages say, letter case of command names,
whether a program is found in PATH (a word is found or not; `Environment` has the
search), arguments of builtins (the table `Prog` gives their status), stdio buffering
(`Printing`). `sigaction` and `waitpid` on valid arguments do not fail. A stopped
process keeps nothing pending: a key it does not receive while it is stopped is lost in
the model.

### 2.3 Daemons

A daemon's name is the sequence of its suffixes; a read of a file is one step and an
`O_APPEND` write of one line another. Daemons may end at any moment without telling the
registry, and their process ids are used again, by daemons or by anything else.
dspawn forks twice, and the process the shell waits for ends before the one that is left
has registered (`DaemonSpawn`, then `RegisterRead` and `RegisterAppend`): the shell
prompts again in between.
`ensure_daemon_files()` is a step for each `stat`, `mkdir` and `open` (`EnsureStat`,
`EnsureMkdir`, `EnsureFile`, `EnsureFails`), so that several tools may make the files at
once; the directory may also be one in which nothing can be made. `DcheckEntry` is one
line of dcheck's list: a daemon may end, and its process id be used again, between the
read of the registry and the look into `/proc`.

dkill's array of active daemons is `list`, the registry as it was read, with `active`,
the lines of it that went into the array: the first `MAX_DAEMONS` whose process exists
(`Loaded`). The array in its order is `list` at the lines of `active` from the least
upwards, so the daemon after line `i` is at the least line of `Later`. For dcheck,
`active` are the lines it has shown as active so far.

`OneTerminal` says whether the tools are typed at one prompt: then one starts when the
one before has left the foreground (`MayStart`), which for dspawn is before it has
registered. Without it any number of tools run at once. Two history variables name what
the absence of a lock costs: `raced` is set when two daemons are between count and append
at once, or the registry is emptied in between; `late` are the daemons that work and
whose line was lost with the registry because the dkill that emptied it had not had them
in its list.

### 2.4 Environment and Variables

`list` is `sh->env_list`, node by node and in its order; `environ` is what `getenv`
returns. `Lookup` is the search that stops at the first node with a name (`existed_env`,
`add_link_list` and `unset_helper` each have it as a loop). `export` and `unset` take
one argument per step (`ExportNext`, `UnsetNext`), so that a bad name in the middle
leaves what came before it. `cd` is one step: only other processes could observe it
half-done, and they share nothing with it. The three ways of 09b_cd.c to read an
argument (a `~` somewhere and no `/`, a `-` somewhere, a `~` before the first `/`) are
fields of the argument. Directories are removed and made by others at any moment
(`Rmdir`, `Mkdir`), which makes `getcwd` fail.

A word without `/` is looked for in the PATH of the list (`FindPath`, `JoinPath`): the
first directory with a *file* of that name ends the search, and only then is it asked
whether that file can be executed. `ExecCmd` is the search, in the shell; `Execve` is
the child's `execve()`, a step of its own because directories come and go in between;
exit code 127 is what is left if it fails. `Given(n)` are the values of `n` in the array
`env_list_to_arr()` makes: one for each node of the name that has a value. `Installed`
says what the directories hold under the name of the one program. An entry of PATH is an
absolute directory; empty entries are dropped by the code and by the model. A shell may
be started without HOME, or with no environment at all (`env -i`); `GetPromptStr` is the
prompt that then hands a null pointer to `ft_strlen()`.

`Variables` is the abstract specification: a function `variables` and a directory `dir`;
a step sets, declares or removes one name, or moves to a directory and records the one
it left in OLDPWD. `Environment` implements it under `variables <- [n \in Name |->
Lookup(list, n)]`, `dir <- cwd`. What that rules out is a step that changes two names at
once, or an `unset` that uncovers an older value in a second node of the name.

*Left out*: what `env` and `export` print; the sizes of path buffers other than the 256
bytes of `get_pwd`; relative entries of PATH. The shell is assumed to be
started with no name twice, and with a PWD, if any, that is a path
(`EnvpAssumption`); HOME is never given an empty value in the runs. Start-up puts `PWD/bin` in front of PATH *before* `envp` is copied:
with a PATH in it the entry is replaced in place and the list has the new value, without
one the list has no PATH at all.

### 2.5 Text

One line goes through the phases `expand`, `lex`, `cut`, `split` and is then `done`, or
`refused` by the lexer. A text is a sequence of characters and a pointer into it an
index; `Char` are the characters of a line. `SingleQuote` and `JoinDollarPtr` are the two
branches of a turn of `expand()`, `JoinRemaining` its end; `Tokenizer` runs the counting
pass (`CountToken`, the function `CountFrom` at the text's start),
`PipeTokenize`, `RedirTokenize` and `WordTokenize` are the turns of `cmd_modifier()`,
each of which first sizes its token with `CountSpChar` or `CountChar`; `Lexer` trims;
`Split` is `cmd_quote_handler()` on every token, as `exec_cmd`, `cmd_join` and
`find_file` call it. The six loops that skip quoted parts differ in where they stop, so
they are one operator, `Skip`, with the stopping characters as its parameter.

`expand()` can move its pointer to one byte *before* the line (a quote that is not
closed, at the very start: its length is -1). What is there, is not the program's:
`before` is a zero byte or some other. A length of -1 that reaches `ft_substr` is
converted to `size_t` and means the whole rest (`FirstOf`). `MaxOut` bounds the output:
for some lines (`$'b$`) it grows without end. A turn that moves nothing is a stuttering
step.

*Left out*: failing allocations, tabs (no pass knows them), and the freeing of the text.

### 2.6 Shells

Each shell goes from `init_root` through the rc file, the banner and the loop of the
prompt to one of its ends: `left` (exit, Ctrl-D), `norc`, `nobanner` and `failed`
(`ft_open()` exits), `aborted` (the C library notices that a text is freed twice),
`killed` (the terminal is closed). A line is one of eight kinds, by what it does to this
state. `SourceRc`, `CreateEmptyRc` and `WriteHeader` are the look, the creation with
`O_EXCL` and the write of 01b_rc.c; `RcNext` is a turn of `run_rc()`, `Readline` with
`LexerPaserExec` one of `prompt()`, `ResetData` the end of a line.

`heredoc_fd()` and `heredoc_parent()` are a step for each system call: `DocUnlink`,
`DocCreate`, `DocLine`, `DocEnd`, `DocAccess`, `DocOpen`. A name (`tmp`) and the inode
it stands for are apart, because a document that was unlinked goes on to be written by
the shell that has it open. `cells` says which shell wrote each line of an inode.
`disturbed` is a history variable: the shells whose document another shell of the same
directory made or removed while it was theirs.

### 2.7 Printing

`buf` is what waits in the buffer of stdout in each process, `mode` how that process
buffers: not decided before the first `printf`, which asks whether descriptor 1 is a
terminal *then*. `LineCalls` is the order of a line's calls: a side with a here-document
runs in the shell before the forks. `Forked` copies buffer and mode; `ChildExit` is
`_exit()`, which drops the buffer; the reader of a here-document (`Doc`) and a child
whose `ft_open()` fails (`OpenFails`) call `exit()`, which flushes the copy. `Prompt` is
readline, which flushes, `Leaves` the return of `main()`. A unit of output remembers the
line it belongs to and where its user expects it (`Belongs`). A redirection without file
name ends its side, but where the side has a here-document it is `heredoc_handler()` that
runs the command, and it does so whatever became of the redirection (`GivesUp`): `pwd << E >
| cat` prints on the terminal, because the refused redirection has moved descriptor 1
back there and not to the pipe.

*Left out*: who reads what is in a pipe or a file; signals; more than one pipe in a
line.

### 2.8 Walk

A tree is nodes and names, with directories, plain files, sockets and symbolic links. A
call of `execute()` (find.c) or `list_directory()` (ldr.c, ld.c) is a frame with its
path and the entries `readdir` still has to give, in any order. `Opendir`, `Entry` and
`Closedir` are the parts of the loop. A path that does not fit its buffer (`Fits`) loses
the name that was to be added (`Joined`, `cut`) and is then the path of the directory that
is being read: that is what ldr's `stat` and the next `opendir` of both find (`Reached`),
so the directory is listed inside itself, by find for an entry whose `d_type` is that of
a directory, by ldr for every entry. find tests a bit of `d_type` that sockets have
too; ldr asks `stat` and, when that fails, uses what the *last* `stat` said: both are in
`Entry`. Others remove entries and make new ones (`Unlink`, `Create`).

*Left out*: what is printed of an entry (mode, owner, size, time), file systems without
`d_type`, and names longer than a buffer.

## 3. The runs

| Run | Question | Bounds | States |
|---|---|---|---|
| `lines` | Do pipelines, redirections, here-documents and refused lines do what their tokens say, in every interleaving, one line after the other? | 30 lines, every sequence of two; 4 processes besides the shell, 2 pipes of 1 unit | 165k |
| `signals` | Do the dispositions and the waits survive a key at any moment? | 4 lines incl. a three-stage pipeline, 6 processes, one key out of three | 180k |
| `endings` | Does every line end, with Ctrl-C or Ctrl-\ at any moment or without, and if fork or pipe fails in the middle? Does the command that was to read an interrupted document run? | 9 lines, two of them with more stages than there are processes or pipes, five with documents (alone, two on a line, left and right of a pipe, after a redirection); 4 processes, 2 pipes, one key | 64k |
| `heredoc_hang` | the left here-document (violation) | one line, a document of 2 units, a pipe of 1 | |
| `daemons` | Do registry, graveyard and files say what there is? | 3 process ids, 4 starts, a list of 3 for dkill, one dkill or dcheck at a time, tools in any overlap | 1.1M |
| `register_race` | two dspawn typed one after the other at one prompt (violation) | the same | |
| `environment` | Is the list a function from names to values, does `getenv` agree, and do programs come from the PATH they are given? | 5 names, 3 directories, 4 commands, one PATH= line, 3 starting environments | 941k |
| `text` | Do the four passes over a line read it as one left-to-right reading does? | every line of up to 4 of 7 characters, 4 longer ones | 29k |
| `expand_hang` | an apostrophe between double quotes (violation) | one line | |
| `shells` | Do two shells share a directory, and each keep its own prompt, history and rc file? | 2 shells, 2 directories, 3 inodes, 2 typed lines of 5 kinds, documents of 2 lines, 2 rc files and none | 2.1M |
| `printing` | Does what is printed come out once and where it belongs? | every line of one or two sides, 6 rc files, one typed line, a buffer of 2 units, terminal or script | 413k |
| `walk` | Is everything listed once, and does the walk end? | 3 trees of 6 nodes, one change, 5 open directories, 3 names in a path, 2 links in a path | 141k |

Why the bounds are enough to show the interesting cases: a pipe of one unit is full
after one write and empty after one read, so both kinds of blocking happen in two-unit
lines; two lines in sequence make every line the successor of every other, which is what
the residue of a line needs; two pipes and the third stage give the nested use of the
one `sh->pipe`. In `lines` every line has as many processes as it needs (four for two
stages, at most three per pipe and one more), so no fork fails; `endings` is where they
do, at every point of a line. One key is enough for each race of a key with a step; what
a second key does to the survivors of the first is not explored. Four commands are
enough for a name to be exported, unset, exported again and looked up, in any order with
`cd` and with programs; of the three starting environments one has PATH and HOME, one
HOME only, and one nothing; one directory (`w`) comes and goes, one (`bin`) has a path
that `get_pwd`'s buffer cannot hold, and one (`h`) holds a file of the program's name that cannot be executed,
which the exported PATH has before a directory with the program. Four characters are a
quoted part with two characters in it, two operators and two words, or an open quote
after a closed one; the alphabet has one character for each test a pass makes (`<` is
treated as `>`, `?` and a second name are in the longer lines), and the variable's value
has a space and an operator in it, so that expanded text is cut as well. Four starts are
three daemons and one more, or another program with the id of one that ended; dkill's
list is one shorter, so that the registry may be longer than it. Two shells
and two typed lines are a document of each at the same time, or two documents of one
after the other, or a line after `exit`; one of the rc files has a refused line before
its `exit`, and a document after it. A buffer of two units is filled by two rc lines and
the banner. Of the three trees one has a socket and a hidden directory, one has links
up, down and to nowhere, and one has paths longer than the buffer, with a directory and a
plain file below the last that fits.

Symmetry is used where names are only compared: process ids and runs of dkill in
`daemons`, shells and inodes in `shells` (the only temporal formulas there are of the
form `[][A]_vars`).

`CHECK_DEADLOCK FALSE` is set where the system really may stop: with Ctrl-Z one side of
a pipe may be stopped and the other wait for it (the shell then waits for both until
another key is typed, which the bound excludes), with a long left here-document the
shell hangs, a line of `Text`, the lives of the shells of `Shells` and `Printing` and a
program of `Walk` have an end, and in `Daemons` the last daemon may be gone with no
start left.

### 3.1 What they show

`lines`: `PromptClean` (nothing of a line is left at the next prompt: descriptors, pipe
ends, argument word, terminal mode, children), `StatusOfLast` (the status is
the last stage's in whatever order the stages end), `Delivered` (the units of a plain
pipeline are where its last redirection or the terminal is, none lost in a pipe),
`NoSelfFeed` (nobody downstream holds the write end of the pipe he reads),
`ArgumentsOwnStage` (a command gets the words of its own stage, except in the lines of
`WordWithHeredoc`, see 3.3), `PipeHeld`. The expected outcome is computed from the tokens alone
(`WellFormed`, `Opens`, `Output`, `StatusOf`), not by the executor's operators.

`signals`: `ProgramSignals` (every program has default dispositions, although its
ancestors were ignoring SIGINT when it was forked), `ShellHandler` (the handler of the
prompt is never lost), `ChildrenAwaited` (one wait for each child and none for anything
else, so no `waitpid` fails).

`endings`: `LineEnds`, with Ctrl-C or Ctrl-\ at any moment, or none. A process that
cannot fork or make a pipe exits on the spot (`ft_fork`, `ft_pipe`) and leaves the side
it had forked behind: `OrphansEnd` (what outlives its parent ends, because its input
ends or its output breaks). The line with two writers in a row makes the middle one an
orphan on a full pipe. `HeredocCancels`: when the only document of a line is interrupted, the command
that was to read it does not run, whether it stands alone, after a redirection or on
either side of a pipe: `heredoc_fd()` returns -1 through a chain of handlers, none of
which may go on to the command. The *other* commands of the line do run, although
11_signal.c speaks of cancellation (3.3). The document on the left is read by `take`,
which writes nothing: with `cat` a full pipe could block it (`heredoc_hang`).

`daemons`, with any number of tools at once: `RegistryUnique` (two lines have one name
only after another writer came between a dspawn's count and its append, whatever ended,
was killed or buried), `Registered` (a daemon that works is in the registry, but for those
that were not in the list of the dkill that emptied it), `Reported` (dcheck shows each
daemon that works all the while as active, in every line that has its process id,
although ids are used again, with the same exception) and `FilesKept` (no tool that makes
the files empties what another has written). The conditions are the races themselves
(`raced`, `late`) and not an assumption about the user: one user at one terminal meets
them, because dspawn's prompt comes back before its daemon has registered.
`register_race` shows that, with `OneTerminal`.

`environment`: `UniqueNames` (no sequence of commands puts a name into the list twice),
`CopiesAgree` (what a program is given and what the shell finds with `getenv` never
differ; `environ` may have *more* names, those that were unset), `PromptHasHome` (once
`getenv` finds HOME it always does, and the prompt takes the length of `getenv("HOME")`
unchecked: `unset HOME` does not reach it, just because `unset` leaves `environ` alone; an `unset` "repaired" to call `unsetenv`
would crash the prompt, and that is this property's mutant), `OldPwdFollows`,
`ImplementsVariables`, and `FoundAsGiven`: the program that runs for a word is from the
PATH in the environment it is given, and from the first directory there that has the
file, and a program in that PATH is passed over only for a file before it that cannot be
executed, for which the code's 127 is not what the documents say (3.3). It
would fail if the search asked `getenv` (after `unset PATH`, or without PATH at the
start, the two differ).

`text`: `TokensFit` (the pass that writes stays inside what the passes that counted had
allocated: the number of tokens and the bytes of each), `WordsAsQuoted` (the operators
and words are those of `Reading`, which reads the text once and knows which quote is
open, and the lines that are refused are those it finds open), `ExpandsAsQuoted` and
`LineSplit`. The last two are about lines with no single quote after the first double
quote (`SinglesFirst`): the other lines are where the code is wrong (`expand_hang`, and
3.3).

`shells`: `FlagAtPrompt` (after an accepted `exit` no line is read, except that an
`exit` in the rc file is passed over by refused lines), `HistoryAsTyped` (the typed line
that is the `n`-th not empty one is entry `n` of the history, and there are no others),
`TextFreedOnce` (prompt, lexer and `exec_rc_cmd` between them free each line's text once
on every path; the path on which they do not is the refused line of an rc file, which
the property names), `OwnDocument` (a command reads the lines its own user typed, all of
them, unless another shell of the same directory made or removed the file in between:
neither other directories, nor earlier lines, nor what a killed shell left there,
matter), `NothingLeft` (no `.here_doc_tmp` stays when all have left, `cd` with a
document excepted) and `RcKept` (nobody's rc file is overwritten by shells that start at
once).

`printing`: `PrintedOnce` (what the shell prints is neither lost when it moves
descriptor 1 nor printed again by a child of a pipe) and `PrintedThere` (at a terminal
everything comes out where it belongs, through all forks and redirections, if the first
thing printed went to the terminal; the exception is a left side like `pwd << E >`, which
has lost its pipe and prints on the terminal, `Goes`; in a script, what a typed line prints without
redirection is out before the next line is read).

`walk`: `EachOnce` (nothing twice, everything that stays is listed, no directory left
open, as long as paths fit) and `Ends` (also when a cut path makes find or ldr list a directory
inside itself, or links lead up: the number of open directories, or of links, ends it).

### 3.2 Fairness

`Executor!FairSpec` has weak fairness of two actions: some process that can take a step
takes one (`System`), and a here-document or a program that reads the terminal is
eventually ended by the user (`Answers`). The first is the kernel's scheduling in its
weakest form: not each process is treated fairly, only the machine does not idle while
something can run. It suffices because each line is finite. A program that sleeps ends
(it is one of the steps); no key and no next line are promised. `Text` has weak fairness
of its next step and `Walk` of the steps of the program (`Program`): a process that runs
is scheduled. The others who change the tree in `Walk` are promised nothing. The other
modules state safety only.

### 3.3 Disagreements between the code and what it says

1. A here-document on the left of a pipe that is longer than a pipe's buffer blocks the
   shell for ever (07_pipe.c:58): the parent runs it before the reader exists
   (`heredoc_hang`).
2. `echo "$USER's $HOME"` hangs the shell: `expand()` takes the apostrophe for an
   opening quote, and its length of -1 leaves the pointer where it is
   (03a_expand_utils.c:15; `expand_hang`).
3. Two dspawn typed one after the other at one terminal can register one name
   (dspawn.c:91; the comment at 64-65 says that the suffix keeps it unique): the prompt
   comes back before the first has registered (daemon_spawn.c:22-23; `register_race`).

In the models, and not stated as properties; first what contradicts a document:

- *Here-documents.* 11_signal.c:47-48 and 90-91 say that Ctrl-C in a here-document lets
  the parent detect the cancellation. It does, but no handler tells its caller: in
  `cat << E | cat` and `gen | cat << E` the other side runs all the same
  (07_pipe.c:58-62), and when the second of two documents is interrupted the command runs
  with the first (08_redirection.c:122).
- *Exit codes.* A command that is found and cannot be executed gives 127; README.md:164
  and minishell.h:38 say 126, and `EXIT_NO_INVOKE` is used nowhere.
- *HOME.* A shell started without HOME hands a null pointer to `ft_strlen()` at its first
  prompt (02_prompt.c:56); 01b_rc.c:39-41 provides for a missing HOME.
- *Records.* The graveyard has two records of one name after a suffixed daemon and then
  the base one were killed (dkill.c:62; its comment at 36-38 says that they stay unique).
- *Kill all.* dkill's "all" passes over a daemon that registered after it had read the
  registry, and empties the registry (dkill.c:190; 174 says that it kills every active
  daemon).
- *rc file.* A shell for which another made the rc file after it had looked exits; the
  comment of `create_empty_rc` says that it "silently returns" (01b_rc.c:100-101).
- *Pipes of scripts.* What `pwd`, `env`, `export`, `history`, `usage` and `help` print on
  the left of a pipe in a script never reaches it: the child's `_exit()` does not flush
  (07_pipe.c:97); README.md:131 says that a pipe carries the standard output.

And what no document speaks of:

- *Here-documents.* The word of
  a command with one, in a line with a pipe, becomes an argument of the commands of both
  sides: the document is read before the forks, so both inherit `tree_arg_value`
  (08_redirection.c:141, cleared only by 12_free.c:44; `ArgumentsOwnStage` excepts it,
  `WordWithHeredoc`). In `a | b | c << E | d << E`, Ctrl-C may end the side that runs
  `b | ...` before it ignores SIGINT, while the side below, which waits for the reader of
  the first document, ignores it already: it then makes a second `.here_doc_tmp` while the
  shell is at its next prompt. `PromptClean` therefore says nothing of that file. Each
  document costs the shell a descriptor (08b_redir_heredoc.c:29: `leak`, which
  `PromptClean` excepts). `cd dir << E` leaves `.here_doc_tmp` in the old directory
  (12_free.c:41). Two shells in one directory empty and unlink each other's document.
- *Redirections and commands.* A redirection that fails leaves `g_exit_status` alone; a
  stray word after a redirection of an outer node is executed; Ctrl-Z that arrives between a fork and `child_restore_signals` is ignored
  by that child, and a stopped grandchild of a killed side stays.
- *Variables and directories.* `cd my-dir` goes to OLDPWD and `cd a~b` to HOME, and both
  report success (09b_cd.c:71-74; 56-57 says that a tilde counts only at the start); `cd
  ~` after `unset HOME` ends the shell (09b_cd.c:112); a directory that was removed, or
  whose path has 256 characters, cannot be left (09c_pwd.c:32); `cd` without argument
  reports success when HOME is no directory (09b_cd.c:35); `cd` never updates PWD. A
  shell started without PATH finds no command by name (01a_init.c:65), and writes the
  trailing colon its comment denies (01a_init.c:57). A file that is not executable hides
  a program behind it in PATH (06b_exec_path.c:145).
- *Text.* In `echo "a" '$HOME'` the variable is replaced (03_expand.c:30;
  test_expansion.sh:52 says that single quotes prevent it).
- *Start-up and end.* A refused line of the rc file is freed twice (01c_rc_utils.c:83);
  `exit` in an rc file lets the rest of the file and one more line run (01b_rc.c:78),
  and any number of refused ones.
- *Output of scripts.* `pwd > f` comes out where the next prompt does, because the
  descriptor is moved back before the buffer is flushed; the reader of a here-document
  and a child whose `ft_open()` fails flush a copy of what the shell still has to print,
  which then comes out twice.
- *Daemons.* dkill's "all" also loses the daemons that did not fit its list
  (dkill.c:190), and the records of the graveyard hold the process id of dkill itself
  (dkill.c:83).
- *Listing.* find compares what `snprintf` wanted to write into 1024 bytes with PATH_MAX
  (find.c:94); its test of `d_type` also holds for sockets and block devices and never
  for DT_UNKNOWN; ldr descends by the `stat` of the entry before when one fails
  (ldr.c:59).

## 4. The proofs

### 4.1 Executor

The theorems hold for every value of the constants that satisfies the assumptions of
`Syntax` and `Executor`: any set of lines, any programs, any number of processes, pipes,
files and here-documents, any bounds. Two modules, the second of which EXTENDS the first:

| Module | Theorem | States |
|---|---|---|
| `ExecutorProofs` | `Invariance` | `Spec => []IInv` |
| | `TypeCorrect` | `Spec => []TypeOK` |
| | `PipesHeld` | `Spec => []PipeHeld` |
| | `ProgramsSignalled` | `Spec => []ProgramSignals` |
| | `Kinship` | `Spec => [](IInv /\ Kin)` |
| | `ChildrenMatched` | `Spec => []ChildrenAwaited` |
| | `AtHome` | `Spec => [](IInv /\ Kin /\ NoLoop /\ Home)` |
| | `HandlerKept` | `Spec => []ShellHandler` |
| | `PromptRestored` | `Spec => []PromptClean` |
| `PipeProofs` | `PipesApart` | `Spec => [](IInv /\ Home /\ Separate /\ Attached /\ Unfed)` |
| | `NoneFeedsItself` | `Spec => []NoSelfFeed` |
| | `WordsOwn` | `Spec => [](IInv /\ NoLoop /\ Home /\ Arguments)` |
| | `ArgumentsKept` | `Spec => []ArgumentsOwnStage` |
| | `Accounted` | `Spec /\ [][Enough]_vars => []Lined` |
| | `LastStatus` | `Spec /\ [][Enough]_vars => []StatusOfLast` |
| | `NobodyLeft` | `Spec /\ [][Enough]_vars => []PromptAlone` |

None of them uses a fact about liveness. Only the last three depend on what a program
does: on the status in `Prog`, which is below 256 (`StatusAssumption`: a program's status
is what `_exit()` keeps of it, a builtin returns 0 or 1).

**Stacks** (`ExecutorProofs`). The inductive invariant is `IInv == TypeOK /\ Grounded`.
`TypeOK` alone is not inductive: to know that a frame's tokens are tokens of the line,
that a `wait` has a process to wait for and that the top of a stack exists, one has to
know what may be on a stack. `PipeHeld` alone is not inductive either: a here-document on
the left of a pipe runs a subtree *above* the frames that still need `sh->pipe`, and the
proof has to know that this subtree contains no pipe of its own. `Grounded` says of each
living process

- `StackOK`: its stack is not empty; a frame that ends the process or replaces itself (a
  program, the reader of a document, the prompt, `_exit`) is the last one, and only the
  last one is; the indices of a frame are inside the line; above a frame that still
  needs `sh->pipe` no frame closes it or runs a subtree with a `|` (`KeepsPipe`;
  `parser()` splits at `|` first, so a side that is a here-document has none), and both
  ends are open (`Open`); a program's frame is on top, or only the call of
  `child_restore_signals` is above it;
- `Ready`: a process whose top frame is a program has default dispositions.

The lemmas come in three layers: what concatenating and pushing frames preserves
(`CalledConcat`, `PushOK`, `ReplaceOK`), what the kernel's operations preserve
(`ForkOK`, `EndOK`, `ExitOK`, `SetOK`, `CallOK`), and one lemma per action that cites
those.

**Children** (`ExecutorProofs`). `Kin` is `Matched`, which says of every living process
what `ChildrenAwaited` says (each child has exactly one `wait` or `fork_right` frame that
names it, and each such frame a child), and `Family`: the parent of a process lives, or
the process is an orphan. Without `Family` the induction fails at a fork: the new process
could take a slot that is still somebody's parent, and would have children it never
forked.

**The shell comes back** (`ExecutorProofs`). `PromptClean` and `ShellHandler` say what holds
after the calls of a line have returned, so what is inductive is about the frames still to
return. `ShellStack`: the stack of the shell ends in `reset` and `prompt`, a frame of
`sigint_ignore` or of a wait is followed by a wait or by `sigint_restore` and by nothing
else (`Chained`), and a pipe is closed at once when both sides are forked. `Handled`:
SIGINT is ignored, with the handler saved, exactly under a wait or a restore. `Owned`: the
only pipe open is the one in `sh->pipe`, and as long as it is there a frame that closes it
is still on the stack. `NoLoop`: no other process has the frames of the prompt, so nobody
else resets the terminal. That the shell has no child at its prompt is `Kin`: nothing on a
stack of one frame waits.

**No process feeds itself** (`PipeProofs`). A program that reads a pipe whose write end it
also holds would never see the end of its input. A write end may be open in three
places. `Separate` is about the process itself, `Attached` about descriptors 0 and 1 of
the shell, which are a pipe only between the `dup2` calls of `pipe_heredoc()`, and `Unfed`
about the `sh->pipe` of the shell, which forked the reader: nobody reads what the shell
may write, but when it is about to close it. `Bracketed` is what makes `pipe_heredoc()`
put back what it moved: between its two `dup2` there is the one node it runs, on the right
a here-document, whose first act is to put the terminal back in descriptor 0 (`Excused`).

**Arguments** (`PipeProofs`). `tree_arg_value` is one variable of the process, and the
next command adds it to its own words. `Args` says why that command is of the same stage
of the line: while a word is pending, every node left to do is of its stage and no handler
of a pipe is on the stack (`Pending`); outside the handlers of a pipe all nodes left are
of one stage (`OneStage`); inside them the only nodes are here-documents (`PipeNodes`),
and no node waits behind a fork (`SidesLast`). The exception is
needed: in a line with a pipe, a second word of a stage with a here-document goes to both
sides (`WordWithHeredoc`, 3.3).

**The status of a line** (`PipeProofs`). `StatusOfLast` compares the prompt with the line
it has run: `$?` is the status of the command of the last stage, found from the tokens
alone. In between, that status is made in one process and handed up by others, each of
which waits for both sides of its pipe, the right one last, or for its one program, and
leaves with what it got.
The theorems suppose that `ft_fork()` and `ft_pipe()` succeed (`Enough`: no step is
`OutOfResources`), because without that both are false: a right side that cannot fork
exits with 1, which becomes the status of the line, and what it had forked already runs
on while the shell is at its next prompt. TLC shows that with the lines of `endings` and
without a key. With a key both properties say nothing (`nsig = 0`). Two inductive
invariants, over those above:

- `Company`, for as long as no key was typed: no process is stopped and none is an
  orphan (`NoOrphan`); no set of processes only waits within itself (`Rooted`), so that
  every process hangs from the shell; all have the shell's line (`SameLine`); a process
  that is about to open a document finds one (`DocThere`); and a frame that waits has
  nothing above it but the steps of a wait (`WaitsOnTop`), so a process that does
  anything else has no child. At the prompt, then, nobody is left (`NobodyLeft`).
- `Spine`: while a line is run, there is a set of living processes with the shell in it,
  each of which is `Good`. It `Pays`: some frame of its stack `Delivers` the status due,
  and each frame after that is `Neutral`, that is, leaves `g_exit_status` alone. A frame
  delivers when it runs the last command or a subtree that has it (`Earns`), or when it
  translates the wait status of a process that is itself in the set, or has ended with
  the status due (`Reports`), or goes on after a document that a scribe writes
  (`Continues`). The set grows when one of them forks its right side, and a process
  leaves it only by ending with the status due (`GoodEnds`). None of them ends earlier:
  it writes to no pipe that nobody reads (`OutOK`, `NoBrokenPipe`, with `Separate`), its
  redirections open (`Openings`), and it does not run a left side.

The set is needed because the status passes through as many processes as the line has
stages, in any order of their ends: no property of one process is inductive. What joins
it to the tokens is `LineShaped`: in a line with one command in each stage, the last
stage is what follows the last `|`, a `<` or `>` after it has its file, and so the
subtree that the code takes for the right side has the last command (`Carries`). The
status is translated once per process, which is where it has to be below 256.

### 4.2 Environment

`EnvironmentProofs` holds for any names, directories, starting environments, argument
lists, rc lines and numbers of commands that satisfy `EnvironmentAssumption` and
`EnvpAssumption`.

| Theorem | States |
|---|---|
| `EnvironmentInvariance` | `Spec => []IInv` |
| `EnvironmentTyped` | `Spec => []TypeOK` |
| `NamesStayUnique` | `Spec => []UniqueNames` |
| `TwoCopiesAgree` | `Spec => []CopiesAgree` |
| `HomeStays` | `Spec => PromptHasHome` |
| `OldPwdRecorded` | `Spec => OldPwdFollows` |
| `FoundAsGivenHolds` | `Spec => FoundAsGiven` |
| `ListImplementsVariables` | `Spec => ImplementsVariables` |

`IInv == TypeOK /\ UniqueNames /\ CopiesAgree` is inductive as a whole;
`CopiesAgree` alone is not, because `export` writes the first node of a name and a
second one would keep the old value. With unique names each operation on the list is an
assignment to the function `Lookup`: `LookupAdd` (appending or overwriting sets one
name, or declares it) and `LookupUnset` (cutting a node out of the sequence removes one
name and shifts the rest). Every action then needs only those two lemmas, once for the
invariant and once for the abstract step (`StepOK`), and the refinement follows without
a history or prophecy variable. `HomeStays` is an action property, so it needs no
assumption about the environment the shell is started with: no step takes a name out of
`environ` (`HomeStep`).

`FoundAsGivenHolds` needs more than `IInv`: between the search and `execve()` the result
is only a word in `todo`, and what it says of PATH must survive the steps of others.
`LookupInv` adds `SearchOK` (a result is in the PATH the program will be given, with
nothing before it but directories that others make and remove, and no result means that
the others have no such file) and that the directories nobody touches are there. That
`Given(Path)` has at most one value (`GivenIs`) is `UniqueNames` once more.

### 4.3 Daemons

`DaemonsProofs` holds for any numbers of process ids, tools, starts and lines of dkill's
list.

| Theorem | States |
|---|---|
| `RegistryUniqueHolds` | `Spec => []RegistryUnique` |
| `FilesKeptHolds` | `Spec => FilesKept` |
| `DaemonsTyped` | `Spec => []TypeOK` |
| `RegisteredHolds` | `Spec => []Registered` |
| `ReportedHolds` | `Spec => []Reported` |

While nobody has `raced`, line `i` of the registry has the suffix `i - 1` (`Numbered`),
from which the names differ. To keep that, the count a dspawn has read must still be the
length of the registry when it appends (`Counted`), which is what another writer in
between destroys; `NInv` is the two of them, under `~raced`, with the types. Every line
counts, because each name begins with the base name (`CountAll`). `Made` says that a tool
makes the files in order and that what is made stays, so that two tools in any
interleaving find them (`FilesKept`).

`DaemonsTyped` needs `ToolOK`: what `dkill` has left to kill are lines of the list it
read, and the line it is at is one of them. `Registered` and `Reported` rest on `WInv`:
each daemon that works has a line or is `late` (`Lined`), and each tool `Sees` what it
read as it still is. For `dkill` (`Chases`) the lines it has not come to are those of all
daemons of its list that still work, so that none of these works when it truncates: only
the others lose a line. For `dcheck` (`Surveys`) each line before its own of a daemon that
worked all along was found active. No theorem supposes anything of how many tools run at
once, how many daemons there are, or whether they fit dkill's list.

### 4.4 Shells

`ShellsProofs` holds for any shells and directories, any rc files, any lines and any
bounds on them.

| Theorem | States |
|---|---|
| `TypeCorrect` | `Spec => []TypeOK` |
| `FlagObeyed` | `Spec => []FlagAtPrompt` |
| `TextFreed` | `Spec => []TextFreedOnce` |
| `DocumentOwned` | `Spec => []OwnDocument` |
| `RcKeptHolds` | `Spec => RcKept` |
| `DirectoriesTidy` | `Spec => []NothingLeft` |
| `HistoryKept` | `Spec => []HistoryAsTyped` |

`IInv` is `TypeOK` with three parts. `Life` ties the fields of one shell to the place it
is at: where its lines come from, whether it holds a text, which descriptor of a
document is open. `RcMade`: while a shell is about to write the header, the rc file is
the empty one it made or already has the header: the user writes a file only where there
is none. `Own` is what `OwnDocument` needs: while nobody has disturbed a shell, the
directory has no document when it comes to create one; from then on the inode holds
exactly the lines of that shell, no other shell has it open for writing and no other
directory has a name for it (`Mine`). `OwnDocument` alone is not inductive: that the
lines are right when the command reads them says nothing about who else could still
write to the inode before. The steps of the other shells are the point of the proof: one
that creates a document in the same directory takes the old inode, and with it makes the
first shell disturbed; one in another directory takes an inode that no name and no
descriptor refers to.

`NothingLeft` speaks of the end, when all shells have gone. What is inductive is `Tidy`:
until a shell goes elsewhere with a document, is killed or fails (`Strays`), each document
in a directory has a shell of that directory that is between making it and its next
`reset_data()` (`Attended`); it need not be the one that made it. `HistoryAsTyped` becomes
inductive as `Recorded`: the entries are as many as the lines counted by `Place`, the
index is their number, and entry `Place(lines, i)` is line `i`. `Place` is a cardinality,
not a filter of the sequence, so that appending a line needs no induction.

### 4.5 Walk

`WalkProofs` holds for any trees that satisfy `WalkAssumption`, also with links that lead
back up or nowhere, and for any names, limits and numbers of changes.

| Theorem | States |
|---|---|
| `ListedOrAwaited` | `Spec => []Inv` |
| `ListedOnce` | `Spec => []EachOnce` |

A call on the stack `Awaits` the paths below its own whose next name it has not read yet.
That nothing is listed twice is `Once`: no call awaits what was listed; it needs `Spine`,
that each call is for a name that the calls below it have already read. That everything
is listed is `Cover`: what was asked for is listed or awaited, so that with an empty stack
it is listed. For that the call that awaits something must be able to open its
directory, and its entry must be the one the reference means: `Match` (a call with the
path of a directory of `Levels` has its node and its number of links), `LeftStays` (what
has been read and stayed is what was there at the start), `StayKids` and `NoIslands`
(what stayed is still there, and what is not in the tree is empty, so that a directory
with something in it is still reached), and `Counted` (as many directories are open as
there are calls, so one on the way to what is asked for does not meet `MaxOpen`). A call
of ldr for what is no directory, which it makes after a `stat` that failed, awaits
nothing (`Dead`). Once a path was cut only `Grounded` holds, and nothing is promised;
until then an entry is what its path leads to (`FoundStays`, `TurnFits`).

The reference is a recursive function, `Depth`. That there is such a function, and what it
gives, is proved by `Induction`, which is about a set of numbers and not about a formula:
a set with 0 and with `k + 1` for each `k` in it has all of them (from the well-foundedness
of `<`). `DepthStepwise` uses it for the existence, `OnTheWay` for the directories above
one of `Levels`, `LevelsShrink` for what a change of the tree does to them.

### 4.6 Text

`TextProofs` holds for any lines, variables and alphabet that satisfy `TextAssumption`
(the characters that mean something are characters, a zero byte is none).

| Theorem | States |
|---|---|
| `TokensFitHolds` | `Spec => []TokensFit` |

The array of tokens is sized by one pass and written by another, and so is each token.
The invariant is `Fitting`: while `cmd_modifier()` cuts, the tokens there are and those
`count_token()` finds from its position on are together the entries of the array
(`LeftToCut`), and each token is as long as its room at most (`Token`). The step is that
the two passes end a token at the same place, `TokenEnd`, which is always further on
(`TokenEndIs`): then one token more is there and one less is counted (`CutFits`). What
makes it true are the spaces: `cmd_modifier()` stops at a text of nothing but spaces, for
which `count_token()` has counted one more, so that an entry can stay free but none is
missing. The lengths are `PipeToken`, `WordToken` and `RedirToken`; the last is where the
space that is inserted must have been counted. The steps of `expand()` only have to
leave a text behind, whatever its pointers do.

`Skip` and `CountFrom` are recursive functions: that they exist (`SkipExists`,
`CountExists`) and what they return (`SkipIs`, `CountIs`) is proved with `Induction`, as
for `Walk`.

### 4.7 Printing

`PrintingProofs` holds for any rc file, any lines typed and a buffer of any size.

| Theorem | States |
|---|---|
| `PrintedOnceHolds` | `Spec => []PrintedOnce` |
| `PrintedThereHolds` | `Spec => []PrintedThere` |

`PrintedOnce` speaks of the moments when a prompt is shown or the shell has ended. In
between, the shell's buffer and the copies its children got of it hold the same units, so
the invariant says where a unit of the shell is at any time. `Placed`: it is once in the
shell's own buffer and nowhere else, or it has come out, once and in one place, and is
not in that buffer. `Kept` says this of every unit that no child has brought out of its
copy (`copied`). `Shown`: in the phases in which a prompt stands, no call of the shell
is left and its buffer is empty; only there does `Placed` become `PrintedOnce`. `Output`
bounds the numbers of all units there are, so a new one is nowhere yet (`UnitIs`).

A step moves a part of a buffer to a place. `PlacedMoves` is the case of the shell: what
was in the buffer, with what is added, goes in part. `PlacedApart` is the case of a
child: what goes does not contain the unit, else it were `copied`. They rest on what a
concatenation contains never and once (`NeverConcat`, `OnceConcat`). That a child ends by
`_exit()` is `CopyKept`: its copy is dropped, so nothing comes out.

`PrintedThere` is about where a unit comes out, so its invariant (`There`) is about
descriptor 1 of each process at each call it has still to make:

- `Tidy` relates the calls of the processes to each other and to the descriptors. A
  stack of calls is a `Chain`: each call may stand before the next (`Follows`), belongs
  to the process (`Belonging`: the shell itself runs only sides with a here-document,
  or a line without a pipe), and never comes before one that is behind it (`Rank`).
  `Where`: a redirection finds the descriptor where the side starts, a command where its
  output belongs, a fork that has commands in the child finds the standard output.
  `Children`: the shell waits while one runs. The calls a line starts with are a chain
  (`LineCallsIs`), and it stays one when a call returns (`TailIs`) or when a handler
  drops the rest of its side (`DroppedIs`, on the least index of another side).
- `Modes` and `OnLine` are the session at a terminal. A process buffers by what it was
  forked with, by the line here, so its buffer is always empty and a unit is where the
  descriptor is, which by `Where` is where it belongs.
- `Pending` is the script. A unit the shell prints for the standard output has come out,
  or it is in the shell's buffer and the calls that are left are `Calm`: none moves the
  descriptor away or makes the shell forget it, so that the flush at the prompt finds
  the descriptor where it should be. That is where a line with two here-documents falls
  out: after the left one was refused, the right one may still be redirected
  (`CalmDropping`). A refused redirection with a document, after which the command goes
  on, leaves the descriptor at the standard output (`CalmRedirect`), and `GoesIs` says
  that such a side has `Goes` the terminal.

### 4.8 Only model-checked

- All liveness: the prover treats neither fairness nor ENABLED.
- `Delivered` of `Executor`: it counts what all the programs of a line put out, which
  takes an induction over the stages and over what was written and read so far.
- `WordsAsQuoted` and `ExpandsAsQuoted` of `Text`: they say that four passes with their
  own recursive functions agree with a reading by another one, and both build texts by
  concatenation. The library's induction theorems take an operator, which the installed
  provers cannot instantiate; the set form of it (`Induction`, 4.5) is open.

## 5. The plan

Done: `Syntax`, `Executor` with its runs, and two modules of theorems that prove all its
invariants but `Delivered`; `Daemons` with its run, and all its properties proved; `Environment`
with its run, its abstract specification `Variables`, the invariants and the refinement
proved, and the search for a program; `Shells` with its run, and all its properties
proved; `Walk` with its run and its invariant proved; `Text` with its runs,
and the rooms of its two passes proved; `Printing` with its run, and its two
invariants proved.

Left open:

1. A theorem for `Delivered`: how many units are in each pipe and each program of a plain
   pipeline, as one sum that no step changes.
2. An abstract shell, `Line`: a line is read and has an outcome; `Executor` without
   here-documents on the left of a pipe implements it. With `StatusOfLast` proved, what
   is missing is the output.

*Not modelled*, and why:

- `backup` and `sys`: sequential programs without shared state. `backup` forks one `tar`
  and waits for it, `sys` prints what the system says of itself; `ensure_archive_dir` is
  a part of `backup`.
- `libft`: a vendored library of string functions, taken at its word; `perms.c` and the
  formats of all messages: no property depends on how things look.
- What the daemon writes to its log (`daemon_log.c`): one line per turn of an endless
  loop, under `flock`.
- Failures of allocations and of `init_root`: each ends the program with a message.
- `tests`, `scripts` and the build: read as a reference for what is expected.
