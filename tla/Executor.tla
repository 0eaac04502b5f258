------------------------------ MODULE Executor ------------------------------
(***************************************************************************)
(* The prompt loop and the executor of minishell, with the processes it    *)
(* forks: 02_prompt.c, 06_execute.c, 07_pipe.c, 08*_redirection.c,         *)
(* 08b_heredoc_utils.c, 09_builtin.c, 11*_signal.c, 12_free.c and the      *)
(* wrappers of common/.                                                    *)
(*                                                                         *)
(* Every process runs a stack of frames, todo[p]: what is left of the C    *)
(* calls it is in.  A handler of the code is one action that replaces the  *)
(* top frame by the frames of the calls it makes; a call that blocks       *)
(* (waitpid, read, write, readline) or that another process can observe    *)
(* half-done (fork, then the signal dispositions) is a frame of its own.   *)
(*                                                                         *)
(* The programs that are executed are external: they copy, produce or      *)
(* refuse input in units, by the table Prog.                               *)
(*                                                                         *)
(* AwaitUnderIgnore, AwaitRightFirst, AwaitLeftTwice, ChildRestoreSigint,  *)
(* ResetFileOnly, ForkLeftAndClose, LeftChildKeepsEnd, RightChildKeepsEnd, *)
(* KeptAlways, EchoToPipe and HeredocOpenAnyway are no part of the         *)
(* specification: each is the definition that follows it with a plausible  *)
(* mistake in it, and the run of a property must fail when it takes that   *)
(* definition's place.                                                     *)
(***************************************************************************)
EXTENDS Syntax

CONSTANTS Pid,        \* process slots
          Shell,      \* the interactive shell
          Nobody,     \* no process: the parent of an orphan
          PipeId,     \* kernel pipes
          NoPipe,     \* a closed entry of sh->pipe (0 in the code)
          File,       \* the files that redirections name
          Existing,   \* those that exist before the first line
          Denied,     \* those that exist and that open() refuses
          Doc,        \* inodes that .here_doc_tmp may be
          NoDoc,      \* .here_doc_tmp does not exist
          Tty,        \* the terminal
          Lines,      \* the lines the user may type
          Prog,       \* what the program of each word does
          Cap,        \* units a kernel pipe holds
          Keys,       \* the signal keys the user has: "int", "quit", "stop"
          MaxLines,   \* bound: lines typed
          MaxDoc,     \* bound: lines of a here-document
          MaxSig      \* bound: signals typed

ASSUME ProcessAssumption == Shell \in Pid /\ Nobody \notin Pid
ASSUME ObjectAssumption ==
  /\ NoPipe \notin PipeId /\ NoDoc \notin Doc
  /\ File \subseteq Word /\ Denied \subseteq Existing /\ Existing \subseteq File
  /\ Tty \notin PipeId \cup File \cup Doc
  /\ PipeId \cap (File \cup Doc) = {} /\ File \cap Doc = {}
ASSUME LineAssumption ==
  /\ Lines \subseteq Seq(Token)
  /\ \A line \in Lines : \A i \in DOMAIN line :
       line[i].c = ">" => line[i].w \in File \cup {NoWord}
  /\ Keys \subseteq {"int", "quit", "stop"}
  /\ Cap \in Nat /\ MaxLines \in Nat /\ MaxDoc \in Nat /\ MaxSig \in Nat

(* "echo", "exit" and "builtin" run inside the shell (builtin() in         *)
(* 09_builtin.c); the others are executed, "none" is not found.            *)
BuiltinKind == {"echo", "exit", "builtin"}
ProgramKind == {"emit", "copy", "head", "status", "sleep"}
ASSUME ProgAssumption ==
  Prog \in [Word -> [k : BuiltinKind \cup ProgramKind \cup {"none"}, n : Nat]]

(* A status is what _exit() keeps of it; the builtins return 0 or 1. *)
ASSUME StatusAssumption ==
  \A w \in Word : Prog[w].k \in {"status", "builtin"} => Prog[w].n < 256

VARIABLES
  st,      \* "none", "run", "stop" or "zombie"
  par,     \* the parent
  todo,    \* the stack of frames, the running one first
  fd,      \* the file descriptors
  mem,     \* the shell's memory, copied by fork
  sig,     \* the signal dispositions
  ws,      \* what waitpid will report of a zombie
  data,    \* units in each pipe, file and here-document; shown on the terminal
  present, \* the files that exist
  tmp,     \* the inode that .here_doc_tmp names, or NoDoc
  tty,     \* which of sh->previous and sh->current the terminal has
  nlines, nsig

procs == <<st, par, ws>>
disk == <<data, present, tmp>>
user == <<tty, nlines, nsig>>
vars == <<procs, todo, fd, mem, sig, disk, user>>

Object == {Tty} \cup PipeId \cup File \cup Doc

(***************************************************************************)
(* Process state.                                                          *)
(***************************************************************************)
(* in, out: what descriptors 0 and 1 refer to.  rd, wr: the pipes whose    *)
(* read or write end is open in another descriptor.  leak: descriptors of  *)
(* .here_doc_tmp that nothing will close.                                  *)
Descriptors ==
  [in : Object, out : Object, rd : SUBSET PipeId, wr : SUBSET PipeId, leak : Nat]
Closed == [in |-> Tty, out |-> Tty, rd |-> {}, wr |-> {}, leak |-> 0]

(* r, w: sh->pipe.  arg: the token sh->tree_arg_value points to, 0 for     *)
(* NULL.  g: g_exit_status.  exit: sh->exit_cmd_flag.  line: the tokens.   *)
Memory ==
  [r : PipeId \cup {NoPipe}, w : PipeId \cup {NoPipe}, arg : Nat, g : Nat,
   exit : BOOLEAN, line : Lines \cup {<<>>}]
Blank ==
  [r |-> NoPipe, w |-> NoPipe, arg |-> 0, g |-> 0, exit |-> FALSE, line |-> <<>>]

(* int: SIGINT's disposition; job: that of SIGQUIT and SIGTSTP, which the  *)
(* code always changes together; old: the sa_old of the one sigint_ignore  *)
(* that a process may be under.                                            *)
Disposition == {"handler", "default", "ignore", "heredoc"}
Signals == [int : Disposition, job : {"ignore", "default"}, old : Disposition]
ShellSignals == [int |-> "handler", job |-> "ignore", old |-> "default"]
DefaultSignals == [int |-> "default", job |-> "default", old |-> "default"]

FrameOp ==
  {"prompt", "reset", "bst", "echo", "ignore", "wait", "restore",
   "heredoc_left", "heredoc_left_end", "heredoc_right", "heredoc_right_end",
   "fork_left", "fork_right", "close_pipe", "child", "left", "right", "_exit",
   "heredoc_open", "heredoc_child", "heredoc_input", "exec", "put"}
  \cup ProgramKind

(* lo, hi: the subtree, or for a program its command and argument tokens.  *)
(* ref: a process or a here-document.  n: units done, for a program.       *)
Frame ==
  [op : FrameOp, lo : Nat, hi : Nat, ref : Pid \cup Doc \cup {Nobody}, n : Nat]
On(op, lo, hi, ref) == [op |-> op, lo |-> lo, hi |-> hi, ref |-> ref, n |-> 0]
Do(op) == On(op, 0, 0, Nobody)

(* recurse_bst(NULL) returns at once. *)
Bst(lo, hi) == IF lo > hi THEN <<>> ELSE <<On("bst", lo, hi, Nobody)>>

Top(p) == Head(todo[p])
At(p, op) == st[p] = "run" /\ Top(p).op = op
Return(p, frames) == [todo EXCEPT ![p] = frames \o Tail(@)]

KindAt(p) == Kind(mem[p].line, Top(p).lo, Top(p).hi)
RootAt(p) == Root(mem[p].line, Top(p).lo, Top(p).hi)
RootToken(p) == mem[p].line[RootAt(p)]
LeftKind(p) == Kind(mem[p].line, Top(p).lo, RootAt(p) - 1)
RightKind(p) == Kind(mem[p].line, RootAt(p) + 1, Top(p).hi)
LeftBst(p) == Bst(Top(p).lo, RootAt(p) - 1)
RightBst(p) == Bst(RootAt(p) + 1, Top(p).hi)

(* The command of a COMMAND node, or of a program's frame. *)
Command(p) == mem[p].line[Top(p).lo].w
CommandKind(p) == Prog[Command(p)].k

(***************************************************************************)
(* fork, exit and waitpid.                                                 *)
(***************************************************************************)
FreePid == {q \in Pid \ {Shell} : st[q] = "none"}

(* fork() succeeds: the child inherits descriptors, memory and             *)
(* dispositions and runs `child`, the parent goes on with `parent`.        *)
Fork(p, c, child, parent) ==
  /\ c = CHOOSE q \in FreePid : TRUE
  /\ st' = [st EXCEPT ![c] = "run"]
  /\ par' = [par EXCEPT ![c] = p]
  /\ todo' = [Return(p, parent) EXCEPT ![c] = child]
  /\ fd' = [fd EXCEPT ![c] = fd[p]]
  /\ mem' = [mem EXCEPT ![c] = mem[p]]
  /\ sig' = [sig EXCEPT ![c] = sig[p]]
  /\ UNCHANGED ws

(* The processes in DOMAIN status end, with these wait statuses: their     *)
(* descriptors are closed, their children are orphans (reaped by init when *)
(* they end), and each stays a zombie while its parent lives.              *)
End(status) ==
  LET dead == DOMAIN status
      zombies == {q \in dead : par[q] \notin dead \cup {Nobody}}
  IN  /\ st' = [q \in Pid |->
                  IF q \in zombies THEN "zombie"
                  ELSE IF q \in dead THEN "none"
                  ELSE IF par[q] \in dead /\ st[q] = "zombie" THEN "none"
                  ELSE st[q]]
      /\ par' = [q \in Pid |-> IF par[q] \in dead THEN Nobody ELSE par[q]]
      /\ ws' = [q \in Pid |-> IF q \in zombies THEN status[q]
                              ELSE IF par[q] \in dead THEN 0 ELSE ws[q]]
      /\ todo' = [q \in Pid |-> IF q \in dead THEN <<>> ELSE todo[q]]
      /\ fd' = [q \in Pid |-> IF q \in dead THEN Closed ELSE fd[q]]
      /\ mem' = [q \in Pid |-> IF q \in dead THEN Blank ELSE mem[q]]
      /\ sig' = [q \in Pid |-> IF q \in dead THEN DefaultSignals ELSE sig[q]]

Exited(code) == (code % 256) * 256
Killed(signum) == signum
SIGINT == 2
SIGQUIT == 3
SIGKILL == 9
SIGPIPE == 13

Exit(p, status) == End([q \in {p} |-> status])

(* exit_status() of 09h_exit.c on a wait status. *)
ExitStatus(status) ==
  IF status % 128 = 0 THEN (status \div 256) % 256
  ELSE IF status % 256 # 127 THEN 128 + (status % 128)
  ELSE 0

Reapable(p) == st[Top(p).ref] = "zombie"

(* waitpid(child, &g_exit_status, WUNTRACED) finds the child ended; ft_kill *)
(* then does nothing.                                                      *)
WaitEnded(p) ==
  /\ At(p, "wait") /\ Reapable(p)
  /\ LET c == Top(p).ref
     IN  /\ mem' = [mem EXCEPT ![p].g = ws[c]]
         /\ st' = [st EXCEPT ![c] = "none"]
         /\ par' = [par EXCEPT ![c] = Nobody]
         /\ ws' = [ws EXCEPT ![c] = 0]
  /\ todo' = Return(p, <<>>)
  /\ UNCHANGED <<fd, sig, disk, user>>

(* waitpid finds the child stopped: ft_kill kills it and waits again, with *)
(* no WUNTRACED, for what WaitEnded then reports.                          *)
WaitStopped(p) ==
  /\ At(p, "wait") /\ st[Top(p).ref] = "stop"
  /\ Exit(Top(p).ref, Killed(SIGKILL))
  /\ UNCHANGED <<disk, user>>

SigintIgnore(p) ==
  /\ At(p, "ignore")
  /\ sig' = [sig EXCEPT ![p].old = sig[p].int, ![p].int = "ignore"]
  /\ todo' = Return(p, <<>>)
  /\ UNCHANGED <<procs, fd, mem, disk, user>>

(* sigint_restore(), and the translation of the wait status after it. *)
SigintRestore(p) ==
  /\ At(p, "restore")
  /\ sig' = [sig EXCEPT ![p].int = sig[p].old, ![p].old = "default"]
  /\ mem' = [mem EXCEPT ![p].g = ExitStatus(@)]
  /\ todo' = Return(p, <<>>)
  /\ UNCHANGED <<procs, fd, disk, user>>

(* Wait for c as every caller does: sigint_ignore, waitpid, ft_kill,       *)
(* sigint_restore, exit_status.                                            *)
AwaitUnderIgnore(c) ==
  <<Do("ignore"), Do("ignore"), On("wait", 0, 0, c), Do("restore")>>
Await(c) == <<Do("ignore"), On("wait", 0, 0, c), Do("restore")>>

(* The same for the two sides of a pipe, the left one first. *)
AwaitRightFirst(l, r) ==
  <<Do("ignore"), On("wait", 0, 0, r), On("wait", 0, 0, l), Do("restore")>>
AwaitLeftTwice(l, r) ==
  <<Do("ignore"), On("wait", 0, 0, l), On("wait", 0, 0, l), Do("restore")>>
AwaitBoth(l, r) ==
  <<Do("ignore"), On("wait", 0, 0, l), On("wait", 0, 0, r), Do("restore")>>

(* child_restore_signals(), the first call of a child. *)
ChildRestoreSigint(p) ==
  /\ At(p, "child")
  /\ sig' = [sig EXCEPT ![p].int = "default"]
  /\ todo' = Return(p, <<>>)
  /\ UNCHANGED <<procs, fd, mem, disk, user>>
ChildRestoreSignals(p) ==
  /\ At(p, "child")
  /\ sig' = [sig EXCEPT ![p].int = "default", ![p].job = "default"]
  /\ todo' = Return(p, <<>>)
  /\ UNCHANGED <<procs, fd, mem, disk, user>>

(***************************************************************************)
(* The prompt loop.                                                        *)
(***************************************************************************)
(* prompt() and lexer_paser_exec(): a line is read, expanded, split and    *)
(* parsed, the terminal is set back to sh->previous, recurse_bst runs.     *)
ReadLine(p) ==
  /\ At(p, "prompt") /\ nlines < MaxLines
  /\ \E line \in Lines :
       /\ mem' = [mem EXCEPT ![p].line = line]
       /\ todo' = [todo EXCEPT ![p] = Bst(1, Len(line)) \o <<Do("reset")>> \o @]
  /\ tty' = "previous"
  /\ nlines' = nlines + 1
  /\ data' = [data EXCEPT ![Tty] = 0]
  /\ UNCHANGED <<procs, fd, sig, present, tmp, nsig>>

(* readline() returns NULL: the loop ends and main returns g_exit_status. *)
EndOfInput(p) ==
  /\ At(p, "prompt")
  /\ Exit(p, Exited(mem[p].g))
  /\ UNCHANGED <<disk, user>>

(* reset_data(), then the test of exit_cmd_flag. *)
ResetFileOnly(p) ==
  /\ At(p, "reset")
  /\ tty' = "current"
  /\ tmp' = NoDoc
  /\ IF mem[p].exit
       THEN Exit(p, Exited(mem[p].g))
       ELSE /\ todo' = Return(p, <<>>)
            /\ UNCHANGED <<procs, fd, mem, sig>>
  /\ UNCHANGED <<data, present, nlines, nsig>>
ResetData(p) ==
  /\ At(p, "reset")
  /\ tty' = "current"
  /\ tmp' = NoDoc
  /\ IF mem[p].exit
       THEN Exit(p, Exited(mem[p].g))
       ELSE /\ fd' = [fd EXCEPT ![p].in = Tty, ![p].out = Tty]
            /\ mem' = [mem EXCEPT ![p].arg = 0]
            /\ todo' = Return(p, <<>>)
            /\ UNCHANGED <<procs, sig>>
  /\ UNCHANGED <<data, present, nlines, nsig>>

(***************************************************************************)
(* exec_cmd(): a builtin, or fork and execve.                              *)
(***************************************************************************)
Builtin(p) == At(p, "bst") /\ KindAt(p) = "COMMAND" /\ CommandKind(p) \in BuiltinKind
External(p) == At(p, "bst") /\ KindAt(p) = "COMMAND" /\ CommandKind(p) \notin BuiltinKind

(* builtin(): echo writes to descriptor 1 (Writes), exit sets the flag and *)
(* keeps g_exit_status or takes its argument (0 stands for none), any      *)
(* other builtin only has a status here.                                   *)
ExecBuiltin(p) ==
  /\ Builtin(p)
  /\ LET n == Prog[Command(p)].n
     IN  CASE CommandKind(p) = "echo" -> UNCHANGED mem
           [] CommandKind(p) = "exit" -> mem' = [mem EXCEPT ![p].exit = TRUE,
                                                     ![p].g = IF n = 0 THEN @ ELSE n]
           [] OTHER -> mem' = [mem EXCEPT ![p].g = n]
  /\ todo' = Return(p, IF CommandKind(p) = "echo" THEN <<Do("echo")>> ELSE <<>>)
  /\ UNCHANGED <<procs, fd, sig, disk, user>>

(* The child restores the signals and execs; the parent ignores SIGINT     *)
(* only after the fork, and waits.  The frame of the program keeps the     *)
(* command token and, when cmd_join adds its words, the argument token.    *)
ExecCmd(p) ==
  /\ External(p)
  /\ \E c \in FreePid :
       Fork(p, c, <<Do("child"), On("exec", Top(p).lo, mem[p].arg, Nobody)>>,
            Await(c))
  /\ UNCHANGED <<disk, user>>

(* execve() succeeds: caught signals become default, ignored ones stay. *)
Execve(p) ==
  /\ At(p, "exec") /\ CommandKind(p) # "none"
  /\ todo' = Return(p, <<On(CommandKind(p), Top(p).lo, Top(p).hi, Nobody)>>)
  /\ sig' = [sig EXCEPT ![p].int =
               IF @ \in {"handler", "heredoc"} THEN "default" ELSE @]
  /\ UNCHANGED <<procs, fd, mem, disk, user>>

(* execve() fails: the message goes to the terminal, _exit(EXIT_NO_CMD). *)
CommandNotFound(p) ==
  /\ At(p, "exec") /\ CommandKind(p) = "none"
  /\ Exit(p, Exited(127))
  /\ UNCHANGED <<disk, user>>

(***************************************************************************)
(* 07_pipe.c.                                                              *)
(***************************************************************************)
Readers(q) == {p \in Pid : fd[p].in = q \/ q \in fd[p].rd}
Writers(q) == {p \in Pid : fd[p].out = q \/ q \in fd[p].wr}
FreePipe == {q \in PipeId : Readers(q) = {} /\ Writers(q) = {}}

PipeError(p) == RootToken(p).n > 1 \/ LeftKind(p) = "NULL" \/ RightKind(p) = "NULL"

(* pipe_handler() refuses "||" (status 258) and a missing side (no status). *)
PipeSyntaxError(p) ==
  /\ At(p, "bst") /\ KindAt(p) = "PIPE" /\ PipeError(p)
  /\ mem' = [mem EXCEPT ![p].g = IF RootToken(p).n > 1 THEN 258 ELSE @]
  /\ todo' = Return(p, <<>>)
  /\ UNCHANGED <<procs, fd, sig, disk, user>>

(* ft_pipe(sh->pipe), then pipe_heredoc() for the sides that are           *)
(* here-documents, then pipe_child_process().                              *)
PipeHandler(p) ==
  /\ At(p, "bst") /\ KindAt(p) = "PIPE" /\ ~PipeError(p)
  /\ \E q \in FreePipe :
       /\ q = CHOOSE r \in FreePipe : TRUE
       /\ fd' = [fd EXCEPT ![p].rd = @ \cup {q}, ![p].wr = @ \cup {q}]
       /\ mem' = [mem EXCEPT ![p].r = q, ![p].w = q]
       /\ data' = [data EXCEPT ![q] = 0]
  /\ LET node(op) == <<On(op, Top(p).lo, Top(p).hi, Nobody)>>
     IN  todo' = Return(p,
           (IF LeftKind(p) = "HEREDOC"
              THEN node("heredoc_left") \o LeftBst(p) \o node("heredoc_left_end")
              ELSE <<>>) \o
           (IF RightKind(p) = "HEREDOC"
              THEN node("heredoc_right") \o RightBst(p) \o node("heredoc_right_end")
              ELSE <<>>) \o
           node("fork_left"))
  /\ UNCHANGED <<procs, sig, present, tmp, user>>

(* The dup2 calls of pipe_heredoc() around recurse_bst(). *)
PipeHeredoc(p) ==
  /\ \/ /\ At(p, "heredoc_left")
        /\ fd' = [fd EXCEPT ![p].out = mem[p].w]
     \/ /\ At(p, "heredoc_left_end")
        /\ fd' = [fd EXCEPT ![p].out = Tty]
     \/ /\ At(p, "heredoc_right")
        /\ fd' = [fd EXCEPT ![p].in = mem[p].r]
     \/ /\ At(p, "heredoc_right_end")
        /\ fd' = [fd EXCEPT ![p].in = Tty]
  /\ todo' = Return(p, <<>>)
  /\ UNCHANGED <<procs, mem, sig, disk, user>>

(* A side that is a here-document has been run by the parent: its child    *)
(* only exits.                                                             *)
Side(p, kind, op) ==
  IF kind = "HEREDOC" THEN <<Do("child"), Do("_exit")>>
  ELSE <<Do("child"), On(op, Top(p).lo, Top(p).hi, Nobody), Do("_exit")>>

ForkLeftAndClose(p) ==
  /\ At(p, "fork_left")
  /\ \E c \in FreePid :
       Fork(p, c, Side(p, LeftKind(p), "left"),
            <<Do("close_pipe"), On("fork_right", Top(p).lo, Top(p).hi, c)>>)
  /\ UNCHANGED <<disk, user>>
ForkLeft(p) ==
  /\ At(p, "fork_left")
  /\ \E c \in FreePid :
       Fork(p, c, Side(p, LeftKind(p), "left"),
            <<On("fork_right", Top(p).lo, Top(p).hi, c)>>)
  /\ UNCHANGED <<disk, user>>

ForkRight(p) ==
  /\ At(p, "fork_right")
  /\ \E c \in FreePid :
       Fork(p, c, Side(p, RightKind(p), "right"),
            <<Do("close_pipe")>> \o AwaitBoth(Top(p).ref, c))
  /\ UNCHANGED <<disk, user>>

ClosePipe(p) ==
  /\ At(p, "close_pipe")
  /\ fd' = [fd EXCEPT ![p].rd = @ \ {mem[p].r}, ![p].wr = @ \ {mem[p].w}]
  /\ mem' = [mem EXCEPT ![p].r = NoPipe, ![p].w = NoPipe]
  /\ todo' = Return(p, <<>>)
  /\ UNCHANGED <<procs, sig, disk, user>>

LeftChildKeepsEnd(p) ==
  /\ At(p, "left")
  /\ fd' = [fd EXCEPT ![p].out = mem[p].w]
  /\ todo' = Return(p, LeftBst(p))
  /\ UNCHANGED <<procs, mem, sig, disk, user>>
LeftChild(p) ==
  /\ At(p, "left")
  /\ fd' = [fd EXCEPT ![p].out = mem[p].w, ![p].rd = @ \ {mem[p].r}]
  /\ mem' = [mem EXCEPT ![p].r = NoPipe]
  /\ todo' = Return(p, LeftBst(p))
  /\ UNCHANGED <<procs, sig, disk, user>>

RightChildKeepsEnd(p) ==
  /\ At(p, "right")
  /\ fd' = [fd EXCEPT ![p].in = mem[p].r]
  /\ todo' = Return(p, RightBst(p))
  /\ UNCHANGED <<procs, mem, sig, disk, user>>
RightChild(p) ==
  /\ At(p, "right")
  /\ fd' = [fd EXCEPT ![p].in = mem[p].r, ![p].wr = @ \ {mem[p].w}]
  /\ mem' = [mem EXCEPT ![p].w = NoPipe]
  /\ todo' = Return(p, RightBst(p))
  /\ UNCHANGED <<procs, sig, disk, user>>

(* _exit(g_exit_status) of a child of the pipe. *)
ChildExit(p) ==
  /\ At(p, "_exit")
  /\ Exit(p, Exited(mem[p].g))
  /\ UNCHANGED <<disk, user>>

(***************************************************************************)
(* 08_redirection.c.                                                       *)
(***************************************************************************)
(* tree_transversal(): the right subtree, then the left one; a command on  *)
(* the right of a command is not run but becomes its argument.             *)
IsArgument(p) == LeftKind(p) = "COMMAND" /\ RightKind(p) = "COMMAND"
TreeTransversal(p) == (IF IsArgument(p) THEN <<>> ELSE RightBst(p)) \o LeftBst(p)
TreeArg(p) == IF IsArgument(p) THEN RootAt(p) + 1 ELSE mem[p].arg

Redirects(p, kinds) == At(p, "bst") /\ KindAt(p) \in kinds
TooMany(p) == KindAt(p) \in {"RDAPP", "HEREDOC"} /\ RootToken(p).n > 2
NoFile(p) == RootToken(p).w = NoWord
Target(p) == RootToken(p).w

(* "<<<" and ">>>": status 258, the node is given up. *)
RedirectionError(p) ==
  /\ Redirects(p, {"RDAPP", "HEREDOC"}) /\ TooMany(p)
  /\ mem' = [mem EXCEPT ![p].g = 258]
  /\ todo' = Return(p, <<>>)
  /\ UNCHANGED <<procs, fd, sig, disk, user>>

(* rdin_fd, rdout_fd, rdapp_fd and heredoc_fd without a file name, and     *)
(* rdin_fd on a file that does not exist: stdout is the terminal again,    *)
(* the node is given up, g_exit_status is left alone.  heredoc_handler has *)
(* already put stdin back.                                                 *)
RedirectionFails(p) ==
  /\ Redirects(p, {"RDIN", "RDOUT", "RDAPP", "HEREDOC"}) /\ ~TooMany(p)
  /\ \/ NoFile(p)
     \/ KindAt(p) = "RDIN" /\ ~NoFile(p) /\ Target(p) \notin present
  /\ fd' = [fd EXCEPT ![p].out = Tty,
                      ![p].in = IF KindAt(p) = "HEREDOC" THEN Tty ELSE @]
  /\ todo' = Return(p, <<>>)
  /\ UNCHANGED <<procs, mem, sig, disk, user>>

Openable(p, kinds) == Redirects(p, kinds) /\ ~TooMany(p) /\ ~NoFile(p)

(* ft_open() fails: exit(EXIT_FAILURE) in whatever process opens. *)
OpenFails(p) ==
  /\ Openable(p, {"RDIN", "RDOUT", "RDAPP"})
  /\ KindAt(p) = "RDIN" => Target(p) \in present
  /\ Target(p) \in Denied
  /\ Exit(p, Exited(1))
  /\ UNCHANGED <<disk, user>>

RdinHandler(p) ==
  /\ Openable(p, {"RDIN"}) /\ Target(p) \in present \ Denied
  /\ fd' = [fd EXCEPT ![p].in = Target(p)]
  /\ mem' = [mem EXCEPT ![p].arg = TreeArg(p)]
  /\ todo' = Return(p, TreeTransversal(p))
  /\ UNCHANGED <<procs, sig, disk, user>>

(* O_TRUNC for rdout_handler, not for rdapp_handler. *)
KeptAlways(p) == data[Target(p)]
Kept(p) == IF KindAt(p) = "RDOUT" THEN 0 ELSE data[Target(p)]

RdoutHandler(p) ==
  /\ Openable(p, {"RDOUT", "RDAPP"}) /\ Target(p) \notin Denied
  /\ fd' = [fd EXCEPT ![p].out = Target(p)]
  /\ present' = present \cup {Target(p)}
  /\ data' = [data EXCEPT ![Target(p)] = Kept(p)]
  /\ mem' = [mem EXCEPT ![p].arg = TreeArg(p)]
  /\ todo' = Return(p, TreeTransversal(p))
  /\ UNCHANGED <<procs, sig, tmp, user>>

(* Inodes that neither a descriptor 0 nor a here-document child refers to. *)
FreeDoc ==
  {d \in Doc : \A p \in Pid : fd[p].in # d /\ \A i \in DOMAIN todo[p] : todo[p][i].ref # d}

(* heredoc_handler() up to the fork: descriptor 0 is the terminal again,   *)
(* .here_doc_tmp is unlinked and created anew; the descriptor it is        *)
(* written through stays open in the parent.                               *)
HeredocHandler(p) ==
  /\ Openable(p, {"HEREDOC"})
  /\ \E d \in FreeDoc, c \in FreePid :
       /\ d = CHOOSE e \in FreeDoc : TRUE
       /\ c = CHOOSE q \in FreePid : TRUE
       /\ st' = [st EXCEPT ![c] = "run"]
       /\ par' = [par EXCEPT ![c] = p]
       /\ todo' = [Return(p, Await(c) \o <<On("heredoc_open", Top(p).lo, Top(p).hi, Nobody)>>)
                     EXCEPT ![c] = <<On("heredoc_child", 0, 0, d)>>]
       /\ fd' = [fd EXCEPT ![p].in = Tty, ![p].leak = @ + 1,
                           ![c] = [fd[p] EXCEPT !.in = Tty]]
       /\ mem' = [mem EXCEPT ![c] = mem[p]]
       /\ sig' = [sig EXCEPT ![c] = sig[p]]
       /\ tmp' = d
       /\ data' = [data EXCEPT ![d] = 0]
  /\ UNCHANGED <<ws, present, user>>

(* The rest of heredoc_parent() and of heredoc_handler(): a here-document  *)
(* that did not end with status 0, or whose file is gone, gives up the     *)
(* node.  Descriptor 0 is left to the last of several here-documents.      *)
HeredocOpenAnyway(p) ==
  /\ At(p, "heredoc_open")
  /\ fd' = [fd EXCEPT ![p].in = IF RightKind(p) = "HEREDOC" THEN @ ELSE tmp]
  /\ mem' = [mem EXCEPT ![p].arg = TreeArg(p)]
  /\ todo' = Return(p, TreeTransversal(p))
  /\ UNCHANGED <<procs, sig, disk, user>>
HeredocOpen(p) ==
  /\ At(p, "heredoc_open")
  /\ IF mem[p].g # 0 \/ tmp = NoDoc
       THEN todo' = Return(p, <<>>) /\ UNCHANGED <<fd, mem>>
       ELSE /\ fd' = [fd EXCEPT ![p].in = IF RightKind(p) = "HEREDOC" THEN @ ELSE tmp]
            /\ mem' = [mem EXCEPT ![p].arg = TreeArg(p)]
            /\ todo' = Return(p, TreeTransversal(p))
  /\ UNCHANGED <<procs, sig, disk, user>>

(* heredoc_restore_signals(), and the dup2 before readline: if sh->pipe[1] *)
(* is set, descriptor 1 is stdout_tmp as long as readline waits for a line.*)
(* Between two lines it is sh->pipe[1], and nothing is written to it.      *)
EchoToPipe(p) == mem[p].w
EchoTo(p) == IF mem[p].w = NoPipe THEN fd[p].out ELSE Tty

HeredocChild(p) ==
  /\ At(p, "heredoc_child")
  /\ sig' = [sig EXCEPT ![p].int = "heredoc", ![p].job = "ignore"]
  /\ fd' = [fd EXCEPT ![p].out = EchoTo(p)]
  /\ todo' = Return(p, <<On("heredoc_input", 0, 0, Top(p).ref)>>)
  /\ UNCHANGED <<procs, mem, disk, user>>

(* The user types a line of the document ... *)
HeredocLine(p) ==
  /\ At(p, "heredoc_input") /\ data[Top(p).ref] < MaxDoc
  /\ data' = [data EXCEPT ![Top(p).ref] = @ + 1]
  /\ UNCHANGED <<procs, todo, fd, mem, sig, present, tmp, user>>

(* ... or its delimiter, or Ctrl-D: exit(EXIT_SUCCESS) either way. *)
HeredocEnd(p) ==
  /\ At(p, "heredoc_input")
  /\ Exit(p, Exited(0))
  /\ UNCHANGED <<disk, user>>

(***************************************************************************)
(* ft_fork() and ft_pipe() fail: exit(EXIT_FAILURE).  heredoc_fd() has     *)
(* created its file by then.                                               *)
(***************************************************************************)
OutOfResources(p) ==
  /\ \/ /\ FreePid = {}
        /\ External(p) \/ At(p, "fork_left") \/ At(p, "fork_right")
        /\ UNCHANGED tmp
     \/ /\ FreePid = {} /\ Openable(p, {"HEREDOC"})
        /\ tmp' \in FreeDoc
     \/ /\ FreePipe = {} /\ At(p, "bst") /\ KindAt(p) = "PIPE" /\ ~PipeError(p)
        /\ UNCHANGED tmp
  /\ Exit(p, Exited(1))
  /\ UNCHANGED <<data, present, user>>

(***************************************************************************)
(* The programs.                                                           *)
(***************************************************************************)
Finished(p) ==
  \/ At(p, "emit") /\ Top(p).n = Prog[Command(p)].n
  \/ At(p, "head") /\ Top(p).n = Prog[Command(p)].n
  \/ At(p, "status") \/ At(p, "sleep")
Writing(p) ==
  \/ At(p, "echo") \/ At(p, "put")
  \/ At(p, "emit") /\ Top(p).n < Prog[Command(p)].n
Reading(p) ==
  \/ At(p, "copy")
  \/ At(p, "head") /\ Top(p).n < Prog[Command(p)].n

(* The end of a program that has done its work. *)
ProgramEnds(p) ==
  /\ Finished(p)
  /\ Exit(p, Exited(IF At(p, "status") THEN Prog[Command(p)].n ELSE 0))
  /\ UNCHANGED <<disk, user>>

HasInput(p) ==
  LET o == fd[p].in
  IN  IF o \in PipeId THEN data[o] > 0 ELSE o # Tty /\ Top(p).n < data[o]

(* A unit is read: taken from a pipe, or the next one of a file. *)
ProgramReads(p) ==
  /\ Reading(p) /\ HasInput(p)
  /\ data' = [data EXCEPT ![fd[p].in] = IF fd[p].in \in PipeId THEN @ - 1 ELSE @]
  /\ todo' = Return(p, <<[Top(p) EXCEPT !.n = @ + 1,
                                       !.op = IF @ = "copy" THEN "put" ELSE @]>>)
  /\ UNCHANGED <<procs, fd, mem, sig, present, tmp, user>>

(* End of file: of a file, or of a pipe that no process can write to. *)
EndOfFile(p) ==
  /\ Reading(p) /\ ~HasInput(p) /\ fd[p].in # Tty
  /\ fd[p].in \in PipeId => Writers(fd[p].in) = {}
  /\ Exit(p, Exited(0))
  /\ UNCHANGED <<disk, user>>

(* The user ends the input of a program that reads the terminal. *)
TypedEnd(p) ==
  /\ Reading(p) /\ fd[p].in = Tty
  /\ Exit(p, Exited(0))
  /\ UNCHANGED <<disk, user>>

Written(p) ==
  IF At(p, "echo") THEN <<>>
  ELSE IF At(p, "put") THEN <<[Top(p) EXCEPT !.op = "copy"]>>
  ELSE <<[Top(p) EXCEPT !.n = @ + 1]>>

(* A unit is written; a full pipe blocks.  echo_command() returns 0. *)
Writes(p) ==
  /\ Writing(p)
  /\ LET o == fd[p].out
     IN  /\ o \in PipeId => Readers(o) # {} /\ data[o] < Cap
         /\ data' = [data EXCEPT ![o] = @ + 1]
  /\ todo' = Return(p, Written(p))
  /\ mem' = [mem EXCEPT ![p].g = IF At(p, "echo") THEN 0 ELSE @]
  /\ UNCHANGED <<procs, fd, sig, present, tmp, user>>

(* write() to a pipe that nobody reads. *)
BrokenPipe(p) ==
  /\ Writing(p)
  /\ fd[p].out \in PipeId /\ Readers(fd[p].out) = {}
  /\ Exit(p, Killed(SIGPIPE))
  /\ UNCHANGED <<disk, user>>

(***************************************************************************)
(* The keys that signal the foreground process group.  The code never      *)
(* calls setpgid: that is every process.  A stopped process keeps them     *)
(* pending.                                                                *)
(***************************************************************************)
Running == {p \in Pid : st[p] = "run"}

(* sigint_handler() writes a newline to descriptor 1, whatever that is at  *)
(* the moment; the newlines of several processes are one unit.             *)
CtrlC ==
  /\ "int" \in Keys /\ nsig < MaxSig
  /\ LET hit == {p \in Running : sig[p].int \in {"default", "heredoc"}}
     IN  End([p \in hit |-> IF sig[p].int = "heredoc" THEN Exited(1)
                            ELSE Killed(SIGINT)])
  /\ LET handlers == {p \in Running : sig[p].int = "handler"}
     IN  data' = [o \in Object |->
                    IF \E p \in handlers : fd[p].out = o THEN data[o] + 1 ELSE data[o]]
  /\ nsig' = nsig + 1
  /\ UNCHANGED <<present, tmp, tty, nlines>>

CtrlBackslash ==
  /\ "quit" \in Keys /\ nsig < MaxSig
  /\ LET hit == {p \in Running : sig[p].job = "default"}
     IN  hit # {} /\ End([p \in hit |-> Killed(SIGQUIT)])
  /\ nsig' = nsig + 1
  /\ UNCHANGED <<disk, tty, nlines>>

CtrlZ ==
  /\ "stop" \in Keys /\ nsig < MaxSig
  /\ LET hit == {p \in Running : sig[p].job = "default"}
     IN  /\ hit # {}
         /\ st' = [p \in Pid |-> IF p \in hit THEN "stop" ELSE st[p]]
  /\ nsig' = nsig + 1
  /\ UNCHANGED <<par, ws, todo, fd, mem, sig, disk, tty, nlines>>

(***************************************************************************)
(* The specification.                                                      *)
(***************************************************************************)
Init ==
  /\ st = [p \in Pid |-> IF p = Shell THEN "run" ELSE "none"]
  /\ par = [p \in Pid |-> Nobody]
  /\ todo = [p \in Pid |-> IF p = Shell THEN <<Do("prompt")>> ELSE <<>>]
  /\ fd = [p \in Pid |-> Closed]
  /\ mem = [p \in Pid |-> Blank]
  /\ sig = [p \in Pid |-> IF p = Shell THEN ShellSignals ELSE DefaultSignals]
  /\ ws = [p \in Pid |-> 0]
  /\ present = Existing
  /\ data = [o \in Object |-> IF o \in Existing THEN 1 ELSE 0]
  /\ tmp = NoDoc
  /\ tty = "current"
  /\ nlines = 0 /\ nsig = 0

(* What a process does without anyone's help. *)
Step(p) ==
  \/ WaitEnded(p) \/ WaitStopped(p) \/ SigintIgnore(p) \/ SigintRestore(p)
  \/ ChildRestoreSignals(p) \/ ResetData(p)
  \/ ExecBuiltin(p) \/ ExecCmd(p) \/ Execve(p) \/ CommandNotFound(p)
  \/ PipeSyntaxError(p) \/ PipeHandler(p) \/ PipeHeredoc(p)
  \/ ForkLeft(p) \/ ForkRight(p) \/ ClosePipe(p)
  \/ LeftChild(p) \/ RightChild(p) \/ ChildExit(p)
  \/ RedirectionError(p) \/ RedirectionFails(p) \/ OpenFails(p)
  \/ RdinHandler(p) \/ RdoutHandler(p)
  \/ HeredocHandler(p) \/ HeredocOpen(p) \/ HeredocChild(p)
  \/ OutOfResources(p)
  \/ ProgramEnds(p) \/ ProgramReads(p) \/ EndOfFile(p) \/ Writes(p) \/ BrokenPipe(p)

(* What the user types. *)
Types(p) ==
  \/ ReadLine(p) \/ EndOfInput(p) \/ HeredocLine(p) \/ HeredocEnd(p) \/ TypedEnd(p)

(* Nothing is left to run. *)
Over ==
  /\ \A p \in Pid : st[p] \in {"none", "stop"}
  /\ UNCHANGED vars

Next ==
  \/ \E p \in Pid : Step(p) \/ Types(p)
  \/ CtrlC \/ CtrlBackslash \/ CtrlZ
  \/ Over

Spec == Init /\ [][Next]_vars

(* As long as some process can run, the kernel runs one, and the user ends *)
(* the here-documents and the programs that ask for input.  Nobody has to  *)
(* type a line or a signal.                                                *)
System == \E p \in Pid : Step(p)
Answers == \E p \in Pid : HeredocEnd(p) \/ TypedEnd(p)
Fairness == WF_vars(System) /\ WF_vars(Answers)
FairSpec == Spec /\ Fairness

(***************************************************************************)
(* Properties.                                                             *)
(***************************************************************************)
(* Every variable has its type; the frames, the descriptors and the memory *)
(* of a process are records of the shapes above.                           *)
TypeOK ==
  /\ st \in [Pid -> {"none", "run", "stop", "zombie"}]
  /\ par \in [Pid -> Pid \cup {Nobody}]
  /\ todo \in [Pid -> Seq(Frame)]
  /\ fd \in [Pid -> Descriptors]
  /\ mem \in [Pid -> Memory]
  /\ sig \in [Pid -> Signals]
  /\ ws \in [Pid -> Nat]
  /\ data \in [Object -> Nat]
  /\ present \in SUBSET File
  /\ tmp \in Doc \cup {NoDoc}
  /\ tty \in {"previous", "current"}
  /\ nlines \in 0 .. MaxLines
  /\ nsig \in 0 .. MaxSig

IsProgram(p) == st[p] \in {"run", "stop"} /\ Top(p).op \in ProgramKind \cup {"put"}

(* A program that has been executed, however deep in the processes of a    *)
(* line, has the default dispositions: the user can always interrupt, quit *)
(* and stop it, whatever the shell was ignoring when it forked             *)
(* (child_restore_signals, sigint_ignore after the fork in exec_cmd).      *)
ProgramSignals ==
  \A p \in Pid : IsProgram(p) => sig[p].int = "default" /\ sig[p].job = "default"

(* The shell never loses its Ctrl-C handler: SIGINT is either caught or,   *)
(* while it waits, ignored with the handler saved for sigint_restore; so   *)
(* it is caught at every prompt.                                           *)
ShellHandler ==
  st[Shell] = "run" =>
    /\ sig[Shell].job = "ignore"
    /\ \/ sig[Shell].int = "handler"
       \/ /\ sig[Shell].int = "ignore" /\ sig[Shell].old = "handler"
          /\ Top(Shell).op \notin {"prompt", "reset", "bst"}

(* A process waits once for each child it has forked, and for nothing     *)
(* else: no waitpid fails and leaves g_exit_status as it was, no child is  *)
(* left a zombie (the frames of exec_cmd, pipe_child_process and           *)
(* heredoc_parent, through every exit in between).                         *)
Awaits(f) == f.op \in {"wait", "fork_right"}
Awaited(p) == {todo[p][i].ref : i \in {j \in DOMAIN todo[p] : Awaits(todo[p][j])}}
ChildrenAwaited ==
  \A p \in Pid : st[p] \in {"run", "stop"} =>
    /\ Awaited(p) = {q \in Pid : par[q] = p /\ st[q] # "none"}
    /\ \A i, j \in DOMAIN todo[p] :
         Awaits(todo[p][i]) /\ Awaits(todo[p][j]) /\ todo[p][i].ref = todo[p][j].ref
           => i = j

(* While a frame of pipe_handler() still has to use sh->pipe, here or in a *)
(* child to be forked, both ends in it are open: nothing that runs above   *)
(* that frame closes them or starts another pipe in the one sh->pipe.      *)
PipeOp == {"heredoc_left", "heredoc_left_end", "heredoc_right",
           "heredoc_right_end", "fork_left", "fork_right", "left", "right"}
PipeHeld ==
  \A p \in Pid : st[p] \in {"run", "stop"} =>
    \A i \in DOMAIN todo[p] :
      todo[p][i].op \in PipeOp => mem[p].r \in fd[p].rd /\ mem[p].w \in fd[p].wr

AtPrompt == At(Shell, "prompt")

(* Whatever the last line did, the prompt finds the shell as it started:   *)
(* its own descriptors, no pipe end, no pending argument, the terminal in  *)
(* its own mode, and no child left, dead or alive (reset_data and the      *)
(* handlers it follows).  A process that outlived its side of a pipe may   *)
(* still have a here-document: nothing is said of .here_doc_tmp.           *)
PromptClean ==
  AtPrompt =>
    /\ [fd[Shell] EXCEPT !.leak = 0] = Closed
    /\ mem[Shell].r = NoPipe /\ mem[Shell].w = NoPipe /\ mem[Shell].arg = 0
    /\ tty = "current"
    /\ \A p \in Pid : st[p] # "none" => par[p] # Shell

(* No program holds the write end of the pipe it reads, nor does a process *)
(* downstream: else it would never see end of file (right_child closes     *)
(* pipe[1], pipe_child_process both ends).                                 *)
NoSelfFeed ==
  \A p \in Pid : IsProgram(p) /\ fd[p].in \in PipeId =>
    /\ p \notin Writers(fd[p].in)
    /\ At(Shell, "wait") => Shell \notin Writers(fd[p].in)

(***************************************************************************)
(* What a line should do, written from its tokens alone.                   *)
(***************************************************************************)
InStage(line, k) == {i \in DOMAIN line : Stage(line, i) = k /\ line[i].c # "|"}
LastStage(line) == Cardinality(TokensOf(line, 1, Len(line), "|"))
Commands(line, k) == {i \in InStage(line, k) : line[i].c = "w"}
Files(line, c) == {line[i].w : i \in TokensOf(line, 1, Len(line), c)}

(* One command in each stage, no operator longer than it may be, and a     *)
(* word after each redirection.                                            *)
WellFormed(line) ==
  /\ line # <<>>
  /\ \A k \in 0 .. LastStage(line) : Cardinality(Commands(line, k)) = 1
  /\ \A i \in DOMAIN line : /\ line[i].n <= (IF line[i].c = "|" THEN 1 ELSE 2)
                            /\ line[i].c \in {"<", ">"} => line[i].w # NoWord

(* Every file it names can be opened, and it reads none that it writes. *)
Opens(line) ==
  LET read == {line[i].w : i \in {j \in DOMAIN line : TypeAssign(line[j]) = "RDIN"}}
  IN  /\ (read \cup Files(line, ">")) \cap Denied = {}
      /\ read \subseteq present /\ read \cap Files(line, ">") = {}

CommandOf(line, k) == line[CHOOSE i \in Commands(line, k) : TRUE].w
StatusOf(w) ==
  CASE Prog[w].k \in {"status", "builtin"} -> Prog[w].n
    [] Prog[w].k = "none" -> 127
    [] OTHER -> 0

(* The units the last stage of a plain pipeline puts out, when its first   *)
(* stage has no input.                                                     *)
Output(line) ==
  LET put[k \in 0 .. LastStage(line)] ==
        LET w == CommandOf(line, k)
            got == IF k = 0 THEN 0 ELSE put[k - 1]
        IN  CASE Prog[w].k \in {"emit", "echo"} -> Prog[w].n
              [] Prog[w].k = "copy" -> got
              [] Prog[w].k = "head" -> 0
              [] OTHER -> 0
  IN  put[LastStage(line)]

(* Words and pipes, and at the end perhaps a file to write to. *)
Plain(line) == \A i \in DOMAIN line :
  line[i].c \in {"w", "|"} \/ (i = Len(line) /\ TypeAssign(line[i]) = "RDOUT")
Sink(line) == IF line[Len(line)].c = ">" THEN line[Len(line)].w ELSE Tty

Quiet == AtPrompt /\ nlines > 0 /\ nsig = 0

(* The status of a line is that of the command of its last stage, in       *)
(* whatever order the stages ended (the order of the two waitpid calls in  *)
(* pipe_child_process, _exit(g_exit_status) of each child).                *)
StatusOfLast ==
  LET line == mem[Shell].line
  IN  Quiet /\ WellFormed(line) /\ Opens(line) /\ Prog[CommandOf(line, LastStage(line))].k # "exit"
        => mem[Shell].g = StatusOf(CommandOf(line, LastStage(line)))

(* Nothing written to a pipe is lost or left behind: when a pipeline is    *)
(* over, what the last program makes of it is on the terminal or in the    *)
(* file of the last redirection.                                           *)
Delivered ==
  LET line == mem[Shell].line
  IN  Quiet /\ WellFormed(line) /\ Opens(line) /\ Plain(line)
        => data[Sink(line)] = Output(line)

(* A command only gets the argument words of its own stage (cmd_join adds  *)
(* sh->tree_arg_value to whatever command runs next).  The exception is a  *)
(* here-document with two words in its stage, in a line with a pipe: it is *)
(* run before the forks, so the word is set in the shell and both sides    *)
(* inherit it.                                                             *)
WordWithHeredoc(line) ==
  /\ TokensOf(line, 1, Len(line), "|") # {}
  /\ \E i, j, k \in DOMAIN line :
       /\ j < k /\ Stage(line, j) = Stage(line, i) /\ Stage(line, k) = Stage(line, i)
       /\ TypeAssign(line[i]) = "HEREDOC" /\ line[j].c = "w" /\ line[k].c = "w"
ArgumentsOwnStage ==
  \A p \in Pid : IsProgram(p) /\ Top(p).hi # 0 /\ ~WordWithHeredoc(mem[p].line) =>
    Stage(mem[p].line, Top(p).hi) = Stage(mem[p].line, Top(p).lo)

(* What a line leaves behind when its own parent is gone does not stay:    *)
(* every orphan ends (its input ends, its output breaks, or it was told).  *)
Orphans == {p \in Pid \ {Shell} : st[p] \in {"run", "stop"} /\ par[p] = Nobody}
OrphansEnd == Orphans # {} ~> Orphans = {}

(* When the user interrupts the only here-document of a line, the command  *)
(* that was to read it does not run, wherever in a pipeline it stands      *)
(* (heredoc_parent's status, through each handler that called it).         *)
Documents(line) == {i \in DOMAIN line : TypeAssign(line[i]) = "HEREDOC"}
Cancelled(p) == At(p, "heredoc_open") /\ mem[p].g # 0
OwnCommand(p) ==
  IsProgram(p) /\ \E i \in Documents(mem[p].line) :
    Stage(mem[p].line, i) = Stage(mem[p].line, Top(p).lo)
HeredocCancels ==
  [](\A p \in Pid : Cancelled(p) /\ Cardinality(Documents(mem[p].line)) = 1 =>
       [](AtPrompt \/ \A q \in Pid : ~OwnCommand(q)))

(* Every line comes to an end: the prompt is back or the shell has exited. *)
LineEnds == (st[Shell] = "run" /\ ~AtPrompt) ~> (st[Shell] = "none" \/ AtPrompt)
=============================================================================
