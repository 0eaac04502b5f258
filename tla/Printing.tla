------------------------------ MODULE Printing ------------------------------
(***************************************************************************)
(* Where the output of a builtin that prints with printf goes.             *)
(*                                                                         *)
(* Such output passes the buffer of stdout, of which each process a line   *)
(* forks has a copy.  A buffer is flushed by its own rules, not when the   *)
(* shell moves descriptor 1: by every unit if the first use of stdout found*)
(* a terminal, else when it is full, when readline() shows a prompt, and by*)
(* exit(), but not by _exit().  echo and the programs a line runs write to *)
(* descriptor 1 themselves.  A unit is a part of the output that the       *)
(* buffer takes as a whole.  What a line is made of is in Executor.        *)
(*                                                                         *)
(* ChildExitFlushes and RefusedInPlace are no part of the specification:   *)
(* each is the definition that follows it with a plausible mistake in it.  *)
(***************************************************************************)
EXTENDS Integers, SequencesExt

CONSTANTS
  RcFiles,   \* the rc files: sequences of lines
  Typed,     \* the lines that are typed
  MaxTyped,  \* bound: how many lines are typed
  Room       \* units a buffer holds

(* A side of a pipe, or a whole line: it has a here-document or not; it    *)
(* has no redirection, one to a file, one without a file's name, or one to *)
(* a file that cannot be opened; its command prints units or writes them.  *)
Side == [doc : BOOLEAN, to : {"stdout", "file", "noname", "noopen"},
         cmd : {"prints", "writes"}, units : 1 .. 2]
Line == {<<s>> : s \in Side} \cup {<<s, t>> : s, t \in Side}

ASSUME PrintingAssumption ==
  /\ RcFiles \subseteq Seq(Line) /\ Typed \subseteq Line
  /\ MaxTyped \in Nat /\ Room \in Nat \ {0}

VARIABLES
  terminal,  \* descriptor 1 is a terminal when the shell starts
  rc, line,  \* the lines of the rc file that are left; the line that runs
  phase,     \* what the shell does when no line runs
  typed,     \* how many lines have been typed
  todo,      \* the calls each process has still to make
  mode, buf, \* stdout: how it is buffered, and what is in the buffer
  fd,        \* what descriptor 1 refers to in each process
  reached,   \* the units that got to the terminal, to files and into pipes
  printed,   \* history variable: what was printed, with where it belongs
  copied     \* history variable: the units of the shell that a child had in
             \* its copy of the buffer when it called exit() or filled it
vars == <<terminal, rc, line, phase, typed, todo, mode, buf, fd, reached, printed,
          copied>>

Process == {"shell", "left", "right"}
Place == {"out", "file", "pipe"}

Ids(s) == {s[i].id : i \in DOMAIN s}
Frame(p, f) == todo[p] # <<>> /\ Head(todo[p])[1] = f
Returns(p) == todo' = [todo EXCEPT ![p] = Tail(@)]

(* The handler of a side returns early: what is left of it is dropped.     *)
Refuses(p) ==
  LET i == Head(todo[p])[2]
      rest == Min({j \in DOMAIN todo[p] : todo[p][j][2] # i})
  IN  todo' = [todo EXCEPT ![p] = SubSeq(@, rest, Len(@))]

(* The calls of a side: heredoc_handler(), rdout_handler(), the builtin.   *)
Calls(s, i) ==
  (IF s.doc THEN <<<<"doc", i>>>> ELSE <<>>) \o <<<<"redirect", i>>>>
    \o [k \in 1 .. s.units |-> <<"command", i>>]

(* recurse_bst() in the shell, and reset_data(): a side with a here-document*)
(* runs before the forks of its pipe and in the shell.                     *)
LineCalls(l) ==
  IF Len(l) = 1 THEN Calls(l[1], 1) \o <<<<"reset", 0>>>>
  ELSE (IF l[1].doc THEN <<<<"pipe", 0>>>> \o Calls(l[1], 1) \o <<<<"restore", 0>>>>
                    ELSE <<>>)
    \o (IF l[2].doc THEN Calls(l[2], 2) ELSE <<>>)
    \o <<<<"forkleft", 0>>, <<"forkright", 0>>, <<"wait", 0>>, <<"reset", 0>>>>

(* Where the user expects what side i of a line prints. *)
Belongs(l, i, to) ==
  IF to = "file" THEN "file" ELSE IF i = 1 /\ Len(l) = 2 THEN "pipe" ELSE "out"

Unit(p, to) ==
  [id |-> Len(printed) + 1, by |-> p, to |-> to, line |-> line, phase |-> phase]
Reach(place, units) == reached' = [reached EXCEPT ![place] = @ \o units]

(***************************************************************************)
(* The buffer.                                                             *)
(***************************************************************************)
(* printf() when descriptor 1 refers to `at`. *)
Prints(p, at, to) ==
  LET m == IF mode[p] # "undecided" THEN mode[p]
           ELSE IF at = "out" /\ terminal THEN "line" ELSE "full"
      u == Unit(p, to)
  IN  /\ printed' = Append(printed, u)
      /\ mode' = [mode EXCEPT ![p] = m]
      /\ \/ /\ m = "line"
            /\ Reach(at, Append(buf[p], u)) /\ buf' = [buf EXCEPT ![p] = <<>>]
         \/ /\ m = "full" /\ Len(buf[p]) < Room
            /\ buf' = [buf EXCEPT ![p] = Append(@, u)] /\ UNCHANGED reached
         \/ /\ m = "full" /\ Len(buf[p]) >= Room
            /\ Reach(at, buf[p]) /\ buf' = [buf EXCEPT ![p] = <<u>>]
      /\ copied' = IF p = "shell" \/ reached' = reached THEN copied
                   ELSE copied \cup Ids(buf[p])

(* echo_command(), and a program: write(). *)
WritesUnit(p, to) ==
  /\ printed' = Append(printed, Unit(p, to))
  /\ Reach(fd[p], <<Unit(p, to)>>)
  /\ UNCHANGED <<mode, buf, copied>>

(***************************************************************************)
(* A side, in whatever process.                                            *)
(***************************************************************************)
(* heredoc_fd(): the reader shows its prompt on the terminal, which flushes*)
(* its copy of the buffer, and ends by exit(); Ctrl-C may come before the  *)
(* first prompt or later, and the command is then not run.                 *)
Doc ==
  /\ Frame("shell", "doc")
  /\ \E prompts, reads \in BOOLEAN :
       /\ reads => prompts
       /\ IF prompts THEN /\ Reach("out", buf["shell"])
                          /\ copied' = copied \cup Ids(buf["shell"])
          ELSE UNCHANGED <<reached, copied>>
       /\ IF reads THEN Returns("shell") ELSE Refuses("shell")
  /\ UNCHANGED <<terminal, rc, line, phase, typed, mode, buf, fd, printed>>

Redirect(p) ==
  /\ Frame(p, "redirect")
  /\ line[Head(todo[p])[2]].to \in {"stdout", "file"}
  /\ fd' = [fd EXCEPT ![p] = IF line[Head(todo[p])[2]].to = "file" THEN "file" ELSE @]
  /\ Returns(p)
  /\ UNCHANGED <<terminal, rc, line, phase, typed, mode, buf, reached, printed, copied>>

(* rdout_fd() without a file's name: the message is for the terminal, and  *)
(* so is what follows.  The command is below rdout_handler() and is not    *)
(* run, but with a here-document it is heredoc_handler() that runs it,     *)
(* whatever became of the redirection.                                     *)
GivesUp(p) == IF line[Head(todo[p])[2]].doc THEN Returns(p) ELSE Refuses(p)
RefusedInPlace(p) ==
  /\ Frame(p, "redirect") /\ line[Head(todo[p])[2]].to = "noname"
  /\ Prints(p, fd[p], "out") /\ GivesUp(p)
  /\ UNCHANGED <<terminal, rc, line, phase, typed, fd>>
RedirectRefused(p) ==
  /\ Frame(p, "redirect") /\ line[Head(todo[p])[2]].to = "noname"
  /\ fd' = [fd EXCEPT ![p] = "out"]
  /\ Prints(p, "out", "out") /\ GivesUp(p)
  /\ UNCHANGED <<terminal, rc, line, phase, typed>>

(* ft_open() fails: a message, and exit(). *)
OpenFails(p) ==
  /\ Frame(p, "redirect") /\ line[Head(todo[p])[2]].to = "noopen"
  /\ LET u == Unit(p, Belongs(line, Head(todo[p])[2], "stdout"))
     IN  /\ printed' = Append(printed, u)
         /\ Reach(fd[p], Append(buf[p], u))
  /\ buf' = [buf EXCEPT ![p] = <<>>]
  /\ todo' = [todo EXCEPT ![p] = <<>>]
  /\ IF p = "shell" THEN phase' = "left" /\ UNCHANGED copied
     ELSE copied' = copied \cup Ids(buf[p]) /\ UNCHANGED phase
  /\ UNCHANGED <<terminal, rc, line, typed, mode, fd>>

Command(p) ==
  /\ Frame(p, "command")
  /\ LET i == Head(todo[p])[2]
         to == Belongs(line, i, line[i].to)
     IN  IF line[i].cmd = "prints" THEN Prints(p, fd[p], to) ELSE WritesUnit(p, to)
  /\ Returns(p)
  /\ UNCHANGED <<terminal, rc, line, phase, typed, fd>>

(***************************************************************************)
(* A pipe.                                                                 *)
(***************************************************************************)
(* ft_dup2(sh->pipe[1], STDOUT_FILENO) *)
ToPipe ==
  /\ Frame("shell", "pipe")
  /\ fd' = [fd EXCEPT !["shell"] = "pipe"] /\ Returns("shell")
  /\ UNCHANGED <<terminal, rc, line, phase, typed, mode, buf, reached, printed, copied>>

(* ft_dup2(sh->stdout_tmp, STDOUT_FILENO) *)
Restore(p) ==
  /\ Frame(p, "restore") \/ Frame(p, "reset")
  /\ fd' = [fd EXCEPT ![p] = "out"] /\ Returns(p)
  /\ UNCHANGED <<terminal, rc, line, phase, typed, mode, buf, reached, printed, copied>>

(* The child's first calls come with its fork. *)
Forked(p, calls, at) ==
  /\ todo' = [todo EXCEPT !["shell"] = Tail(@), ![p] = calls \o <<<<"exit", 0>>>>]
  /\ mode' = [mode EXCEPT ![p] = mode["shell"]]
  /\ buf' = [buf EXCEPT ![p] = buf["shell"]]
  /\ fd' = [fd EXCEPT ![p] = at]
  /\ UNCHANGED <<terminal, rc, line, phase, typed, reached, printed, copied>>
ForkLeft ==
  /\ Frame("shell", "forkleft")
  /\ IF line[1].doc THEN Forked("left", <<>>, fd["shell"])
     ELSE Forked("left", Calls(line[1], 1) \o <<<<"restore", 0>>>>, "pipe")
ForkRight ==
  /\ Frame("shell", "forkright")
  /\ Forked("right", IF line[2].doc THEN <<>> ELSE Calls(line[2], 2), fd["shell"])

(* _exit(): what is in the buffer is gone. *)
ChildExitFlushes(p) ==
  /\ Frame(p, "exit")
  /\ Reach(fd[p], buf[p])
  /\ buf' = [buf EXCEPT ![p] = <<>>] /\ Returns(p)
  /\ UNCHANGED <<terminal, rc, line, phase, typed, mode, fd, printed, copied>>
ChildExit(p) ==
  /\ Frame(p, "exit")
  /\ buf' = [buf EXCEPT ![p] = <<>>] /\ Returns(p)
  /\ UNCHANGED <<terminal, rc, line, phase, typed, mode, fd, reached, printed, copied>>

Wait ==
  /\ Frame("shell", "wait")
  /\ todo["left"] = <<>> /\ todo["right"] = <<>>
  /\ Returns("shell")
  /\ UNCHANGED <<terminal, rc, line, phase, typed, mode, buf, reached, printed, copied, fd>>

(***************************************************************************)
(* The shell.                                                              *)
(***************************************************************************)
Runs(l) == line' = l /\ todo' = [todo EXCEPT !["shell"] = LineCalls(l)]

RcLine ==
  /\ phase = "rc" /\ todo["shell"] = <<>> /\ rc # <<>>
  /\ Runs(Head(rc)) /\ rc' = Tail(rc)
  /\ UNCHANGED <<terminal, phase, typed, mode, buf, fd, reached, printed, copied>>

(* print_banner() *)
PrintBanner ==
  /\ phase = "rc" /\ todo["shell"] = <<>> /\ rc = <<>>
  /\ Prints("shell", fd["shell"], "out")
  /\ phase' = "prompt"
  /\ UNCHANGED <<terminal, rc, line, typed, todo, fd>>

(* readline() shows the prompt; main() returns. *)
Flushes(next) ==
  /\ todo["shell"] = <<>>
  /\ Reach(fd["shell"], buf["shell"]) /\ buf' = [buf EXCEPT !["shell"] = <<>>]
  /\ phase' = next
  /\ UNCHANGED <<terminal, rc, line, typed, todo, mode, fd, printed, copied>>
Prompt == phase = "prompt" /\ Flushes("read")
Leaves == phase \in {"prompt", "read"} /\ Flushes("left")

Readline ==
  /\ phase = "read" /\ typed < MaxTyped
  /\ \E l \in Typed : Runs(l)
  /\ phase' = "prompt" /\ typed' = typed + 1
  /\ UNCHANGED <<terminal, rc, mode, buf, fd, reached, printed, copied>>

Init ==
  /\ terminal \in BOOLEAN /\ rc \in RcFiles /\ line = <<>>
  /\ phase = "rc" /\ typed = 0
  /\ todo = [p \in Process |-> <<>>]
  /\ mode = [p \in Process |-> "undecided"] /\ buf = [p \in Process |-> <<>>]
  /\ fd = [p \in Process |-> "out"]
  /\ reached = [place \in Place |-> <<>>] /\ printed = <<>> /\ copied = {}

Next ==
  \/ RcLine \/ PrintBanner \/ Prompt \/ Leaves \/ Readline
  \/ Doc \/ ToPipe \/ ForkLeft \/ ForkRight \/ Wait
  \/ \E p \in Process :
       Redirect(p) \/ RedirectRefused(p) \/ OpenFails(p) \/ Command(p) \/ Restore(p)
  \/ ChildExit("left") \/ ChildExit("right")

Spec == Init /\ [][Next]_vars

(***************************************************************************)
(* Properties.                                                             *)
(***************************************************************************)
Never(u, s) == \A i \in DOMAIN s : s[i] # u
Once(u, s) == \E i \in DOMAIN s : \A j \in DOMAIN s : s[j] = u <=> j = i
OnlyIn(u, place) ==
  /\ Once(u, reached[place])
  /\ \A other \in Place \ {place} : Never(u, reached[other])

Settled == phase \in {"read", "left"} /\ todo["shell"] = <<>>

(* Whenever a prompt is shown or the shell has ended, what the shell       *)
(* itself has printed has come out once: not lost with a descriptor that   *)
(* was moved in the meantime, and not again from the copy of a child of a  *)
(* pipe (that is what _exit() is for).  The readers of here-documents, and *)
(* children whose ft_open() fails, do use exit(), and a child may fill its *)
(* copy.                                                                   *)
PrintedOnce ==
  Settled => \A u \in Range(printed) : u.by = "shell" /\ u.id \notin copied =>
    \E place \in Place : OnlyIn(u, place)

(* Where what was printed goes: where it belongs, but the left side        *)
(* `pwd << E >` has lost its pipe to the refused redirection.              *)
Goes(u) ==
  IF u.to = "pipe" /\ u.line[1].doc /\ u.line[1].to = "noname" THEN "out" ELSE u.to

(* At a terminal everything is where it belongs, at once, pipes and files  *)
(* included, whatever forks and redirections are in between, if the first  *)
(* thing that is printed goes to the terminal: that alone decides how all  *)
(* processes of the session buffer.  In a script too, what the shell prints*)
(* without redirection on a typed line is on the standard output before the*)
(* next line is read, or two here-documents were on its line.              *)
PrintedThere ==
  /\ terminal /\ mode["shell"] = "line" =>
       \A u \in Range(printed) : u.phase = "prompt" => OnlyIn(u, Goes(u))
  /\ Settled => \A u \in Range(printed) :
       /\ u.phase = "prompt" /\ u.by = "shell" /\ u.to = "out"
       /\ \E i \in DOMAIN u.line : ~u.line[i].doc
       => ~Never(u, reached["out"])
=============================================================================
