------------------------------- MODULE Shells -------------------------------
(***************************************************************************)
(* The lives of several shells of one project, some of them in one         *)
(* directory: start-up and the rc file, the loop of the prompt with its    *)
(* history, exit, and the here-document's file .here_doc_tmp, which is one *)
(* name per directory and belongs to every shell there.                    *)
(*                                                                         *)
(* A line is only what these parts of the shell make of it (Line below);   *)
(* what its commands do is in Executor.  A document is the sequence of the *)
(* shells that wrote its lines.  A user types any line at any prompt, and  *)
(* may close the terminal at any moment.                                   *)
(*                                                                         *)
(* OpensAny, CreateOverwrites, FlagUnread, FreedAgain, HistoryOfRun,       *)
(* DocInRoot and ResetReadOnly are no part of the specification: each is   *)
(* the definition that follows it with a plausible mistake in it.          *)
(***************************************************************************)
EXTENDS Integers, SequencesExt, FiniteSetsExt

CONSTANTS
  Shell,                \* shells, each run once
  Directory,            \* directories
  Root,                 \* the directory of the program
  Writable,             \* the directories in which files can be made
  Inode,                \* inodes for .here_doc_tmp
  NoFile,               \* no file; no descriptor
  RcFiles, HomeFiles,   \* the rc files there may be when the first shell starts
  Typed,                \* the kinds of lines the users type
  MaxTyped, MaxDoc      \* bounds: lines typed at all prompts, lines of a document

(* A line of text: nothing; one that expand() or the lexer leaves without  *)
(* a token (an open quote, an unset variable); `exit` with at most one     *)
(* argument or with more; cd; a command, or cd, with a here-document; any  *)
(* other.                                                                  *)
Line == {"empty", "refused", "exit", "toomany", "cd", "doc", "doccd", "plain"}

(* A line of the rc file may also be blank, a comment or a PATH= line. *)
RcLine == (Line \ {"empty"}) \cup {"skip"}
Header == <<"skip", "skip", "skip", "skip">>

ASSUME ShellsAssumption ==
  /\ Root \in Directory /\ Writable \subseteq Directory
  /\ NoFile \notin Inode \cup Seq(RcLine)
  /\ RcFiles \cup HomeFiles \subseteq Seq(RcLine) \cup {NoFile}
  /\ Typed \subseteq Line /\ MaxTyped \in Nat /\ MaxDoc \in Nat

VARIABLES
  sh,        \* the state of each shell
  cwd,       \* the directory each shell is in
  rc,        \* the project's rc file
  home,      \* the one in HOME
  tmp,       \* the inode .here_doc_tmp names, in each directory
  cells,     \* what is in each inode: the shells that wrote its lines
  typed,     \* history variable: the lines typed at each prompt
  disturbed  \* history variable: the shells whose document another shell of
             \* their directory made or removed while it was theirs
vars == <<sh, cwd, rc, home, tmp, cells, typed, disturbed>>
files == <<rc, home>>
docs == <<tmp, cells, disturbed>>

At == {"off", "start", "create", "header", "rc", "banner", "prompt",
       "unlink", "creat", "type", "access", "open", "command", "reset",
       "left", "norc", "nobanner", "failed", "aborted", "killed"}
Ended == {"left", "norc", "nobanner", "failed", "aborted", "killed"}

(* todo: the lines of the rc file that are left.  from: whose line runs.   *)
(* text: the line's text: none, allocated, or freed twice.  moves: its     *)
(* command is cd.  out, off: the descriptor that writes the document and   *)
(* its offset.  in: the one that reads it.                                 *)
State == [at : At, flag : BOOLEAN, todo : Seq(RcLine), from : {"rc", "prompt"},
          text : {"none", "held", "twice"}, index : Nat,
          history : Seq([id : Nat, cmd : Line]), moves : BOOLEAN,
          out : Inode \cup {NoFile}, off : Nat, in : Inode \cup {NoFile}]
Off == [at |-> "off", flag |-> FALSE, todo |-> <<>>, from |-> "rc", text |-> "none",
        index |-> 0, history |-> <<>>, moves |-> FALSE, out |-> NoFile, off |-> 0,
        in |-> NoFile]

Goes(s, at) == sh' = [sh EXCEPT ![s].at = at]

(***************************************************************************)
(* main() up to the prompt.                                                *)
(***************************************************************************)
(* init_root() *)
Starts(s) ==
  /\ sh[s].at = "off"
  /\ Goes(s, "start")
  /\ UNCHANGED <<cwd, files, docs, typed>>

(* source_rc(): the project's file, or the one in HOME, is opened. *)
OpensAny(s) ==
  /\ sh[s].at = "start"
  /\ sh' = [sh EXCEPT ![s].at = "rc", ![s].todo = IF rc = NoFile THEN home ELSE rc]
  /\ UNCHANGED <<cwd, files, docs, typed>>
SourceRc(s) ==
  /\ sh[s].at = "start"
  /\ LET file == IF rc = NoFile THEN home ELSE rc
     IN  sh' = IF file = NoFile THEN [sh EXCEPT ![s].at = "create"]
               ELSE [sh EXCEPT ![s].at = "rc", ![s].todo = file]
  /\ UNCHANGED <<cwd, files, docs, typed>>

(* create_empty_rc(): O_EXCL, and ft_open() exits if there is a file now   *)
(* or the directory is not writable.                                       *)
CreateOverwrites(s) ==
  /\ sh[s].at = "create"
  /\ Root \in Writable
  /\ rc' = <<>> /\ Goes(s, "header")
  /\ UNCHANGED <<cwd, home, docs, typed>>
CreateEmptyRc(s) ==
  /\ sh[s].at = "create"
  /\ IF rc = NoFile /\ Root \in Writable
       THEN rc' = <<>> /\ Goes(s, "header")
       ELSE Goes(s, "norc") /\ UNCHANGED rc
  /\ UNCHANGED <<cwd, home, docs, typed>>

WriteHeader(s) ==
  /\ sh[s].at = "header"
  /\ rc' = Header /\ Goes(s, "banner")
  /\ UNCHANGED <<cwd, home, docs, typed>>

(* load_banner(): ft_open() exits without banner.txt. *)
PrintBanner(s) ==
  /\ sh[s].at = "banner"
  /\ \/ sh' = [sh EXCEPT ![s].at = "prompt", ![s].from = "prompt"]
     \/ Goes(s, "nobanner")
  /\ UNCHANGED <<cwd, files, docs, typed>>

(***************************************************************************)
(* A line: what comes before its commands, and after them.                 *)
(***************************************************************************)
Begins(st, line) ==
  CASE line \in {"doc", "doccd"} -> [st EXCEPT !.at = "unlink", !.moves = line = "doccd"]
    [] line = "exit" -> [st EXCEPT !.at = "reset", !.flag = TRUE]
    [] line = "toomany" -> [st EXCEPT !.at = "reset", !.flag = FALSE]
    [] line = "cd" -> [st EXCEPT !.at = "command", !.moves = TRUE]
    [] OTHER -> [st EXCEPT !.at = "reset"]

(* free(cmd) *)
Freed(st) == [st EXCEPT !.text = IF @ = "held" THEN "none" ELSE "twice"]

(* prompt(): the end of its loop. *)
FlagUnread(st) == [st EXCEPT !.at = "prompt"]
Loops(st) == [st EXCEPT !.at = IF st.flag THEN "left" ELSE "prompt"]

(* run_rc() and exec_rc_cmd(): the lexer has freed the text it refuses     *)
(* when it is freed again, and the C library may end the program for it.   *)
RcNext(s) ==
  /\ sh[s].at = "rc"
  /\ LET line == Head(sh[s].todo)
         rest == [sh[s] EXCEPT !.todo = Tail(@)]
     IN  IF sh[s].todo = <<>>
           THEN sh' = [sh EXCEPT ![s].at = "banner"]
         ELSE IF line = "skip" THEN sh' = [sh EXCEPT ![s] = rest]
         ELSE IF line = "refused"
           THEN \/ sh' = [sh EXCEPT ![s] = [rest EXCEPT !.at = "aborted", !.text = "twice"]]
                \/ sh' = [sh EXCEPT ![s] = rest]
         ELSE sh' = [sh EXCEPT ![s] = Begins([rest EXCEPT !.text = "held"], line)]
  /\ UNCHANGED <<cwd, files, docs, typed>>

(* history_add() *)
HistoryAdd(st, line) ==
  [st EXCEPT !.index = @ + 1,
             !.history = Append(@, [id |-> st.index + 1, cmd |-> line])]

(* readline() and lexer_paser_exec(): a refused line's text is freed by    *)
(* the lexer, and the loop goes on without a look at the flag.             *)
FreedAgain(s, line) ==
  LET st == HistoryAdd([sh[s] EXCEPT !.text = "held"], line)
  IN  IF line = "empty" THEN Loops(Freed([sh[s] EXCEPT !.text = "held"]))
      ELSE IF line = "refused" THEN Loops(Freed(Freed(st)))
      ELSE Begins(st, line)
HistoryOfRun(s, line) ==
  LET st == [sh[s] EXCEPT !.text = "held"]
  IN  IF line = "empty" THEN Loops(Freed(st))
      ELSE IF line = "refused" THEN Freed(st)
      ELSE Begins(HistoryAdd(st, line), line)
LexerPaserExec(s, line) ==
  LET st == HistoryAdd([sh[s] EXCEPT !.text = "held"], line)
  IN  IF line = "empty" THEN Loops(Freed([sh[s] EXCEPT !.text = "held"]))
      ELSE IF line = "refused" THEN Freed(st)
      ELSE Begins(st, line)

Readline(s) ==
  /\ sh[s].at = "prompt"
  /\ MapThenSumSet(LAMBDA t : Len(typed[t]), Shell) < MaxTyped
  /\ \E line \in Typed :
       /\ typed' = [typed EXCEPT ![s] = Append(@, line)]
       /\ sh' = [sh EXCEPT ![s] = LexerPaserExec(s, line)]
  /\ UNCHANGED <<cwd, files, docs>>

(* Ctrl-D: exit_prompt() *)
EndOfInput(s) ==
  /\ sh[s].at = "prompt"
  /\ Goes(s, "left")
  /\ UNCHANGED <<cwd, files, docs, typed>>

(***************************************************************************)
(* The here-document of a line, and the end of the line.                   *)
(***************************************************************************)
(* The file's name is relative. *)
DocInRoot(s) == Root
Doc(s) == cwd[s]

(* The other shells of the directory that have linked a document and not   *)
(* opened it yet, and those that have not ended theirs.                    *)
Neighbours(s, at) == {t \in Shell \ {s} : cwd[t] = cwd[s] /\ sh[t].at \in at}
Linked == {"type", "access", "open"}
Busy == Linked \cup {"creat", "command"}

(* heredoc_fd(): what a shell before it has left is unlinked ... *)
DocUnlink(s) ==
  /\ sh[s].at = "unlink"
  /\ tmp' = [tmp EXCEPT ![Doc(s)] = NoFile]
  /\ disturbed' = disturbed \cup Neighbours(s, Linked)
  /\ Goes(s, "creat")
  /\ UNCHANGED <<cwd, files, cells, typed>>

(* An inode that nobody can read any more is as good as a new one. *)
Held(i) == (\E d \in Directory : tmp[d] = i) \/ (\E s \in Shell : i \in {sh[s].out, sh[s].in})

(* ... and the file made, or emptied if somebody has made it since. *)
DocCreate(s) ==
  /\ sh[s].at = "creat"
  /\ IF tmp[Doc(s)] = NoFile /\ Doc(s) \notin Writable
       THEN Goes(s, "failed") /\ UNCHANGED docs
       ELSE \E i \in Inode :
              /\ IF tmp[Doc(s)] = NoFile THEN ~Held(i) ELSE i = tmp[Doc(s)]
              /\ tmp' = [tmp EXCEPT ![Doc(s)] = i]
              /\ cells' = [cells EXCEPT ![i] = <<>>]
              /\ sh' = [sh EXCEPT ![s].at = "type", ![s].out = i, ![s].off = 0]
              /\ disturbed' = disturbed \cup Neighbours(s, Busy)
  /\ UNCHANGED <<cwd, files, typed>>

(* heredoc_child() writes a line at its own offset.  Past the end of a     *)
(* file that another shell has emptied, what is between reads as nobody's. *)
DocLine(s) ==
  /\ sh[s].at = "type" /\ sh[s].off < MaxDoc
  /\ LET i == sh[s].out
         n == sh[s].off
     IN  cells' = [cells EXCEPT ![i] =
                     [k \in 1 .. IF Len(@) > n THEN Len(@) ELSE n + 1 |->
                        IF k = n + 1 THEN s ELSE IF k <= Len(@) THEN @[k] ELSE NoFile]]
  /\ sh' = [sh EXCEPT ![s].off = @ + 1]
  /\ UNCHANGED <<cwd, files, tmp, disturbed, typed>>

(* The delimiter or Ctrl-D; Ctrl-C gives the document up. *)
DocEnd(s) ==
  /\ sh[s].at = "type"
  /\ \E at \in {"access", "reset"} :
       sh' = [sh EXCEPT ![s].at = at, ![s].out = NoFile]
  /\ UNCHANGED <<cwd, files, docs, typed>>

(* heredoc_parent(): without the file the command is not run; a file that  *)
(* goes between access() and ft_open() ends the shell.                     *)
DocAccess(s) ==
  /\ sh[s].at = "access"
  /\ Goes(s, IF tmp[Doc(s)] = NoFile THEN "reset" ELSE "open")
  /\ UNCHANGED <<cwd, files, docs, typed>>
DocOpen(s) ==
  /\ sh[s].at = "open"
  /\ sh' = IF tmp[Doc(s)] = NoFile THEN [sh EXCEPT ![s].at = "failed"]
           ELSE [sh EXCEPT ![s].at = "command", ![s].in = tmp[Doc(s)]]
  /\ UNCHANGED <<cwd, files, docs, typed>>

(* The command reads its input and ends. *)
Command(s) ==
  /\ sh[s].at = "command"
  /\ sh' = [sh EXCEPT ![s].at = "reset", ![s].in = NoFile, ![s].moves = FALSE]
  /\ IF sh[s].moves THEN \E d \in Directory : cwd' = [cwd EXCEPT ![s] = d]
     ELSE UNCHANGED cwd
  /\ UNCHANGED <<files, docs, typed>>

(* reset_data(), and the caller: the file goes, whoever made it. *)
AfterLine(st) ==
  LET clean == Freed([st EXCEPT !.off = 0])
  IN  IF st.from = "rc" THEN [clean EXCEPT !.at = "rc"] ELSE Loops(clean)
Resets(s) ==
  /\ sh[s].at = "reset"
  /\ disturbed' = (disturbed \cup Neighbours(s, Linked)) \ {s}
  /\ sh' = [sh EXCEPT ![s] = AfterLine(@)]
  /\ UNCHANGED <<cwd, files, cells, typed>>
ResetReadOnly(s) ==
  /\ Resets(s)
  /\ IF sh[s].off = 0 THEN UNCHANGED tmp ELSE tmp' = [tmp EXCEPT ![Doc(s)] = NoFile]
ResetData(s) ==
  /\ Resets(s)
  /\ tmp' = [tmp EXCEPT ![Doc(s)] = NoFile]

(***************************************************************************)
(* What the users do besides typing.                                       *)
(***************************************************************************)
(* The terminal is closed: SIGHUP ends the shell and its child. *)
Hangup(s) ==
  /\ sh[s].at \notin Ended \cup {"off"}
  /\ sh' = [sh EXCEPT ![s] = [Off EXCEPT !.at = "killed"]]
  /\ UNCHANGED <<cwd, files, docs, typed>>

(* Somebody writes an rc file. *)
UserWritesRc ==
  /\ rc = NoFile
  /\ rc' \in RcFiles \ {NoFile}
  /\ UNCHANGED <<sh, cwd, home, docs, typed>>

Init ==
  /\ sh = [s \in Shell |-> Off] /\ cwd \in [Shell -> Directory]
  /\ rc \in RcFiles /\ home \in HomeFiles
  /\ tmp = [d \in Directory |-> NoFile]
  /\ cells = [i \in Inode |-> <<>>]
  /\ typed = [s \in Shell |-> <<>>]
  /\ disturbed = {}

Next ==
  \/ \E s \in Shell :
       \/ Starts(s) \/ SourceRc(s) \/ CreateEmptyRc(s) \/ WriteHeader(s)
       \/ PrintBanner(s) \/ RcNext(s) \/ Readline(s) \/ EndOfInput(s)
       \/ DocUnlink(s) \/ DocCreate(s) \/ DocLine(s) \/ DocEnd(s)
       \/ DocAccess(s) \/ DocOpen(s) \/ Command(s) \/ ResetData(s)
       \/ Hangup(s)
  \/ UserWritesRc

Spec == Init /\ [][Next]_vars

(***************************************************************************)
(* Properties.                                                             *)
(***************************************************************************)
(* Every variable has its type. *)
TypeOK ==
  /\ sh \in [Shell -> State] /\ cwd \in [Shell -> Directory]
  /\ {rc, home} \subseteq Seq(RcLine) \cup {NoFile}
  /\ tmp \in [Directory -> Inode \cup {NoFile}]
  /\ cells \in [Inode -> Seq(Shell \cup {NoFile})]
  /\ typed \in [Shell -> Seq(Typed)]
  /\ disturbed \subseteq Shell

(* An rc file, once there is one, is only ever changed by the shell that   *)
(* made it and writes its header: of several shells that start at once,    *)
(* and a user who writes the file meanwhile, none overwrites another's     *)
(* (O_EXCL in create_empty_rc).                                            *)
RcKept == [][rc # NoFile /\ rc' # rc =>
               /\ rc = <<>> /\ rc' = Header
               /\ \E s \in Shell : sh[s].at = "header"]_vars

(* A shell whose user has typed an accepted `exit` reads no other line; if *)
(* it was the rc file that said exit, only refused lines have been read    *)
(* since (prompt() looks at exit_cmd_flag at one place of its loop).       *)
FlagAtPrompt ==
  \A s \in Shell : sh[s].at = "prompt" /\ sh[s].flag =>
    \A i \in DOMAIN typed[s] : typed[s][i] = "refused"

(* history shows the lines the user typed, refused ones too, in their      *)
(* order and numbered from 1, and nothing else: no empty line, no line of  *)
(* the rc file, no line of a document.                                     *)
Place(lines, i) == Cardinality({j \in 1 .. i : lines[j] # "empty"})
HistoryAsTyped ==
  \A s \in Shell : sh[s].at # "killed" =>
    /\ Len(sh[s].history) = Place(typed[s], Len(typed[s]))
    /\ \A i \in DOMAIN typed[s] :
         LET n == Place(typed[s], i)
         IN  typed[s][i] # "empty" => sh[s].history[n] = [id |-> n, cmd |-> typed[s][i]]

(* The text of a line is freed on every path of the loop, and by one of    *)
(* prompt(), the lexer and exec_rc_cmd() only: the exception is a line of  *)
(* the rc file that is refused, where the C library notices the second.    *)
TextFreedOnce ==
  \A s \in Shell :
    /\ sh[s].at \in {"rc", "prompt", "left"} => sh[s].text = "none"
    /\ sh[s].text = "twice" => sh[s].at = "aborted" /\ sh[s].from = "rc"

(* A command reads the lines its own user typed, all of them and in order, *)
(* whatever shells in other directories do, whatever a killed shell or an  *)
(* earlier line has left there: only another shell of the directory that   *)
(* makes or removes the file in the meantime can change that.              *)
OwnDocument ==
  \A s \in Shell :
    sh[s].at = "command" /\ sh[s].in # NoFile /\ s \notin disturbed =>
      cells[sh[s].in] = [k \in 1 .. sh[s].off |-> s]

(* When every shell has left by exit or Ctrl-D, no .here_doc_tmp is left,  *)
(* unless a line with a document has changed the directory: reset_data()   *)
(* then looks for the file in the wrong one.                               *)
NothingLeft ==
  /\ \A s \in Shell : sh[s].at = "left" /\ \A i \in DOMAIN typed[s] : typed[s][i] # "doccd"
  /\ \A file \in {rc, home} \ {NoFile} : \A i \in DOMAIN file : file[i] # "doccd"
  => \A d \in Directory : tmp[d] = NoFile
=============================================================================
