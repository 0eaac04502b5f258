---------------------------- MODULE Environment ----------------------------
(***************************************************************************)
(* The variables of the shell and its working directory: the list that the *)
(* builtins keep (sh->env_list), the environment of the C library that     *)
(* setenv and getenv use, the rc file's PATH lines, and the programs that  *)
(* are found in PATH and given the list.                                   *)
(*                                                                         *)
(* A value is a sequence of directories: PATH is a list of them (an empty  *)
(* entry does not count, find_path() drops it), what cd can go to is a     *)
(* sequence of one.  Other processes make and remove directories at any    *)
(* time.  Printing (env, export without arguments) and sizes of buffers    *)
(* other than get_pwd's are left out.                                      *)
(*                                                                         *)
(* EnvLinkListAll, AddLinkListAlways, ExportsListOnly, UnsetHead,          *)
(* UnsetBoth, ChangeDirOnly and FindPathGetenv are no part of the          *)
(* specification: each is the definition that follows it with a plausible  *)
(* mistake in it.                                                          *)
(***************************************************************************)
EXTENDS Integers, Sequences

CONSTANTS
  Name,                      \* the names of variables
  Home, OldPwd, Path, Pwd,   \* HOME, OLDPWD, PATH and PWD
  Dir,                       \* directories
  Bin,                       \* d/bin, for each directory d
  Deep,                      \* those whose path get_pwd's buffer cannot hold
  Unset, Declared,           \* no variable; one without a value
  Envp,                      \* the environments the shell may be started in
  ExportArgs, UnsetArgs,     \* the argument lists of export and unset that
                             \* the user types
  CdArg,                     \* the arguments of cd that the user types
  Installed,                 \* what the directories hold under the name of a
                             \* program: nothing, it, or what is not executable
  Fragile,                   \* the directories that others remove and make
  RcValue,                   \* the values of PATH= lines in the rc file
  MaxCommands, MaxRc         \* bounds: commands, PATH= lines

Value == Seq(Dir)
Node == [key : Name, val : Value \cup {Declared}]

(* An argument of export: the name key_check() finds at its start, whether *)
(* there is a '=', what follows it, and the identifier's flaw: none, in    *)
(* its first character, or later (a-b: key_check finds a).                 *)
Input == [key : Name, eq : BOOLEAN, val : Value, flaw : {"none", "first", "later"}]

(* An argument of cd: the directory its text names; whether there is a '-',*)
(* a '/', a '~' before any '/'; and where a '~/...' leads from each        *)
(* directory.                                                              *)
CdShape == [dir : Dir, dash : BOOLEAN, slash : BOOLEAN, tilde : BOOLEAN,
            rest : [Dir -> Dir]]

Names(l) == {l[i].key : i \in DOMAIN l}
Unique(l) == \A i, j \in DOMAIN l : l[i].key = l[j].key => i = j

ASSUME EnvironmentAssumption ==
  /\ {Home, OldPwd, Path, Pwd} \subseteq Name
  /\ Path \notin {Home, OldPwd, Pwd}
  /\ Bin \in [Dir -> Dir] /\ Deep \subseteq Dir
  /\ Unset # Declared /\ {Unset, Declared} \cap Value = {}
  /\ ExportArgs \subseteq Seq(Input) /\ UnsetArgs \subseteq Seq(Name)
  /\ Installed \in [Dir -> {"nothing", "program", "plain"}]
  /\ CdArg \subseteq CdShape /\ RcValue \subseteq Value /\ Fragile \subseteq Dir
  /\ MaxCommands \in Nat /\ MaxRc \in Nat

(* The shell is started with each name once, and a PWD that is a directory;*)
(* HOME, PWD and PATH may all be missing (env -i).                         *)
ASSUME EnvpAssumption ==
  \A l \in Envp :
    /\ l \in Seq([key : Name, val : Value])
    /\ Unique(l)
    /\ \A i \in DOMAIN l : l[i].key = Pwd => Len(l[i].val) = 1

VARIABLES
  list,     \* sh->env_list
  environ,  \* what getenv returns for each name, Unset for NULL
  cwd,      \* the working directory
  there,    \* the directories that exist
  gone,     \* the working directory has been removed
  todo,     \* the builtin that is running and the arguments it has left, or
            \* the program that is to be run, found by name or by path
  status,   \* g_exit_status
  phase,    \* the shell reads the rc file, prompts, or has crashed
  nrc,      \* PATH= lines read
  ncmd      \* commands run
vars == <<list, environ, cwd, there, gone, todo, status, phase, nrc, ncmd>>
place == <<cwd, there, gone>>

Idle == [op |-> "none", args |-> <<>>]
Return(s) == todo' = Idle /\ status' = s

(***************************************************************************)
(* 09f_env.c, 09d_export.c.                                                *)
(***************************************************************************)
(* The first node with the key: every search of the list stops there. *)
First(l, n) == CHOOSE i \in DOMAIN l : l[i].key = n /\ \A j \in 1 .. i - 1 : l[j].key # n

Lookup(l, n) == IF n \in Names(l) THEN l[First(l, n)].val ELSE Unset

(* existed_env(): NULL for no node and for a node without a value. *)
Existed(n) == Lookup(list, n) \notin {Unset, Declared}

(* env_link_list(): a node for each entry of envp. *)
EnvLinkListAll(l) == Append(l, [key |-> Path, val |-> Unset])
EnvLinkList(l) == l

AddLinkListAlways(l, in) ==
  Append(l, [key |-> in.key, val |-> IF in.eq THEN in.val ELSE Declared])
AddLinkList(l, in) ==
  IF in.key \notin Names(l)
    THEN Append(l, [key |-> in.key, val |-> IF in.eq THEN in.val ELSE Declared])
    ELSE IF in.eq THEN [l EXCEPT ![First(l, in.key)].val = in.val]
    ELSE l

(* setenv(name, value, 1). *)
SetEnv(env, n, v) == [env EXCEPT ![n] = v]

(* What add_link_list() does with an accepted argument. *)
ExportsListOnly(in) == list' = AddLinkList(list, in) /\ UNCHANGED environ
Exports(in) ==
  /\ list' = AddLinkList(list, in)
  /\ environ' = IF in.eq THEN SetEnv(environ, in.key, in.val) ELSE environ

Assignment(n, v) == [key |-> n, eq |-> TRUE, val |-> v, flaw |-> "none"]

(* invalid_identifier(): characters after the first are only looked at as  *)
(* far as the '='.                                                         *)
InvalidIdentifier(in) == in.flaw = "first" \/ (in.flaw = "later" /\ in.eq)

(* One turn of the loop of export(): the first bad argument ends it. *)
ExportNext ==
  /\ todo.op = "export"
  /\ LET in == Head(todo.args)
     IN  IF InvalidIdentifier(in)
           THEN Return(1) /\ UNCHANGED <<list, environ>>
           ELSE /\ Exports(in)
                /\ IF Len(todo.args) = 1 THEN Return(0)
                   ELSE /\ todo' = [todo EXCEPT !.args = Tail(@)]
                        /\ UNCHANGED status
  /\ UNCHANGED <<place, phase, nrc, ncmd>>

(***************************************************************************)
(* 09e_unset.c: the list, and not the environment of the C library.        *)
(***************************************************************************)
Before(l, k) == SubSeq(l, 1, k - 1)
After(l, k) == SubSeq(l, k + 1, Len(l))

UnsetHead(l, n) == IF n \in Names(l) THEN After(l, First(l, n)) ELSE l
UnsetHelper(l, n) ==
  IF n \in Names(l) THEN Before(l, First(l, n)) \o After(l, First(l, n)) ELSE l

UnsetStep ==
  /\ todo.op = "unset"
  /\ list' = UnsetHelper(list, Head(todo.args))
  /\ IF Len(todo.args) = 1 THEN Return(0)
     ELSE todo' = [todo EXCEPT !.args = Tail(@)] /\ UNCHANGED status
UnsetBoth ==
  /\ UnsetStep
  /\ environ' = [environ EXCEPT ![Head(todo.args)] = Unset]
  /\ UNCHANGED <<place, phase, nrc, ncmd>>
UnsetNext ==
  /\ UnsetStep
  /\ UNCHANGED <<environ, place, phase, nrc, ncmd>>

(***************************************************************************)
(* The commands: a line of the rc file or of the user starts them, and     *)
(* setenv and unsetenv are the same.  Before it reads a line, the prompt   *)
(* measures getenv("HOME"), which must not be NULL.                        *)
(***************************************************************************)
GetPromptStr ==
  /\ phase = "prompt" /\ todo = Idle /\ environ[Home] = Unset
  /\ phase' = "crashed"
  /\ UNCHANGED <<list, environ, place, todo, status, nrc, ncmd>>

Ready ==
  /\ todo = Idle /\ phase # "crashed"
  /\ phase = "prompt" => environ[Home] # Unset
  /\ ncmd < MaxCommands /\ ncmd' = ncmd + 1
Start(op, args) ==
  IF args = <<>> THEN Return(0)
  ELSE todo' = [op |-> op, args |-> args] /\ UNCHANGED status

Command ==
  /\ Ready
  /\ \/ \E args \in ExportArgs : Start("export", args)
     \/ \E args \in UnsetArgs : Start("unset", args)
  /\ UNCHANGED <<list, environ, place, phase, nrc>>

(***************************************************************************)
(* 09b_cd.c.                                                               *)
(***************************************************************************)
(* get_pwd(): getcwd() in a buffer of 256. *)
GetPwdFails == gone \/ cwd \in Deep

(* chdir() to a value. *)
Goes(v) == Len(v) = 1 /\ v[1] \in there

(* set_old_pwd() is export of OLDPWD. *)
ChangeDirOnly(d) ==
  /\ cwd' = d
  /\ UNCHANGED <<list, environ>>
ChangeDir(d) ==
  /\ cwd' = d
  /\ Exports(Assignment(OldPwd, <<cwd>>))

CdFails ==
  /\ UNCHANGED <<list, environ, cwd>>
  /\ Return(1)

(* cd without an argument: the result of chdir is not looked at. *)
CdHome ==
  /\ Ready
  /\ IF GetPwdFails \/ ~Existed(Home) THEN CdFails
     ELSE LET home == Lookup(list, Home)
          IN  ChangeDir(IF Goes(home) THEN home[1] ELSE cwd) /\ Return(0)
  /\ UNCHANGED <<there, gone, phase, nrc>>

CdTo(v) == IF Goes(v) THEN ChangeDir(v[1]) /\ Return(0) ELSE CdFails

ExpandsTilde(a) == a.tilde /\ ~a.slash
ExpandsDash(a) == a.dash /\ ~a.tilde /\ ~a.slash
ExpandsTildeSlash(a) == a.tilde /\ a.slash

(* HOME/..., or NULL, which no chdir accepts. *)
HomeSlash(a) ==
  LET home == Lookup(list, Home)
  IN  IF Existed(Home) /\ Len(home) = 1 THEN <<a.rest[home[1]]>> ELSE <<>>

(* tilda_dash_helper() and what follows. *)
Cd(a) ==
  /\ Ready /\ a \in CdArg
  /\ ~(ExpandsTilde(a) /\ ~Existed(Home)) \/ GetPwdFails
  /\ IF GetPwdFails THEN CdFails
     ELSE IF ExpandsTilde(a) THEN CdTo(Lookup(list, Home))
     ELSE IF ExpandsDash(a)
       THEN IF Existed(OldPwd) THEN CdTo(Lookup(list, OldPwd)) ELSE CdFails
     ELSE IF ExpandsTildeSlash(a) THEN CdTo(HomeSlash(a))
     ELSE CdTo(<<a.dir>>)
  /\ UNCHANGED <<there, gone, phase, nrc>>

(* expand_tilda_only() hands NULL to ft_strdup(). *)
CdCrashes ==
  /\ Ready /\ ~GetPwdFails /\ ~Existed(Home)
  /\ \E a \in CdArg : ExpandsTilde(a)
  /\ phase' = "crashed"
  /\ UNCHANGED <<list, environ, place, todo, status, nrc>>

(***************************************************************************)
(* 06b_exec_path.c, and exec_cmd() with env_list_to_arr().                 *)
(***************************************************************************)
FindPathGetenv == IF environ[Path] # Unset THEN environ[Path] ELSE <<>>
FindPath == IF Existed(Path) THEN Lookup(list, Path) ELSE <<>>

(* access(): join_path_helper() asks for F_OK, get_exe_path() for X_OK. *)
HasFile(d) == d \in there /\ Installed[d] # "nothing"
HasProgram(d) == d \in there /\ Installed[d] = "program"

(* The first entry with a file of that name ends the search. *)
JoinPath(path, found) ==
  \/ found = <<>> /\ \A i \in DOMAIN path : ~HasFile(path[i])
  \/ \E i \in DOMAIN path :
       /\ HasFile(path[i]) /\ \A j \in 1 .. i - 1 : ~HasFile(path[j])
       /\ found = <<path[i]>>

(* A word without '/' is looked for in PATH, a path is taken as it is. *)
GetExePath(op, found) ==
  \/ op = "name" /\ JoinPath(FindPath, found)
  \/ op = "path" /\ \A i \in DOMAIN found : HasProgram(found[i])

(* The values of n in the array env_list_to_arr() makes for a program.     *)
Given(n) == {list[i].val : i \in {j \in DOMAIN list : list[j].key = n}} \ {Declared}

Found == {<<>>} \cup {<<d>> : d \in Dir}

ExecCmd ==
  /\ Ready
  /\ \E op \in {"name", "path"}, found \in Found :
       GetExePath(op, found) /\ todo' = [op |-> op, args |-> found]
  /\ UNCHANGED <<list, environ, place, status, phase, nrc>>

(* The child: execve(), of NULL too, or _exit(EXIT_NO_CMD). *)
Execve ==
  /\ todo.op \in {"name", "path"}
  /\ IF todo.args # <<>> /\ HasProgram(todo.args[1])
       THEN todo' = [todo EXCEPT !.op = "runs"] /\ UNCHANGED status
       ELSE Return(127)
  /\ UNCHANGED <<list, environ, place, phase, nrc, ncmd>>

(* The program is external. *)
ProgramEnds ==
  /\ todo.op = "runs"
  /\ \E s \in {0, 1} : Return(s)
  /\ UNCHANGED <<list, environ, place, phase, nrc, ncmd>>

(***************************************************************************)
(* The rc file: set_path(), or a command as above.                         *)
(***************************************************************************)
NewPath(v, env) == v \o (IF env[Path] = Unset THEN <<>> ELSE env[Path])

SetPath ==
  /\ phase = "rc" /\ todo = Idle /\ nrc < MaxRc
  /\ \E v \in RcValue : Exports(Assignment(Path, NewPath(v, environ)))
  /\ nrc' = nrc + 1
  /\ UNCHANGED <<place, todo, status, phase, ncmd>>

EndOfRc ==
  /\ phase = "rc" /\ todo = Idle
  /\ phase' = "prompt"
  /\ UNCHANGED <<list, environ, place, todo, status, nrc, ncmd>>

(* Other processes: a working directory that is removed stays lost, even   *)
(* if another of its name is made.                                         *)
Rmdir(d) ==
  /\ d \in there
  /\ there' = there \ {d}
  /\ gone' = (gone \/ d = cwd)
  /\ UNCHANGED <<list, environ, cwd, todo, status, phase, nrc, ncmd>>
Mkdir(d) ==
  /\ d \notin there
  /\ there' = there \cup {d}
  /\ UNCHANGED <<list, environ, cwd, gone, todo, status, phase, nrc, ncmd>>

(***************************************************************************)
(* The specification.                                                      *)
(***************************************************************************)
(* add_local_bin_to_path() puts PWD/bin in front of PATH with setenv, and  *)
(* only then envp is copied: setenv replaces an entry in place, but a new  *)
(* one goes to a new array that envp is not.  Without PWD it is (null)/bin,*)
(* which is no directory.                                                  *)
LocalBin(l) ==
  LET old == Lookup(l, Path)
  IN  (IF Pwd \in Names(l) THEN <<Bin[Lookup(l, Pwd)[1]]>> ELSE <<>>)
        \o (IF old = Unset THEN <<>> ELSE old)
InPlace(l) ==
  IF Path \in Names(l) THEN [l EXCEPT ![First(l, Path)].val = LocalBin(l)] ELSE l

Init ==
  /\ \E l \in Envp :
       /\ list = EnvLinkList(InPlace(l))
       /\ environ = [n \in Name |-> IF n = Path THEN LocalBin(l) ELSE Lookup(l, n)]
  /\ cwd \in Dir /\ there = Dir /\ gone = FALSE
  /\ todo = Idle /\ status = 0
  /\ phase = "rc" /\ nrc = 0 /\ ncmd = 0

Next ==
  \/ GetPromptStr \/ Command \/ ExportNext \/ UnsetNext
  \/ ExecCmd \/ Execve \/ ProgramEnds
  \/ CdHome \/ CdCrashes
  \/ \E a \in CdArg : Cd(a)
  \/ SetPath \/ EndOfRc
  \/ \E d \in Fragile : Rmdir(d) \/ Mkdir(d)

Spec == Init /\ [][Next]_vars

(***************************************************************************)
(* Properties.                                                             *)
(***************************************************************************)
(* Every variable has its type; a running builtin has an argument left. *)
TypeOK ==
  /\ list \in Seq(Node)
  /\ environ \in [Name -> Value \cup {Unset}]
  /\ cwd \in Dir /\ there \subseteq Dir /\ gone \in BOOLEAN
  /\ \/ todo = Idle
     \/ todo \in [op : {"export"}, args : Seq(Input) \ {<<>>}]
     \/ todo \in [op : {"unset"}, args : Seq(Name) \ {<<>>}]
     \/ todo \in [op : {"name", "path", "runs"}, args : Found]
  /\ status \in {0, 1, 127}
  /\ phase \in {"rc", "prompt", "crashed"}
  /\ nrc \in 0 .. MaxRc /\ ncmd \in 0 .. MaxCommands

(* No name is in the list twice, whatever sequence of export, unset, cd    *)
(* and PATH= lines built it: env_list_to_arr() gives a program one value   *)
(* for each name, and unset has nothing left to uncover.                   *)
UniqueNames == Unique(list)

(* What a program is given in its environment, built from the list, is     *)
(* what the shell itself finds with getenv: the two copies, written one    *)
(* after the other in export and set_path, never disagree about a value.   *)
CopiesAgree == \A i \in DOMAIN list : list[i].val # Declared => environ[list[i].key] = list[i].val

(* Once getenv finds HOME it always does, whatever is exported and unset:  *)
(* a shell that was started with HOME, or whose rc file exports it, draws  *)
(* every prompt (get_prompt_str() does not look at what getenv returns).   *)
PromptHasHome == [][environ[Home] # Unset => environ'[Home] # Unset]_vars

(* A directory is only left with OLDPWD set to it, so that `cd -` leads    *)
(* back (cd with and without argument).                                    *)
OldPwdFollows == [][cwd' # cwd => Lookup(list', OldPwd) = <<cwd>>]_vars

(* A word without '/' runs a program only from the PATH in the environment *)
(* the program itself is given, and from the first directory of it that has*)
(* a file of the name; and a program in that PATH is only passed over for  *)
(* a file before it that cannot be executed: the status is 127 then, where *)
(* README.md and minishell.h have 126.  That holds from the search to execve(), whatever export, unset *)
(* and the rc file did to the two copies of PATH before, except for        *)
(* directories that others remove or make in between.                      *)
FirstFile(path, i) ==
  Installed[path[i]] # "nothing"
    /\ \A j \in 1 .. i - 1 : path[j] \in Fragile \/ Installed[path[j]] = "nothing"
Refused(path) == \E i \in DOMAIN path : FirstFile(path, i) /\ Installed[path[i]] = "plain"
Answer ==
  /\ todo'.op = "runs" => \E path \in Given(Path) : \E i \in DOMAIN path :
       FirstFile(path, i) /\ Installed[path[i]] = "program" /\ todo'.args = <<path[i]>>
  /\ todo' = Idle => \A path \in Given(Path) :
       ~Refused(path) => \A i \in DOMAIN path :
         Installed[path[i]] = "program" => \E j \in 1 .. i : path[j] \in Fragile
FoundAsGiven == [][todo.op = "name" => Answer]_vars

(* The list is the variables of the abstract specification. *)
Abstract == INSTANCE Variables WITH
  variables <- [n \in Name |-> Lookup(list, n)], dir <- cwd
ImplementsVariables == Abstract!Spec
=============================================================================
