------------------------------ MODULE Daemons ------------------------------
(***************************************************************************)
(* dspawn, dkill and dcheck: any number of tools and daemons on two files  *)
(* without a lock, the registry (tmp/daemons.reg) and the graveyard        *)
(* (tmp/cematary.reg).                                                     *)
(*                                                                         *)
(* dspawn.c registers one base name, "deamon_eskimo".  A name is the       *)
(* sequence of its suffixes: <<>> is the base name, <<2>> the base name    *)
(* with ".2", <<2, 1>> that with ".1".  A file is the sequence of its      *)
(* lines; a read of it is one step, an O_APPEND write of a line another.   *)
(* Times and what is written to the log are left out.                      *)
(*                                                                         *)
(* CountOthers, CountExact, FollowingEarly, EnsureEmpties and CheckedEarly *)
(* are no part of the specification: each is the definition that follows   *)
(* it with a plausible mistake in it.                                      *)
(***************************************************************************)
EXTENDS Integers, SequencesExt, FiniteSetsExt

CONSTANTS Pid,         \* the process ids of daemons and of other programs
          Killer,      \* the runs of dkill and of dcheck at one time
          MAX_DAEMONS, \* the length of dkill's list
          MaxStarts,   \* bound: processes started
          OneTerminal  \* are all tools typed at one prompt?

ASSUME DaemonAssumption ==
  MAX_DAEMONS \in Nat /\ MaxStarts \in Nat /\ OneTerminal \in BOOLEAN /\ Pid \cap Killer = {}

VARIABLES
  there,   \* which of the directory tmp and its files there are
  ensure,  \* where each tool is in ensure_daemon_files()
  proc,    \* what each process id is used for
  count,   \* daemon_register's count
  reg,     \* the lines of the registry
  graves,  \* the lines of the graveyard
  tool,    \* the state of each dkill
  nstarts,
  raced,   \* history: a registration and another write of the registry met
  late     \* history: daemons that were not in the list of the dkill that
           \* emptied the registry
vars == <<there, ensure, proc, count, reg, graves, tool, nstarts, raced, late>>
history == <<raced, late>>
files == <<there, reg, graves>>

Name == Seq(Nat)
File == {"tmp", "reg", "graves", "log"}
Ensuring == {"none", "stat", "mkdir", "reg", "graves", "log", "done"}
Use == {"free", "other", "ensure", "read", "append", "work"}
Entry == [name : Name, pid : Pid]
Grave == [name : Name, by : Killer]

(* list: the lines the tool has read.  active: of those, the ones whose    *)
(* process existed: dkill's array, or what dcheck has shown so far.  i: the*)
(* line it is at.  all: the answer was 'a'.  since: history variable: the  *)
(* daemons that worked and were registered when the tool read the registry *)
(* (for dkill those in its array), and still work.                         *)
Step == {"idle", "ensure", "ask", "kill", "read", "append", "truncate", "check", "shown"}
Tool == [at : Step, list : Seq(Entry), i : Nat, all : BOOLEAN, count : Nat,
         active : SUBSET Nat, since : SUBSET Pid]
Idle == [at |-> "idle", list |-> <<>>, i |-> 0, all |-> FALSE, count |-> 0,
         active |-> {}, since |-> {}]

(* The lines whose name is `name` or starts with `name` and a dot. *)
CountOthers(file, name) == Cardinality({i \in DOMAIN file : IsPrefix(name, file[i].name)}) - 1
CountExact(file, name) == Cardinality({i \in DOMAIN file : file[i].name = name})
Count(file, name) == Cardinality({i \in DOMAIN file : IsPrefix(name, file[i].name)})

Suffixed(name, n) == IF n = 0 THEN name ELSE Append(name, n)

(* The shell prompts again when the process it has forked ends: dkill and  *)
(* dcheck when they are done, but dspawn at the first fork of its          *)
(* daemon_spawn(), before the daemon that is left of it has registered.    *)
Foreground == {p \in Pid : proc[p] = "ensure"}
MayStart == OneTerminal => Foreground = {} /\ \A k \in Killer : tool[k].at = "idle"

Working == {p \in Pid : proc[p] = "work"}
Between == {p \in Pid : proc[p] = "append"}

(***************************************************************************)
(* ensure_daemon_files(), the first thing each tool does.                  *)
(***************************************************************************)
(* create_dir_if_missing(): mkdir() may fail, because another tool was     *)
(* faster or because the directory of the project cannot be written; that  *)
(* is not looked at.                                                       *)
EnsureStat(x) ==
  /\ ensure[x] = "stat"
  /\ ensure' = [ensure EXCEPT ![x] = IF "tmp" \in there THEN "reg" ELSE "mkdir"]
  /\ UNCHANGED <<history, files, proc, count, tool, nstarts>>
EnsureMkdir(x) ==
  /\ ensure[x] = "mkdir"
  /\ there' \in {there, there \cup {"tmp"}}
  /\ ensure' = [ensure EXCEPT ![x] = "reg"]
  /\ UNCHANGED <<history, reg, graves, proc, count, tool, nstarts>>

NextFile == [reg |-> "graves", graves |-> "log", log |-> "done"]

(* create_file_if_missing() opens without O_TRUNC. *)
EnsureEmpties(x) ==
  /\ ensure[x] \in {"reg", "graves", "log"} /\ "tmp" \in there
  /\ there' = there \cup {ensure[x]}
  /\ ensure' = [ensure EXCEPT ![x] = NextFile[@]]
  /\ reg' = IF ensure[x] = "reg" THEN <<>> ELSE reg
  /\ UNCHANGED <<history, graves, proc, count, tool, nstarts>>
EnsureFile(x) ==
  /\ ensure[x] \in {"reg", "graves", "log"} /\ "tmp" \in there
  /\ there' = there \cup {ensure[x]}
  /\ ensure' = [ensure EXCEPT ![x] = NextFile[@]]
  /\ UNCHANGED <<history, reg, graves, proc, count, tool, nstarts>>

(* Without the directory ft_open() ends the tool. *)
EnsureFails(x) ==
  /\ ensure[x] \in {"reg", "graves", "log"} /\ "tmp" \notin there
  /\ ensure' = [ensure EXCEPT ![x] = "none"]
  /\ proc' = [p \in Pid |-> IF p = x THEN "free" ELSE proc[p]]
  /\ tool' = [k \in Killer |-> IF k = x THEN Idle ELSE tool[k]]
  /\ UNCHANGED <<history, files, count, nstarts>>

(***************************************************************************)
(* dspawn.                                                                 *)
(***************************************************************************)
(* The process ids of dspawn itself and of the child in between are not    *)
(* kept: the id is that of the process that is left of the double fork.    *)
Dspawn(p) ==
  /\ proc[p] = "free" /\ nstarts < MaxStarts /\ MayStart
  /\ proc' = [proc EXCEPT ![p] = "ensure"]
  /\ ensure' = [ensure EXCEPT ![p] = "stat"]
  /\ nstarts' = nstarts + 1
  /\ UNCHANGED <<history, files, count, tool>>

(* daemon_spawn(): the process of the foreground is gone. *)
DaemonSpawn(p) ==
  /\ proc[p] = "ensure" /\ ensure[p] = "done"
  /\ proc' = [proc EXCEPT ![p] = "read"]
  /\ ensure' = [ensure EXCEPT ![p] = "none"]
  /\ UNCHANGED <<history, files, count, tool, nstarts>>

(* daemon_register() counts the entries of its base name ... *)
RegisterRead(p) ==
  /\ proc[p] = "read"
  /\ count' = [count EXCEPT ![p] = Count(reg, <<>>)]
  /\ proc' = [proc EXCEPT ![p] = "append"]
  /\ UNCHANGED <<history, files, ensure, tool, nstarts>>

(* ... and appends its own; daemon_work() never returns. *)
RegisterAppend(p) ==
  /\ proc[p] = "append"
  /\ reg' = Append(reg, [name |-> Suffixed(<<>>, count[p]), pid |-> p])
  /\ proc' = [proc EXCEPT ![p] = "work"]
  /\ count' = [count EXCEPT ![p] = 0]
  /\ raced' = (raced \/ Between # {p})
  /\ UNCHANGED <<late, there, ensure, graves, tool, nstarts>>

(* Another program gets a free process id. *)
OtherStarts(p) ==
  /\ proc[p] = "free" /\ nstarts < MaxStarts
  /\ proc' = [proc EXCEPT ![p] = "other"]
  /\ nstarts' = nstarts + 1
  /\ UNCHANGED <<history, files, ensure, count, tool>>

(* A process ends, by itself or by daemons_killer.sh: its line stays. *)
Gone(p) == [k \in Killer |-> [tool[k] EXCEPT !.since = @ \ {p}]]
Ends(p) ==
  /\ proc[p] # "free"
  /\ proc' = [proc EXCEPT ![p] = "free"]
  /\ count' = [count EXCEPT ![p] = 0]
  /\ ensure' = [ensure EXCEPT ![p] = "none"]
  /\ tool' = Gone(p)
  /\ late' = late \ {p}
  /\ UNCHANGED <<raced, files, nstarts>>

(***************************************************************************)
(* dkill and dcheck.                                                       *)
(***************************************************************************)
StartTool(k) ==
  /\ tool[k].at = "idle" /\ MayStart
  /\ tool' = [tool EXCEPT ![k].at = "ensure"]
  /\ ensure' = [ensure EXCEPT ![k] = "stat"]
  /\ UNCHANGED <<history, files, proc, count, nstarts>>

Ensured(k) ==
  /\ tool[k].at = "ensure" /\ ensure[k] = "done"
  /\ ensure' = [ensure EXCEPT ![k] = "none"]

(* load_active_daemons(): the first entries whose /proc/<pid> exists; with *)
(* none of them dkill returns.                                             *)
Active == {i \in DOMAIN reg : proc[reg[i].pid] # "free"}
Loaded == {i \in Active : Cardinality({j \in Active : j <= i}) <= MAX_DAEMONS}
LoadActive(k) ==
  /\ Ensured(k)
  /\ tool' = [tool EXCEPT ![k] =
                 IF Loaded = {} THEN Idle
                 ELSE [Idle EXCEPT !.at = "ask", !.list = reg, !.active = Loaded,
                                   !.since = {p \in Working : \E i \in Loaded : reg[i].pid = p}]]
  /\ UNCHANGED <<history, files, proc, count, nstarts>>

(* The answer: a number, 'a', or anything else. *)
Answer(k) ==
  /\ tool[k].at = "ask"
  /\ \/ tool' = [tool EXCEPT ![k] = Idle]
     \/ tool' = [tool EXCEPT ![k].at = "kill", ![k].i = Min(tool[k].active),
                              ![k].all = TRUE]
     \/ \E i \in tool[k].active :
          tool' = [tool EXCEPT ![k].at = "kill", ![k].i = i]
  /\ UNCHANGED <<history, files, ensure, proc, count, nstarts>>

(* What dkill does after a daemon of its list. *)
Later(t) == {j \in t.active : j > t.i}
FollowingEarly(t) ==
  IF ~t.all THEN Idle
  ELSE IF Cardinality(Later(t)) > 1 THEN [t EXCEPT !.at = "kill", !.i = Min(Later(t))]
  ELSE [t EXCEPT !.at = "truncate"]
Following(t) ==
  IF ~t.all THEN Idle
  ELSE IF Later(t) # {} THEN [t EXCEPT !.at = "kill", !.i = Min(Later(t))]
  ELSE [t EXCEPT !.at = "truncate"]

Listed(k) == tool[k].list[tool[k].i]

(* kill_one(): SIGTERM to whatever has the process id now. *)
KillOne(k) ==
  /\ tool[k].at = "kill"
  /\ LET p == Listed(k).pid
     IN  IF proc[p] = "free"
           THEN /\ tool' = [tool EXCEPT ![k] = Following(@)]
                /\ UNCHANGED <<proc, count, ensure, late>>
           ELSE /\ proc' = [proc EXCEPT ![p] = "free"]
                /\ count' = [count EXCEPT ![p] = 0]
                /\ ensure' = [ensure EXCEPT ![p] = "none"]
                /\ tool' = [Gone(p) EXCEPT ![k].at = "read"]
                /\ late' = late \ {p}
  /\ UNCHANGED <<raced, files, nstarts>>

(* add_to_graveyard() counts the records of that name ... *)
BuryRead(k) ==
  /\ tool[k].at = "read"
  /\ tool' = [tool EXCEPT ![k].at = "append", ![k].count = Count(graves, Listed(k).name)]
  /\ UNCHANGED <<history, files, ensure, proc, count, nstarts>>

(* ... and appends one, with the process id of dkill itself. *)
BuryAppend(k) ==
  /\ tool[k].at = "append"
  /\ graves' = Append(graves, [name |-> Suffixed(Listed(k).name, tool[k].count), by |-> k])
  /\ tool' = [tool EXCEPT ![k] = Following([@ EXCEPT !.count = 0])]
  /\ UNCHANGED <<history, there, ensure, proc, count, reg, nstarts>>

(* The end of kill_all(): the registry is opened with "w". *)
Truncate(k) ==
  /\ tool[k].at = "truncate"
  /\ reg' = <<>>
  /\ tool' = [tool EXCEPT ![k] = Idle]
  /\ raced' = (Between # {})
  /\ late' = late \cup (Working \ tool[k].since)
  /\ UNCHANGED <<there, ensure, proc, count, graves, nstarts>>

(* dcheck() reads the registry, then looks for each process in turn; the   *)
(* list of the graveyard ends it.                                          *)
DcheckRead(k) ==
  /\ Ensured(k)
  /\ tool' = [tool EXCEPT ![k] =
                 [Idle EXCEPT !.at = "check", !.list = reg, !.i = 1,
                              !.since = Working \ late]]
  /\ UNCHANGED <<history, files, proc, count, nstarts>>

CheckedEarly(t) == t.i >= Len(t.list)
Checked(t) == t.i > Len(t.list)

Look(t) ==
  IF Checked(t) THEN [t EXCEPT !.at = "shown"]
  ELSE [t EXCEPT !.i = @ + 1,
                 !.active = IF proc[t.list[t.i].pid] = "free" THEN @ ELSE @ \cup {t.i}]

DcheckEntry(k) ==
  /\ tool[k].at = "check"
  /\ tool' = [tool EXCEPT ![k] = Look(tool[k])]
  /\ UNCHANGED <<history, files, ensure, proc, count, nstarts>>

DcheckGraveyard(k) ==
  /\ tool[k].at = "shown"
  /\ tool' = [tool EXCEPT ![k] = Idle]
  /\ UNCHANGED <<history, files, ensure, proc, count, nstarts>>

Init ==
  /\ there \in {{}, {"tmp"}, File}
  /\ ensure = [x \in Pid \cup Killer |-> "none"]
  /\ proc = [p \in Pid |-> "free"]
  /\ count = [p \in Pid |-> 0]
  /\ reg = <<>> /\ graves = <<>>
  /\ tool = [k \in Killer |-> Idle]
  /\ nstarts = 0 /\ raced = FALSE /\ late = {}

Next ==
  \/ \E x \in Pid \cup Killer :
       EnsureStat(x) \/ EnsureMkdir(x) \/ EnsureFile(x) \/ EnsureFails(x)
  \/ \E p \in Pid :
       \/ Dspawn(p) \/ DaemonSpawn(p) \/ RegisterRead(p) \/ RegisterAppend(p)
       \/ OtherStarts(p) \/ Ends(p)
  \/ \E k \in Killer :
       \/ StartTool(k) \/ LoadActive(k) \/ Answer(k) \/ KillOne(k)
       \/ BuryRead(k) \/ BuryAppend(k) \/ Truncate(k)
       \/ DcheckRead(k) \/ DcheckEntry(k) \/ DcheckGraveyard(k)

Spec == Init /\ [][Next]_vars

(***************************************************************************)
(* Properties.                                                             *)
(***************************************************************************)
(* Every variable has its type. *)
TypeOK ==
  /\ there \subseteq File
  /\ ensure \in [Pid \cup Killer -> Ensuring]
  /\ proc \in [Pid -> Use]
  /\ count \in [Pid -> Nat]
  /\ reg \in Seq(Entry)
  /\ graves \in Seq(Grave)
  /\ tool \in [Killer -> Tool]
  /\ nstarts \in 0 .. MaxStarts /\ raced \in BOOLEAN /\ late \subseteq Pid

Distinct(file) == \A i, j \in DOMAIN file : file[i].name = file[j].name => i = j

(* daemon_register() "suffixes the name [...] to keep it unique".  Two      *)
(* lines of the registry have the same name only after somebody else wrote *)
(* the registry between a dspawn's count and its append, whatever daemons  *)
(* ended, were killed or buried, and whichever tools ran at once.          *)
RegistryUnique == ~raced => Distinct(reg)

(* A daemon that works is in the registry, where dcheck shows it and dkill *)
(* finds it, whatever else is killed, buried, registered or truncated: but *)
(* for those that the dkill which emptied the registry had not in its list.*)
Registered ==
  \A p \in Working \ late : \E i \in DOMAIN reg : reg[i].pid = p

(* The registry and the graveyard lose no line but by kill_all(), and no   *)
(* tool that is past ensure_daemon_files() finds one of them missing and   *)
(* ends: also when several tools make the directory and the files at once. *)
FilesKept ==
  [][/\ there \subseteq there' /\ IsPrefix(graves, graves')
     /\ IsPrefix(reg, reg') \/ \E k \in Killer : tool[k].at = "truncate" /\ reg' = <<>>
     /\ \A x \in Pid \cup Killer :
          ensure'[x] = "done" => {"reg", "graves", "log"} \subseteq there']_vars

(* dcheck shows each daemon that has worked from before it read the        *)
(* registry until it has looked at all of it as active, and no line of one *)
(* as inactive, although others end, tools write the registry meanwhile    *)
(* and process ids are used again; but for those whose line was lost.      *)
Reported ==
  \A k \in Killer : tool[k].at = "shown" =>
    \A p \in tool[k].since :
      LET lines == {i \in DOMAIN tool[k].list : tool[k].list[i].pid = p}
      IN  lines # {} /\ lines \subseteq tool[k].active

(* What the comment of daemon_register() says without a condition: it      *)
(* suffixes the name "to keep it unique".                                  *)
NamesUnique == Distinct(reg)
=============================================================================
