-------------------------------- MODULE Walk --------------------------------
(***************************************************************************)
(* find, ld and ldr: programs that list a directory, the first and the last*)
(* one with all that is below it, while others remove and make files.      *)
(*                                                                         *)
(* A path is the sequence of the names after the starting directory.       *)
(* Directories, files and symbolic links are nodes; what a directory holds *)
(* is read once when it is opened.                                         *)
(*                                                                         *)
(* DescendsDots and OpenRetried are no part of the specification: each is  *)
(* the definition that follows it with a plausible mistake in it.          *)
(***************************************************************************)
EXTENDS Integers, SequencesExt, FiniteSetsExt

CONSTANTS
  Node, Root,      \* files and directories; where the program is started
  Name,            \* names, without "." and ".."
  Hidden, Matches, \* those that begin with a dot; those with the keyword
  Trees,           \* the trees there may be at the start
  MaxOpen,         \* directories a process can have open
  MaxPath,         \* names in a path that fits the buffer it is built in
  MaxLinks,        \* symbolic links the system follows in a path
  MaxChanges       \* bound: changes of the tree

Dots == {".", ".."}
Kind == {"dir", "plain", "socket", "link"}

(* What a directory holds: a node for each of some names. *)
Entries(names) == UNION {[N -> Node] : N \in SUBSET names}

(* A node that no directory holds is not part of the tree, and is empty.   *)
ASSUME WalkAssumption ==
  /\ Root \in Node /\ Hidden \subseteq Name /\ Dots \cap Name = {}
  /\ Matches \subseteq Name \cup Dots
  /\ MaxOpen \in Nat /\ MaxPath \in Nat /\ MaxLinks \in Nat /\ MaxChanges \in Nat
  /\ \A t \in Trees :
       /\ t.kids \in [Node -> Entries(Name)]
       /\ t.kind \in [Node -> Kind] /\ t.target \in [Node -> Node]
       /\ t.kind[Root] = "dir"
       /\ \A n \in Node \ {Root} :
            t.kids[n] # <<>> => \E d \in Node : n \in Range(t.kids[d])

VARIABLES
  program,  \* the program that runs; ld becomes ldr
  at,       \* where it is in main()
  tree,     \* the tree it was started on
  kids,     \* what each directory holds now
  stack,    \* the calls of execute() or list_directory()
  opened,   \* the directories it has open
  out,      \* the paths it has printed, and how often
  cut,      \* history variable: a path did not fit its buffer
  changed   \* history variable: the entries that were removed or made
vars == <<program, at, tree, kids, stack, opened, out, cut, changed>>

(* Dangling links, and what was removed, lead nowhere. *)
Linked(n) == n = Root \/ \E d \in Node : n \in Range(kids[d])
Follow(n) == IF tree.kind[n] = "link" THEN tree.target[n] ELSE n
IsDir(n) == tree.kind[n] = "dir"

(* snprintf(): with names of one character, what does not fit is the name, *)
(* and the path that is cut after the slash is that of the directory.      *)
Fits(path) == Len(path) < MaxPath
Joined(path, n) == IF Fits(path) THEN Append(path, n) ELSE path

Call(path, n, links) == [path |-> path, node |-> n, links |-> links,
                         reading |-> FALSE, left |-> <<>>]

(***************************************************************************)
(* main(), and ld's options.                                               *)
(***************************************************************************)
(* find needs a keyword; ld takes -r and refuses other options; its execvp *)
(* of ./bin/ldr works in the directory of the project only.                *)
Start ==
  /\ at = "start"
  /\ \/ at' = "walk" /\ stack' = <<Call(<<>>, Root, 0)>> /\ UNCHANGED program
     \/ program # "ldr" /\ at' = "refused" /\ UNCHANGED <<stack, program>>
     \/ program = "ld" /\ program' = "ldr" /\ UNCHANGED <<at, stack>>
  /\ UNCHANGED <<tree, kids, opened, out, cut, changed>>

Return == stack' = Tail(stack)
AtCall(reading) == at = "walk" /\ stack # <<>> /\ Head(stack).reading = reading

(***************************************************************************)
(* One call of execute() or list_directory().                              *)
(***************************************************************************)
(* opendir(), and the first readdir().  ld and ldr pass over every name    *)
(* that begins with a dot.                                                 *)
CanOpen(call) ==
  /\ IsDir(call.node) /\ Linked(call.node)
  /\ opened < MaxOpen /\ call.links <= MaxLinks
Opendir ==
  /\ AtCall(FALSE)
  /\ CanOpen(Head(stack))
  /\ LET n == Head(stack).node
     IN  stack' = [stack EXCEPT ![1].reading = TRUE,
                                ![1].left =
                                  IF program # "find" THEN kids[n]
                                  ELSE [name \in Dots \cup DOMAIN kids[n] |->
                                          IF name \in Dots THEN n ELSE kids[n][name]]]
  /\ opened' = opened + 1
  /\ UNCHANGED <<program, at, tree, kids, out, cut, changed>>

(* find says so on the error output, ldr says nothing. *)
OpenRetried ==
  /\ AtCall(FALSE) /\ ~CanOpen(Head(stack))
  /\ IF opened < MaxOpen THEN Return ELSE UNCHANGED stack
  /\ UNCHANGED <<program, at, tree, kids, opened, out, cut, changed>>
OpenFails ==
  /\ AtCall(FALSE) /\ ~CanOpen(Head(stack))
  /\ Return
  /\ UNCHANGED <<program, at, tree, kids, opened, out, cut, changed>>

(* Whether an entry is a directory: find reads a bit of d_type that sockets*)
(* and block devices have too; ldr asks stat(), and its answer of the entry*)
(* before if stat() fails.                                                 *)
Stats(n, links) == Linked(n) /\ Linked(Follow(n)) /\ links <= MaxLinks
Listed(p, name) == CASE p = "find" -> name \in Matches
                     [] OTHER -> name \notin Hidden
DescendsDots(p, name, n) ==
  CASE p = "find" -> tree.kind[n] \in {"dir", "socket"}
    [] p = "ldr" -> name \notin Hidden /\ IsDir(Follow(n))
    [] p = "ld" -> FALSE
Descends(p, name, n) ==
  CASE p = "find" -> name \notin Dots /\ tree.kind[n] \in {"dir", "socket"}
    [] p = "ldr" -> name \notin Hidden /\ IsDir(Follow(n))
    [] p = "ld" -> FALSE

(* What the path of an entry leads to. *)
Reached(call, name) == IF Fits(call.path) THEN call.left[name] ELSE call.node

(* One turn of the loop over readdir().  The name find prints is put       *)
(* together by printf() and fits; what it goes by is the entry itself.     *)
Entry ==
  /\ AtCall(TRUE)
  /\ \E name \in DOMAIN Head(stack).left :
       LET call == Head(stack)
           n == Reached(call, name)
           links == call.links + IF tree.kind[n] = "link" THEN 1 ELSE 0
           path == Joined(call.path, name)
           rest == [stack EXCEPT ![1].left = Restrict(@, DOMAIN @ \ {name})]
           shows == Listed(program, name) /\ (program = "find" \/ Stats(n, links))
           goes == Descends(program, name, IF program = "find" THEN call.left[name] ELSE n)
       IN  /\ out' = IF ~shows THEN out
                     ELSE out (+) SetToBag({IF program = "find" THEN Append(call.path, name)
                                            ELSE path})
           /\ \/ goes /\ stack' = <<Call(path, Follow(n), links)>> \o rest
              \/ ~goes /\ stack' = rest
              \/ /\ program = "ldr" /\ Listed(program, name) /\ ~Stats(n, links)
                 /\ stack' \in {rest, <<Call(path, Follow(n), links)>> \o rest}
           /\ cut' = (\/ cut
                      \/ /\ ~Fits(call.path)
                         /\ goes \/ (program # "find" /\ Listed(program, name)))
  /\ UNCHANGED <<program, at, tree, kids, opened, changed>>

(* closedir() *)
Closedir ==
  /\ AtCall(TRUE) /\ Head(stack).left = <<>>
  /\ opened' = opened - 1
  /\ Return
  /\ UNCHANGED <<program, at, tree, kids, out, cut, changed>>

End ==
  /\ at = "walk" /\ stack = <<>>
  /\ at' = "done"
  /\ UNCHANGED <<program, tree, kids, stack, opened, out, cut, changed>>

(***************************************************************************)
(* Others.                                                                 *)
(***************************************************************************)
Unlink ==
  /\ Cardinality(changed) < MaxChanges
  /\ \E d \in Node : \E name \in DOMAIN kids[d] :
       /\ kids[kids[d][name]] = <<>>
       /\ kids' = [kids EXCEPT ![d] = Restrict(@, DOMAIN @ \ {name})]
       /\ changed' = changed \cup {<<d, name>>}
  /\ UNCHANGED <<program, at, tree, stack, opened, out, cut>>

(* The new entry is a node that has no name yet. *)
Create ==
  /\ Cardinality(changed) < MaxChanges
  /\ \E d, n \in Node, name \in Name :
       /\ IsDir(d) /\ Linked(d) /\ ~Linked(n) /\ name \notin DOMAIN kids[d]
       /\ kids' = [kids EXCEPT ![d] = [m \in {name} \cup DOMAIN @ |->
                                         IF m = name THEN n ELSE @[m]]]
       /\ changed' = changed \cup {<<d, name>>}
  /\ UNCHANGED <<program, at, tree, stack, opened, out, cut>>

Init ==
  /\ program \in {"find", "ld", "ldr"} /\ at = "start"
  /\ tree \in Trees /\ kids = tree.kids
  /\ stack = <<>> /\ opened = 0 /\ out = EmptyBag /\ cut = FALSE /\ changed = {}

Program == Start \/ Opendir \/ OpenFails \/ Entry \/ Closedir \/ End
Next == Program \/ Unlink \/ Create

Spec == Init /\ [][Next]_vars
FairSpec == Spec /\ WF_vars(Program)

(***************************************************************************)
(* Properties.                                                             *)
(***************************************************************************)
(* The entries that stay, as a directory per depth: what a breadth-first   *)
(* reading of the tree gives.                                              *)
Stay(d) == {name \in DOMAIN tree.kids[d] : <<d, name>> \notin changed}
Stays(n) == n = Root \/ \E d \in Node : \E name \in Stay(d) : tree.kids[d][name] = n
Below(dir) ==
  {[path |-> Append(dir.path, name), node |-> Follow(tree.kids[dir.node][name]),
    links |-> dir.links + IF tree.kind[tree.kids[dir.node][name]] = "link" THEN 1 ELSE 0] :
     name \in {m \in Stay(dir.node) :
                 /\ Descends(program, m, tree.kids[dir.node][m])
                 /\ IsDir(Follow(tree.kids[dir.node][m]))}}
Depth[k \in 0 .. MaxPath] ==
  IF k = 0 THEN {[path |-> <<>>, node |-> Root, links |-> 0]}
  ELSE {dir \in UNION {Below(d) : d \in Depth[k - 1]} : dir.links <= MaxLinks}
Levels == UNION {Depth[k] : k \in 0 .. MaxPath}

(* Of a directory, what is asked for: ldr lists no link that leads nowhere.*)
Wanted(dir) ==
  {m \in Stay(dir.node) :
     /\ Listed(program, m)
     /\ program # "find" =>
          LET n == tree.kids[dir.node][m]
          IN  tree.kind[n] = "link" => dir.links < MaxLinks /\ Stays(Follow(n))}
Expected == UNION {{Append(dir.path, name) : name \in Wanted(dir)} : dir \in Levels}

(* Whatever others do to the tree, in whatever order its entries come, and *)
(* with links that lead back up: as long as all paths fit their buffers    *)
(* nothing is listed twice, not by way of "." or ".." either, and in the   *)
(* end everything that stayed and was asked for has been listed, if the    *)
(* process can open a directory for each level; and none is left open.     *)
EachOnce ==
  ~cut => /\ \A path \in BagToSet(out) :
               out[path] = 1 /\ \A i \in 1 .. Len(path) - 1 : path[i] \in Name
          /\ at = "done" =>
               /\ opened = 0
               /\ \/ \E dir \in Levels : Len(dir.path) >= MaxOpen
                  \/ Expected \subseteq BagToSet(out)

(* The programs come to an end, also where a path that is cut makes them   *)
(* list a directory inside itself: it is the number of directories they    *)
(* can have open, or of links in a path, that stops them.                  *)
Ends == <>(at \in {"done", "refused"})
=============================================================================
