---------------------------- MODULE ShellsProofs ----------------------------
(***************************************************************************)
(* Theorems about Shells, for every value of its constants: any number of  *)
(* shells and directories, any rc files, any lines.                        *)
(*                                                                         *)
(* The invariant has three parts besides the types.  Life: what the fields *)
(* of one shell say of each other.  RcMade: a shell that is about to write *)
(* the header has made the file.  Own: the inode of a document nobody has  *)
(* disturbed has no other writer and no name in another directory.  Two    *)
(* theorems have an invariant of their own over it: Tidy (each document    *)
(* has a shell in its directory that will remove it) and Histories (a      *)
(* history has a line for each line so far that is not empty).             *)
(***************************************************************************)
EXTENDS Shells, FiniteSetTheorems, TLAPS

Before == {"off", "start", "create", "header", "rc", "banner"}
Running == {"unlink", "creat", "type", "access", "open", "command", "reset"}

Life(s) ==
  /\ sh[s].at \in Before => sh[s].from = "rc"
  /\ sh[s].at = "prompt" => sh[s].from = "prompt"
  /\ sh[s].from = "rc" /\ sh[s].at # "killed" => typed[s] = <<>>
  /\ sh[s].at = "prompt" /\ sh[s].flag =>
       \A i \in DOMAIN typed[s] : typed[s][i] = "refused"
  /\ sh[s].at \in Running => sh[s].text = "held"
  /\ sh[s].at \in Before \cup {"prompt", "left"} => sh[s].text = "none"
  /\ sh[s].text = "twice" => sh[s].at = "aborted" /\ sh[s].from = "rc"
  /\ sh[s].out # NoFile <=> sh[s].at = "type"
  /\ sh[s].in # NoFile => sh[s].at = "command"

RcMade == (\E s \in Shell : sh[s].at = "header") => rc \in {<<>>, Header}

Mine(s, i) ==
  /\ i \in Inode
  /\ cells[i] = [k \in 1 .. sh[s].off |-> s]
  /\ \A t \in Shell \ {s} : sh[t].out # i
  /\ \A d \in Directory : tmp[d] = i => d = cwd[s]
Own(s) ==
  s \notin disturbed =>
    /\ sh[s].at = "creat" => tmp[cwd[s]] = NoFile
    /\ sh[s].at \in Linked => Mine(s, tmp[cwd[s]])
    /\ sh[s].at = "type" => sh[s].out = tmp[cwd[s]]
    /\ sh[s].at = "command" /\ sh[s].in # NoFile => Mine(s, sh[s].in)

IInv == TypeOK /\ (\A s \in Shell : Life(s) /\ Own(s)) /\ RcMade

(***************************************************************************)
(* What the functions of the code return.                                  *)
(***************************************************************************)
LEMMA HeaderIs == Header \in Seq(RcLine) /\ Header # <<>>
BY DEF Header, RcLine, Line

LEMMA OffIs ==
  /\ Off \in State /\ Off.at = "off" /\ Off.from = "rc" /\ Off.text = "none"
  /\ Off.out = NoFile /\ Off.in = NoFile
<1> DEFINE Entry == [id : Nat, cmd : Line]
<1>1. <<>> \in Seq(RcLine) /\ <<>> \in Seq(Entry)
  OBVIOUS
<1>2. Off \in State
  BY <1>1 DEF Off, State, At
<1> QED  BY <1>2 DEF Off

(* A part of a state may be replaced by another of its type. *)
LEMMA StateParts ==
  ASSUME NEW st \in State, NEW a \in At, NEW b \in BOOLEAN
  PROVE  /\ [st EXCEPT !.at = a] \in State
         /\ [st EXCEPT !.flag = b] \in State
         /\ [st EXCEPT !.moves = b] \in State
BY DEF State

LEMMA BeginsIs ==
  ASSUME NEW st \in State, NEW line
  PROVE  /\ Begins(st, line) \in State
         /\ Begins(st, line).at \in {"unlink", "command", "reset"}
         /\ Begins(st, line).from = st.from /\ Begins(st, line).text = st.text
         /\ Begins(st, line).out = st.out /\ Begins(st, line).in = st.in
         /\ Begins(st, line).todo = st.todo
         /\ Begins(st, line).at = "unlink" /\ Begins(st, line).moves => line = "doccd"
BY DEF Begins, State, At

LEMMA FreedIs ==
  ASSUME NEW st \in State
  PROVE  /\ Freed(st) \in State /\ Freed(st).at = st.at /\ Freed(st).flag = st.flag
         /\ Freed(st).from = st.from /\ Freed(st).out = st.out /\ Freed(st).in = st.in
         /\ Freed(st).todo = st.todo
         /\ st.text = "held" => Freed(st).text = "none"
BY DEF Freed, State

LEMMA LoopsIs ==
  ASSUME NEW st \in State
  PROVE  /\ Loops(st) \in State
         /\ Loops(st).at = IF st.flag THEN "left" ELSE "prompt"
         /\ Loops(st).flag = st.flag /\ Loops(st).text = st.text
         /\ Loops(st).from = st.from /\ Loops(st).out = st.out /\ Loops(st).in = st.in
         /\ Loops(st).todo = st.todo
BY DEF Loops, State, At

LEMMA HistoryAddIs ==
  ASSUME NEW st \in State, NEW line \in Line
  PROVE  /\ HistoryAdd(st, line) \in State
         /\ HistoryAdd(st, line).at = st.at /\ HistoryAdd(st, line).flag = st.flag
         /\ HistoryAdd(st, line).text = st.text /\ HistoryAdd(st, line).from = st.from
         /\ HistoryAdd(st, line).out = st.out /\ HistoryAdd(st, line).in = st.in
         /\ HistoryAdd(st, line).todo = st.todo
<1>1. st.index + 1 \in Nat /\ [id |-> st.index + 1, cmd |-> line] \in [id : Nat, cmd : Line]
  BY DEF State
<1>2. Append(st.history, [id |-> st.index + 1, cmd |-> line]) \in Seq([id : Nat, cmd : Line])
  BY <1>1 DEF State
<1> QED  BY <1>1, <1>2 DEF HistoryAdd, State

LEMMA AfterLineIs ==
  ASSUME NEW st \in State, st.text = "held"
  PROVE  /\ AfterLine(st) \in State /\ AfterLine(st).text = "none"
         /\ AfterLine(st).from = st.from /\ AfterLine(st).todo = st.todo
         /\ AfterLine(st).out = st.out /\ AfterLine(st).in = st.in
         /\ st.from = "rc" => AfterLine(st).at = "rc"
         /\ st.from = "prompt" =>
              /\ AfterLine(st).at \in {"left", "prompt"}
              /\ AfterLine(st).at = "prompt" => ~AfterLine(st).flag
<1> DEFINE zero == [st EXCEPT !.off = 0]
<1> DEFINE clean == Freed(zero)
<1>1. /\ zero \in State /\ zero.text = "held" /\ zero.flag = st.flag /\ zero.from = st.from
      /\ zero.out = st.out /\ zero.in = st.in /\ zero.todo = st.todo
  BY DEF State
<1>2. /\ clean \in State /\ clean.text = "none" /\ clean.flag = st.flag
      /\ clean.from = st.from /\ clean.out = st.out /\ clean.in = st.in
      /\ clean.todo = st.todo
  BY <1>1, FreedIs
<1>3. AfterLine(st) = IF st.from = "rc" THEN [clean EXCEPT !.at = "rc"] ELSE Loops(clean)
  BY DEF AfterLine
<1>4. CASE st.from = "rc"
  <2>1. AfterLine(st) = [clean EXCEPT !.at = "rc"]
    BY <1>3, <1>4
  <2> HIDE DEF clean
  <2> QED  BY <1>2, <1>4, <2>1 DEF State, At
<1>5. CASE st.from = "prompt"
  <2>1. AfterLine(st) = Loops(clean)
    BY <1>3, <1>5
  <2> HIDE DEF clean
  <2> QED  BY <1>2, <1>5, <2>1, LoopsIs
<1> QED  BY <1>4, <1>5 DEF State

(***************************************************************************)
(* Steps of one shell.                                                     *)
(***************************************************************************)
LEMMA Replaced ==
  ASSUME TypeOK, NEW s \in Shell, NEW st \in State, sh' = [sh EXCEPT ![s] = st]
  PROVE  /\ sh' \in [Shell -> State] /\ sh'[s] = st
         /\ \A t \in Shell \ {s} : sh'[t] = sh[t]
BY DEF TypeOK

LEMMA GoesIs ==
  ASSUME TypeOK, NEW s \in Shell, NEW a \in At, Goes(s, a)
  PROVE  sh' = [sh EXCEPT ![s] = [sh[s] EXCEPT !.at = a]] /\ [sh[s] EXCEPT !.at = a] \in State
<1>1. sh[s] \in State
  BY DEF TypeOK
<1> QED  BY <1>1, StateParts DEF Goes

LEMMA LifeOfOthers ==
  ASSUME NEW t \in Shell, Life(t), sh'[t] = sh[t], typed'[t] = typed[t]
  PROVE  Life(t)'
BY DEF Life

(* A document is not touched by a shell that neither writes one nor moves. *)
LEMMA OwnOfAll ==
  ASSUME IInv, NEW s \in Shell, UNCHANGED <<cwd, docs>>,
         \A t \in Shell \ {s} : sh'[t] = sh[t],
         sh'[s].out \in {sh[s].out, NoFile},
         sh'[s].at \notin Busy \/ (sh'[s].at = "command" /\ sh'[s].in = NoFile)
  PROVE  \A t \in Shell : Own(t)'
<1>1. ASSUME NEW t \in Shell \ {s}, NEW i, Mine(t, i)  PROVE Mine(t, i)'
  <2>1. NoFile \notin Inode /\ i \in Inode
    BY <1>1, ShellsAssumption DEF Mine
  <2>2. \A u \in Shell \ {t} : sh'[u].out # i
    BY <1>1, <2>1 DEF Mine
  <2> QED  BY <1>1, <2>2 DEF Mine, docs
<1>2. ASSUME NEW t \in Shell \ {s}  PROVE Own(t)'
  BY <1>1, <1>2 DEF IInv, Own, docs
<1>3. Own(s)'
  BY DEF Own, Busy, Linked
<1> QED  BY <1>2, <1>3

LEMMA QuietStep ==
  ASSUME IInv, NEW s \in Shell, NEW st \in State, sh' = [sh EXCEPT ![s] = st],
         UNCHANGED <<cwd, docs>>, st.out \in {sh[s].out, NoFile},
         st.at \notin Busy \/ (st.at = "command" /\ st.in = NoFile),
         typed' \in [Shell -> Seq(Typed)], \A t \in Shell \ {s} : typed'[t] = typed[t],
         {rc', home'} \subseteq Seq(RcLine) \cup {NoFile}, Life(s)', RcMade'
  PROVE  IInv'
<1>1. /\ TypeOK /\ sh' \in [Shell -> State] /\ sh'[s] = st
      /\ \A t \in Shell \ {s} : sh'[t] = sh[t]
  BY Replaced DEF IInv
<1>2. TypeOK'
  BY <1>1 DEF TypeOK, docs
<1>3. \A t \in Shell : Life(t)'
  BY <1>1, LifeOfOthers DEF IInv
<1>4. \A t \in Shell : Own(t)'
  BY <1>1, OwnOfAll
<1> QED  BY <1>2, <1>3, <1>4 DEF IInv

LEMMA SameRc ==
  ASSUME RcMade, TypeOK, rc' = rc, home' = home, NEW s \in Shell, sh'[s].at # "header",
         \A t \in Shell \ {s} : sh'[t] = sh[t]
  PROVE  RcMade' /\ {rc', home'} \subseteq Seq(RcLine) \cup {NoFile}
BY DEF RcMade, TypeOK

LEMMA StartsOK ==
  ASSUME IInv, NEW s \in Shell, Starts(s)  PROVE IInv'
<1> DEFINE st == [sh[s] EXCEPT !.at = "start"]
<1>1. TypeOK /\ RcMade /\ Life(s) /\ sh[s] \in State
  BY DEF IInv, TypeOK
<1>2. sh' = [sh EXCEPT ![s] = st] /\ st \in State
  BY <1>1, GoesIs DEF Starts, At
<1>3. /\ st.at = "start" /\ st.from = sh[s].from /\ st.text = sh[s].text
      /\ st.out = sh[s].out /\ st.in = sh[s].in
  BY <1>1 DEF State
<1>4. sh'[s] = st /\ \A t \in Shell \ {s} : sh'[t] = sh[t]
  BY <1>1, <1>2, Replaced
<1>5. Life(s)'
  BY <1>1, <1>3, <1>4 DEF Starts, Life, Before, Running
<1>6. RcMade' /\ {rc', home'} \subseteq Seq(RcLine) \cup {NoFile}
  BY <1>1, <1>3, <1>4, SameRc DEF Starts, files
<1>7. typed' \in [Shell -> Seq(Typed)] /\ UNCHANGED <<cwd, docs, typed>>
  BY <1>1 DEF Starts, TypeOK
<1> QED  BY <1>2, <1>3, <1>5, <1>6, <1>7, QuietStep DEF Busy, Linked

LEMMA SourceRcOK ==
  ASSUME IInv, NEW s \in Shell, SourceRc(s)  PROVE IInv'
<1> DEFINE file == IF rc = NoFile THEN home ELSE rc
<1>1. TypeOK /\ RcMade /\ Life(s) /\ sh[s] \in State
  BY DEF IInv, TypeOK
<1>2. PICK st \in State :
        /\ sh' = [sh EXCEPT ![s] = st]
        /\ st.at \in {"create", "rc"} /\ st.from = sh[s].from /\ st.text = sh[s].text
        /\ st.out = sh[s].out /\ st.in = sh[s].in
  <2>1. CASE file = NoFile
    <3> DEFINE create == [sh[s] EXCEPT !.at = "create"]
    <3>1. sh' = [sh EXCEPT ![s] = create]
      BY <2>1 DEF SourceRc
    <3>2. /\ create \in State /\ create.at = "create" /\ create.from = sh[s].from
          /\ create.text = sh[s].text /\ create.out = sh[s].out /\ create.in = sh[s].in
      BY <1>1 DEF State, At
    <3> QED  BY <3>1, <3>2
  <2>2. CASE file # NoFile
    <3> DEFINE reads == [sh[s] EXCEPT !.at = "rc", !.todo = file]
    <3>1. sh' = [sh EXCEPT ![s] = reads]
      BY <2>2 DEF SourceRc
    <3>2. file \in Seq(RcLine)
      BY <1>1, <2>2 DEF TypeOK
    <3>3. /\ reads \in State /\ reads.at = "rc" /\ reads.from = sh[s].from
          /\ reads.text = sh[s].text /\ reads.out = sh[s].out /\ reads.in = sh[s].in
      BY <1>1, <3>2 DEF State, At
    <3> QED  BY <3>1, <3>3
  <2> QED  BY <2>1, <2>2
<1>3. sh'[s] = st /\ \A t \in Shell \ {s} : sh'[t] = sh[t]
  BY <1>1, <1>2, Replaced
<1>4. Life(s)'
  BY <1>1, <1>2, <1>3 DEF SourceRc, Life, Before, Running
<1>5. RcMade' /\ {rc', home'} \subseteq Seq(RcLine) \cup {NoFile}
  BY <1>1, <1>2, <1>3, SameRc DEF SourceRc, files
<1>6. typed' \in [Shell -> Seq(Typed)] /\ UNCHANGED <<cwd, docs, typed>>
  BY <1>1 DEF SourceRc, TypeOK
<1> QED  BY <1>2, <1>4, <1>5, <1>6, QuietStep DEF Busy, Linked

LEMMA CreateEmptyRcOK ==
  ASSUME IInv, NEW s \in Shell, CreateEmptyRc(s)  PROVE IInv'
<1>1. TypeOK /\ RcMade /\ Life(s) /\ sh[s] \in State
  BY DEF IInv, TypeOK
<1>2. PICK a \in {"header", "norc"} : Goes(s, a) /\ (a = "norc" => rc' = rc)
        /\ (a = "header" => rc = NoFile /\ rc' = <<>>)
  BY DEF CreateEmptyRc
<1> DEFINE st == [sh[s] EXCEPT !.at = a]
<1>3. sh' = [sh EXCEPT ![s] = st] /\ st \in State
  BY <1>1, <1>2, GoesIs DEF At
<1>4. /\ st.at = a /\ st.from = sh[s].from /\ st.text = sh[s].text
      /\ st.out = sh[s].out /\ st.in = sh[s].in
  BY <1>1 DEF State
<1>5. sh'[s] = st /\ \A t \in Shell \ {s} : sh'[t] = sh[t]
  BY <1>1, <1>3, Replaced
<1>6. Life(s)'
  BY <1>1, <1>2, <1>4, <1>5 DEF CreateEmptyRc, Life, Before, Running
<1>7. RcMade' /\ {rc', home'} \subseteq Seq(RcLine) \cup {NoFile}
  <2>1. home' = home
    BY DEF CreateEmptyRc
  <2>2. CASE a = "norc"
    BY <1>1, <1>2, <1>4, <1>5, <2>1, <2>2, SameRc
  <2>3. CASE a = "header"
    BY <1>1, <1>2, <2>1, <2>3 DEF RcMade, TypeOK
  <2> QED  BY <2>2, <2>3
<1>8. typed' \in [Shell -> Seq(Typed)] /\ UNCHANGED <<cwd, docs, typed>>
  BY <1>1 DEF CreateEmptyRc, TypeOK
<1> QED  BY <1>2, <1>3, <1>4, <1>6, <1>7, <1>8, QuietStep DEF Busy, Linked

LEMMA WriteHeaderOK ==
  ASSUME IInv, NEW s \in Shell, WriteHeader(s)  PROVE IInv'
<1> DEFINE st == [sh[s] EXCEPT !.at = "banner"]
<1>1. TypeOK /\ RcMade /\ Life(s) /\ sh[s] \in State
  BY DEF IInv, TypeOK
<1>2. sh' = [sh EXCEPT ![s] = st] /\ st \in State
  BY <1>1, GoesIs DEF WriteHeader, At
<1>3. /\ st.at = "banner" /\ st.from = sh[s].from /\ st.text = sh[s].text
      /\ st.out = sh[s].out /\ st.in = sh[s].in
  BY <1>1 DEF State
<1>4. sh'[s] = st /\ \A t \in Shell \ {s} : sh'[t] = sh[t]
  BY <1>1, <1>2, Replaced
<1>5. Life(s)'
  BY <1>1, <1>3, <1>4 DEF WriteHeader, Life, Before, Running
<1>6. RcMade' /\ {rc', home'} \subseteq Seq(RcLine) \cup {NoFile}
  BY <1>1, HeaderIs DEF WriteHeader, RcMade, TypeOK
<1>7. typed' \in [Shell -> Seq(Typed)] /\ UNCHANGED <<cwd, docs, typed>>
  BY <1>1 DEF WriteHeader, TypeOK
<1> QED  BY <1>2, <1>3, <1>5, <1>6, <1>7, QuietStep DEF Busy, Linked

LEMMA PrintBannerOK ==
  ASSUME IInv, NEW s \in Shell, PrintBanner(s)  PROVE IInv'
<1>1. TypeOK /\ RcMade /\ Life(s) /\ sh[s] \in State
  BY DEF IInv, TypeOK
<1>2. PICK st \in State :
        /\ sh' = [sh EXCEPT ![s] = st]
        /\ \/ st.at = "prompt" /\ st.from = "prompt"
           \/ st.at = "nobanner" /\ st.from = sh[s].from
        /\ st.text = sh[s].text /\ st.out = sh[s].out /\ st.in = sh[s].in
  <2> DEFINE prompts == [sh[s] EXCEPT !.at = "prompt", !.from = "prompt"]
  <2> DEFINE leaves == [sh[s] EXCEPT !.at = "nobanner"]
  <2>1. sh' = [sh EXCEPT ![s] = prompts] \/ sh' = [sh EXCEPT ![s] = leaves]
    BY DEF PrintBanner, Goes
  <2>2. /\ prompts \in State /\ prompts.at = "prompt" /\ prompts.from = "prompt"
        /\ prompts.text = sh[s].text /\ prompts.out = sh[s].out /\ prompts.in = sh[s].in
    BY <1>1 DEF State, At
  <2>3. /\ leaves \in State /\ leaves.at = "nobanner" /\ leaves.from = sh[s].from
        /\ leaves.text = sh[s].text /\ leaves.out = sh[s].out /\ leaves.in = sh[s].in
    BY <1>1 DEF State, At
  <2> QED  BY <2>1, <2>2, <2>3
<1>3. sh'[s] = st /\ \A t \in Shell \ {s} : sh'[t] = sh[t]
  BY <1>1, <1>2, Replaced
<1>4. sh[s].at = "banner" /\ typed' = typed /\ typed[s] = <<>>
  BY <1>1 DEF PrintBanner, Life, Before
<1>5. Life(s)'
  BY <1>1, <1>2, <1>3, <1>4 DEF Life, Before, Running
<1>6. RcMade' /\ {rc', home'} \subseteq Seq(RcLine) \cup {NoFile}
  BY <1>1, <1>2, <1>3, SameRc DEF PrintBanner, files
<1>7. typed' \in [Shell -> Seq(Typed)] /\ UNCHANGED <<cwd, docs>>
  BY <1>1, <1>4 DEF PrintBanner, TypeOK
<1> QED  BY <1>2, <1>4, <1>5, <1>6, <1>7, QuietStep DEF Busy, Linked

(* What a line of the rc file makes of the shell. *)
LEMMA RcNextIs ==
  ASSUME TypeOK, NEW s \in Shell, RcNext(s)
  PROVE  \E st \in State :
           /\ sh' = [sh EXCEPT ![s] = st]
           /\ st.from = sh[s].from /\ st.out = sh[s].out /\ st.in = sh[s].in
           /\ \/ st.todo = sh[s].todo
              \/ sh[s].todo # <<>> /\ st.todo = Tail(sh[s].todo)
           /\ st.at = "unlink" /\ st.moves =>
                sh[s].todo # <<>> /\ Head(sh[s].todo) = "doccd"
           /\ \/ st.at \in {"banner", "rc"} /\ st.text = sh[s].text
              \/ st.at = "aborted" /\ st.text = "twice"
              \/ st.at \in {"unlink", "command", "reset"} /\ st.text = "held"
<1> DEFINE line == Head(sh[s].todo)
           rest == [sh[s] EXCEPT !.todo = Tail(@)]
<1>1. sh[s] \in State /\ sh[s].at = "rc"
  BY DEF TypeOK, RcNext
<1>2. CASE sh[s].todo = <<>>
  <2> DEFINE st == [sh[s] EXCEPT !.at = "banner"]
  <2>1. sh' = [sh EXCEPT ![s] = st]
    BY <1>2 DEF RcNext
  <2>2. /\ st \in State /\ st.at = "banner" /\ st.from = sh[s].from
        /\ st.out = sh[s].out /\ st.in = sh[s].in /\ st.text = sh[s].text
        /\ st.todo = sh[s].todo
    BY <1>1 DEF State, At
  <2> QED  BY <2>1, <2>2
<1>3. CASE sh[s].todo # <<>>
  <2>1. sh[s].todo \in Seq(RcLine)
    BY <1>1 DEF State
  <2>2. Tail(sh[s].todo) \in Seq(RcLine)
    BY <1>3, <2>1
  <2>3. /\ rest \in State /\ rest.at = "rc" /\ rest.from = sh[s].from
        /\ rest.out = sh[s].out /\ rest.in = sh[s].in /\ rest.text = sh[s].text
        /\ rest.todo = Tail(sh[s].todo)
    BY <1>1, <2>2 DEF State
  <2> DEFINE aborts == [rest EXCEPT !.at = "aborted", !.text = "twice"]
             held == [rest EXCEPT !.text = "held"]
  <2> HIDE DEF rest
  <2>4. \/ sh' = [sh EXCEPT ![s] = rest] \/ sh' = [sh EXCEPT ![s] = aborts]
        \/ sh' = [sh EXCEPT ![s] = Begins(held, line)]
    BY <1>3 DEF RcNext, rest
  <2>5. /\ aborts \in State /\ aborts.at = "aborted" /\ aborts.text = "twice"
        /\ aborts.from = rest.from /\ aborts.out = rest.out /\ aborts.in = rest.in
        /\ aborts.todo = rest.todo
    BY <2>3 DEF State, At
  <2>6. /\ held \in State /\ held.text = "held" /\ held.from = rest.from
        /\ held.out = rest.out /\ held.in = rest.in /\ held.todo = rest.todo
    BY <2>3 DEF State
  <2> HIDE DEF aborts, held
  <2>7. CASE sh' = [sh EXCEPT ![s] = rest]
    BY <1>3, <2>3, <2>7
  <2>8. CASE sh' = [sh EXCEPT ![s] = aborts]
    BY <1>3, <2>3, <2>5, <2>8
  <2>9. CASE sh' = [sh EXCEPT ![s] = Begins(held, line)]
    <3> DEFINE st == Begins(held, line)
    <3>1. /\ st \in State /\ st.at \in {"unlink", "command", "reset"}
          /\ st.from = held.from /\ st.text = held.text
          /\ st.out = held.out /\ st.in = held.in /\ st.todo = held.todo
          /\ st.at = "unlink" /\ st.moves => line = "doccd"
      BY <2>6, BeginsIs
    <3>2. sh' = [sh EXCEPT ![s] = st]
      BY <2>9
    <3> HIDE DEF st
    <3> QED  BY <1>3, <2>3, <2>6, <3>1, <3>2
  <2> QED  BY <2>4, <2>7, <2>8, <2>9
<1> QED  BY <1>2, <1>3

LEMMA RcNextOK ==
  ASSUME IInv, NEW s \in Shell, RcNext(s)  PROVE IInv'
<1>1. TypeOK /\ RcMade /\ Life(s) /\ sh[s] \in State /\ sh[s].at = "rc"
  BY DEF IInv, TypeOK, RcNext
<1>2. PICK st \in State :
        /\ sh' = [sh EXCEPT ![s] = st]
        /\ st.from = sh[s].from /\ st.out = sh[s].out /\ st.in = sh[s].in
        /\ \/ st.at \in {"banner", "rc"} /\ st.text = sh[s].text
           \/ st.at = "aborted" /\ st.text = "twice"
           \/ st.at \in {"unlink", "command", "reset"} /\ st.text = "held"
  BY <1>1, RcNextIs
<1>3. sh'[s] = st /\ \A t \in Shell \ {s} : sh'[t] = sh[t]
  BY <1>1, <1>2, Replaced
<1>4. typed' = typed /\ typed[s] = <<>> /\ sh[s].from = "rc" /\ sh[s].text = "none"
      /\ sh[s].in = NoFile /\ sh[s].out = NoFile
  BY <1>1 DEF RcNext, Life, Before
<1>5. Life(s)'
  BY <1>2, <1>3, <1>4 DEF Life, Before, Running
<1>6. RcMade' /\ {rc', home'} \subseteq Seq(RcLine) \cup {NoFile}
  BY <1>1, <1>2, <1>3, SameRc DEF RcNext, files
<1>7. typed' \in [Shell -> Seq(Typed)] /\ UNCHANGED <<cwd, docs>>
  BY <1>1, <1>4 DEF RcNext, TypeOK
<1>8. CASE st.at # "unlink"
  BY <1>2, <1>4, <1>5, <1>6, <1>7, <1>8, QuietStep DEF Busy, Linked
<1>9. CASE st.at = "unlink"
  BY <1>2, <1>4, <1>5, <1>6, <1>7, <1>9, QuietStep DEF Busy, Linked
<1> QED  BY <1>8, <1>9

(* What a typed line makes of it. *)
LEMMA LexerPaserExecIs ==
  ASSUME NEW s \in Shell, sh[s] \in State, NEW line \in Line
  PROVE  LET st == LexerPaserExec(s, line)
         IN  /\ st \in State
             /\ st.from = sh[s].from /\ st.out = sh[s].out /\ st.in = sh[s].in
             /\ st.todo = sh[s].todo
             /\ st.at = "unlink" /\ st.moves => line = "doccd" \/ sh[s].at = "unlink"
             /\ \/ line = "empty" /\ st.text = "none"
                     /\ st.at = (IF sh[s].flag THEN "left" ELSE "prompt")
                     /\ st.flag = sh[s].flag
                \/ line = "refused" /\ st.text = "none" /\ st.at = sh[s].at
                     /\ st.flag = sh[s].flag
                \/ st.at \in {"unlink", "command", "reset"} /\ st.text = "held"
<1> DEFINE held == [sh[s] EXCEPT !.text = "held"]
           added == HistoryAdd(held, line)
<1>1. /\ held \in State /\ held.text = "held" /\ held.at = sh[s].at /\ held.flag = sh[s].flag
      /\ held.from = sh[s].from /\ held.out = sh[s].out /\ held.in = sh[s].in
      /\ held.todo = sh[s].todo
  BY DEF State
<1>2. LexerPaserExec(s, line) = IF line = "empty" THEN Loops(Freed(held))
                                ELSE IF line = "refused" THEN Freed(added)
                                ELSE Begins(added, line)
  BY DEF LexerPaserExec
<1> HIDE DEF held
<1>3. /\ added \in State /\ added.text = "held" /\ added.at = sh[s].at
      /\ added.flag = sh[s].flag /\ added.from = sh[s].from
      /\ added.out = sh[s].out /\ added.in = sh[s].in /\ added.todo = sh[s].todo
  BY <1>1, HistoryAddIs
<1> HIDE DEF added
<1>4. CASE line = "empty"
  <2> DEFINE freed == Freed(held)
  <2>1. /\ freed \in State /\ freed.text = "none" /\ freed.flag = sh[s].flag
        /\ freed.from = sh[s].from /\ freed.out = sh[s].out /\ freed.in = sh[s].in
        /\ freed.todo = sh[s].todo
    BY <1>1, FreedIs
  <2> HIDE DEF freed
  <2>2. LexerPaserExec(s, line) = Loops(freed)
    BY <1>2, <1>4 DEF freed
  <2> QED  BY <1>4, <2>1, <2>2, LoopsIs
<1>5. CASE line = "refused"
  <2>1. LexerPaserExec(s, line) = Freed(added)
    BY <1>2, <1>5
  <2> QED  BY <1>3, <1>5, <2>1, FreedIs
<1>6. CASE line \notin {"empty", "refused"}
  <2>1. LexerPaserExec(s, line) = Begins(added, line)
    BY <1>2, <1>6
  <2> QED  BY <1>3, <2>1, BeginsIs
<1> QED  BY <1>4, <1>5, <1>6

LEMMA ReadlineOK ==
  ASSUME IInv, NEW s \in Shell, Readline(s)  PROVE IInv'
<1>1. TypeOK /\ RcMade /\ Life(s) /\ sh[s] \in State /\ sh[s].at = "prompt"
  BY DEF IInv, TypeOK, Readline
<1>2. PICK line \in Typed :
        /\ typed' = [typed EXCEPT ![s] = Append(@, line)]
        /\ sh' = [sh EXCEPT ![s] = LexerPaserExec(s, line)]
  BY DEF Readline
<1> DEFINE st == LexerPaserExec(s, line)
<1>3. line \in Line
  BY ShellsAssumption
<1>4. /\ st \in State
      /\ st.from = sh[s].from /\ st.out = sh[s].out /\ st.in = sh[s].in
      /\ \/ line = "empty" /\ st.text = "none"
              /\ st.at = (IF sh[s].flag THEN "left" ELSE "prompt") /\ st.flag = sh[s].flag
         \/ line = "refused" /\ st.text = "none" /\ st.at = sh[s].at /\ st.flag = sh[s].flag
         \/ st.at \in {"unlink", "command", "reset"} /\ st.text = "held"
  BY <1>1, <1>3, LexerPaserExecIs
<1> HIDE DEF st
<1>5. sh'[s] = st /\ \A t \in Shell \ {s} : sh'[t] = sh[t]
  BY <1>1, <1>2, <1>4, Replaced DEF st
<1>6. /\ typed[s] \in Seq(Typed) /\ typed'[s] = Append(typed[s], line)
      /\ typed' \in [Shell -> Seq(Typed)] /\ \A t \in Shell \ {s} : typed'[t] = typed[t]
  BY <1>1, <1>2 DEF TypeOK
<1>7. sh[s].from = "prompt" /\ sh[s].out = NoFile /\ sh[s].in = NoFile
  BY <1>1 DEF Life
<1>8. st.at = "prompt" /\ st.flag => \A i \in DOMAIN typed'[s] : typed'[s][i] = "refused"
  <2> SUFFICES ASSUME st.at = "prompt", st.flag
               PROVE  \A i \in DOMAIN typed'[s] : typed'[s][i] = "refused"
    OBVIOUS
  <2>1. line = "refused" /\ sh[s].flag
    BY <1>1, <1>4
  <2>2. \A i \in DOMAIN typed[s] : typed[s][i] = "refused"
    BY <1>1, <2>1 DEF Life
  <2> QED  BY <1>6, <2>1, <2>2
<1>9. Life(s)'
  BY <1>1, <1>4, <1>5, <1>7, <1>8 DEF Life, Before, Running
<1>10. RcMade' /\ {rc', home'} \subseteq Seq(RcLine) \cup {NoFile}
  BY <1>1, <1>4, <1>5, SameRc DEF Readline, files
<1>11. UNCHANGED <<cwd, docs>>
  BY DEF Readline
<1> QED
  BY <1>1, <1>2, <1>4, <1>6, <1>7, <1>9, <1>10, <1>11, QuietStep DEF Busy, Linked, st

LEMMA EndOfInputOK ==
  ASSUME IInv, NEW s \in Shell, EndOfInput(s)  PROVE IInv'
<1> DEFINE st == [sh[s] EXCEPT !.at = "left"]
<1>1. TypeOK /\ RcMade /\ Life(s) /\ sh[s] \in State
  BY DEF IInv, TypeOK
<1>2. sh' = [sh EXCEPT ![s] = st] /\ st \in State
  BY <1>1, GoesIs DEF EndOfInput, At
<1>3. /\ st.at = "left" /\ st.from = sh[s].from /\ st.text = sh[s].text
      /\ st.out = sh[s].out /\ st.in = sh[s].in
  BY <1>1 DEF State
<1>4. sh'[s] = st /\ \A t \in Shell \ {s} : sh'[t] = sh[t]
  BY <1>1, <1>2, Replaced
<1>5. Life(s)'
  BY <1>1, <1>3, <1>4 DEF EndOfInput, Life, Before, Running
<1>6. RcMade' /\ {rc', home'} \subseteq Seq(RcLine) \cup {NoFile}
  BY <1>1, <1>3, <1>4, SameRc DEF EndOfInput, files
<1>7. typed' \in [Shell -> Seq(Typed)] /\ UNCHANGED <<cwd, docs, typed>>
  BY <1>1 DEF EndOfInput, TypeOK
<1> QED  BY <1>2, <1>3, <1>5, <1>6, <1>7, QuietStep DEF Busy, Linked

LEMMA HangupOK ==
  ASSUME IInv, NEW s \in Shell, Hangup(s)  PROVE IInv'
<1> DEFINE st == [Off EXCEPT !.at = "killed"]
<1>1. TypeOK /\ RcMade
  BY DEF IInv
<1>2. /\ st \in State /\ st.at = "killed" /\ st.text = "none"
      /\ st.out = NoFile /\ st.in = NoFile
  <2>1. /\ Off \in State /\ Off.text = "none" /\ Off.out = NoFile /\ Off.in = NoFile
    BY OffIs
  <2> QED  BY <2>1 DEF State, At
<1>3. sh' = [sh EXCEPT ![s] = st]
  BY DEF Hangup
<1> HIDE DEF st
<1>4. sh'[s] = st /\ \A t \in Shell \ {s} : sh'[t] = sh[t]
  BY <1>1, <1>2, <1>3, Replaced
<1>5. Life(s)'
  BY <1>2, <1>4 DEF Life, Before, Running
<1>6. RcMade' /\ {rc', home'} \subseteq Seq(RcLine) \cup {NoFile}
  BY <1>1, <1>2, <1>4, SameRc DEF Hangup, files
<1>7. typed' \in [Shell -> Seq(Typed)] /\ UNCHANGED <<cwd, docs, typed>>
  BY <1>1 DEF Hangup, TypeOK
<1> QED  BY <1>2, <1>3, <1>5, <1>6, <1>7, QuietStep DEF Busy, Linked

LEMMA UserWritesRcOK ==
  ASSUME IInv, UserWritesRc  PROVE IInv'
<1>1. TypeOK /\ RcMade /\ UNCHANGED <<sh, cwd, home, docs, typed>>
  BY DEF IInv, UserWritesRc
<1>2. rc = NoFile /\ rc' \in Seq(RcLine)
  BY ShellsAssumption DEF UserWritesRc
<1>3. TypeOK'
  BY <1>1, <1>2 DEF TypeOK, docs
<1>4. RcMade'
  <2>1. <<>> \in Seq(RcLine)
    OBVIOUS
  <2>2. rc \notin {<<>>, Header}
    BY <1>2, <2>1, HeaderIs, ShellsAssumption
  <2> QED  BY <1>1, <2>2 DEF RcMade
<1>5. \A s \in Shell : Life(s)' /\ Own(s)'
  BY <1>1 DEF IInv, Life, Own, Mine, docs
<1> QED  BY <1>3, <1>4, <1>5 DEF IInv

(***************************************************************************)
(* Steps of a here-document, and the end of a line.                        *)
(***************************************************************************)
(* These leave the rc file alone, and what has been typed. *)
LEMMA DocStep ==
  ASSUME IInv, NEW s \in Shell, NEW st \in State, sh' = [sh EXCEPT ![s] = st],
         UNCHANGED <<files, typed>>, st.at # "header",
         cwd' \in [Shell -> Directory], tmp' \in [Directory -> Inode \cup {NoFile}],
         cells' \in [Inode -> Seq(Shell \cup {NoFile})], disturbed' \subseteq Shell,
         Life(s)', \A t \in Shell : Own(t)'
  PROVE  IInv'
<1>1. /\ TypeOK /\ RcMade /\ sh' \in [Shell -> State] /\ sh'[s] = st
      /\ \A t \in Shell \ {s} : sh'[t] = sh[t]
  BY Replaced DEF IInv
<1>2. TypeOK'
  BY <1>1 DEF TypeOK, files
<1>3. \A t \in Shell : Life(t)'
  BY <1>1, LifeOfOthers DEF IInv
<1>4. RcMade'
  BY <1>1, SameRc DEF files
<1> QED  BY <1>2, <1>3, <1>4 DEF IInv

(* A line that goes on: the text stays allocated. *)
LEMMA LifeGoesOn ==
  ASSUME NEW s \in Shell, Life(s), sh[s].at \in Running, sh'[s].at \in Running,
         typed' = typed, sh'[s].from = sh[s].from, sh'[s].text = sh[s].text,
         sh'[s].out # NoFile <=> sh'[s].at = "type",
         sh'[s].in # NoFile => sh'[s].at = "command"
  PROVE  Life(s)'
BY DEF Life, Before, Running

LEMMA DocUnlinkOK ==
  ASSUME IInv, NEW s \in Shell, DocUnlink(s)  PROVE IInv'
<1> DEFINE st == [sh[s] EXCEPT !.at = "creat"]
<1>1. TypeOK /\ Life(s) /\ sh[s] \in State /\ sh[s].at = "unlink" /\ NoFile \notin Inode
  BY ShellsAssumption DEF IInv, TypeOK, DocUnlink
<1>2. sh' = [sh EXCEPT ![s] = st] /\ st \in State
  BY <1>1, GoesIs DEF DocUnlink, At
<1>3. /\ st.at = "creat" /\ st.from = sh[s].from /\ st.text = sh[s].text
      /\ st.out = sh[s].out /\ st.in = sh[s].in
  BY <1>1 DEF State
<1> HIDE DEF st
<1>4. sh'[s] = st /\ \A t \in Shell \ {s} : sh'[t] = sh[t]
  BY <1>1, <1>2, Replaced
<1>5. Life(s)'
  BY <1>1, <1>3, <1>4, LifeGoesOn DEF DocUnlink, Life, Running
<1>6. /\ cwd' = cwd /\ cells' = cells /\ cwd[s] \in Directory
      /\ tmp' = [tmp EXCEPT ![cwd[s]] = NoFile]
      /\ disturbed' = disturbed \cup Neighbours(s, Linked)
  BY <1>1 DEF DocUnlink, Doc, TypeOK
<1>7. \A d \in Directory : tmp'[d] = IF d = cwd[s] THEN NoFile ELSE tmp[d]
  BY <1>1, <1>6 DEF TypeOK
<1>8. ASSUME NEW t \in Shell, NEW i, Mine(t, i), sh'[t].off = sh[t].off  PROVE Mine(t, i)'
  <2>1. \A u \in Shell : sh'[u].out = sh[u].out
    BY <1>3, <1>4
  <2>2. \A d \in Directory : tmp'[d] = i => tmp[d] = i
    BY <1>1, <1>7, <1>8 DEF Mine
  <2> QED  BY <1>6, <1>8, <2>1, <2>2 DEF Mine
<1>9. ASSUME NEW t \in Shell \ {s}, t \notin disturbed'  PROVE Own(t)'
  <2>1. sh'[t] = sh[t] /\ t \notin disturbed /\ Own(t) /\ cwd[t] \in Directory
    BY <1>1, <1>4, <1>6, <1>9 DEF IInv, TypeOK
  <2>2. sh[t].at \in Linked => cwd[t] # cwd[s]
    BY <1>6, <1>9 DEF Neighbours
  <2>3. sh[t].at = "creat" => tmp'[cwd[t]] = NoFile
    BY <1>7, <2>1 DEF Own
  <2>4. sh[t].at \in Linked => tmp'[cwd[t]] = tmp[cwd[t]]
    BY <1>7, <2>1, <2>2
  <2>5. sh[t].at \in Linked => Mine(t, tmp[cwd[t]])'
    BY <1>6, <1>8, <2>1, <2>4 DEF Own
  <2>6. sh[t].at = "type" => sh[t].out = tmp'[cwd[t]]
    BY <2>1, <2>4 DEF Own, Linked
  <2>7. sh[t].at = "command" /\ sh[t].in # NoFile => Mine(t, sh[t].in)'
    BY <1>8, <2>1 DEF Own
  <2> QED  BY <1>6, <2>1, <2>3, <2>5, <2>6, <2>7 DEF Own
<1>10. ASSUME NEW t \in Shell \ {s}  PROVE Own(t)'
  BY <1>9, <1>10 DEF Own
<1>11. Own(s)'
  BY <1>3, <1>4, <1>6, <1>7 DEF Own, Linked
<1>12. /\ cwd' \in [Shell -> Directory] /\ tmp' \in [Directory -> Inode \cup {NoFile}]
       /\ cells' \in [Inode -> Seq(Shell \cup {NoFile})] /\ disturbed' \subseteq Shell
  BY <1>1, <1>6 DEF TypeOK, Neighbours
<1> QED
  BY <1>2, <1>3, <1>5, <1>10, <1>11, <1>12, DocStep DEF DocUnlink

LEMMA EmptyDocument ==
  ASSUME NEW s
  PROVE  <<>> = [k \in 1 .. 0 |-> s]
OBVIOUS

LEMMA DocCreateOK ==
  ASSUME IInv, NEW s \in Shell, DocCreate(s)  PROVE IInv'
<1>1. /\ TypeOK /\ RcMade /\ Life(s) /\ Own(s) /\ sh[s] \in State /\ sh[s].at = "creat"
      /\ NoFile \notin Inode /\ cwd[s] \in Directory
  BY ShellsAssumption DEF IInv, TypeOK, DocCreate
<1>2. CASE Goes(s, "failed") /\ UNCHANGED docs
  <2> DEFINE st == [sh[s] EXCEPT !.at = "failed"]
  <2>1. sh' = [sh EXCEPT ![s] = st] /\ st \in State
    BY <1>1, <1>2, GoesIs DEF At
  <2>2. /\ st.at = "failed" /\ st.from = sh[s].from /\ st.text = sh[s].text
        /\ st.out = sh[s].out /\ st.in = sh[s].in
    BY <1>1 DEF State
  <2> HIDE DEF st
  <2>3. sh'[s] = st /\ \A t \in Shell \ {s} : sh'[t] = sh[t]
    BY <1>1, <2>1, Replaced
  <2>4. Life(s)'
    BY <1>1, <2>2, <2>3 DEF DocCreate, Life, Before, Running
  <2>5. RcMade' /\ {rc', home'} \subseteq Seq(RcLine) \cup {NoFile}
    BY <1>1, <2>2, <2>3, SameRc DEF DocCreate, files
  <2>6. typed' \in [Shell -> Seq(Typed)] /\ UNCHANGED <<cwd, typed>>
    BY <1>1 DEF DocCreate, TypeOK
  <2> QED  BY <1>2, <2>1, <2>2, <2>4, <2>5, <2>6, QuietStep DEF Busy, Linked
<1>3. ASSUME NEW i \in Inode,
             IF tmp[Doc(s)] = NoFile THEN ~Held(i) ELSE i = tmp[Doc(s)],
             tmp' = [tmp EXCEPT ![Doc(s)] = i],
             cells' = [cells EXCEPT ![i] = <<>>],
             sh' = [sh EXCEPT ![s].at = "type", ![s].out = i, ![s].off = 0],
             disturbed' = disturbed \cup Neighbours(s, Busy)
      PROVE  IInv'
  <2> DEFINE st == [sh[s] EXCEPT !.at = "type", !.out = i, !.off = 0]
  <2>1. sh' = [sh EXCEPT ![s] = st]
    BY <1>3
  <2>2. /\ st \in State /\ st.at = "type" /\ st.out = i /\ st.off = 0
        /\ st.from = sh[s].from /\ st.text = sh[s].text /\ st.in = sh[s].in
    BY <1>1, <1>3 DEF State, At
  <2> HIDE DEF st
  <2>3. sh'[s] = st /\ \A t \in Shell \ {s} : sh'[t] = sh[t]
    BY <1>1, <2>1, <2>2, Replaced
  <2>4. Life(s)'
    <3>1. sh[s].in = NoFile /\ i # NoFile /\ typed' = typed
      BY <1>1 DEF Life, DocCreate
    <3>2. sh[s].at \in Running /\ sh'[s].at \in Running
      BY <1>1, <2>2, <2>3 DEF Running
    <3> QED  BY <1>1, <2>2, <2>3, <3>1, <3>2, LifeGoesOn
  <2>5. /\ \A d \in Directory : tmp'[d] = IF d = cwd[s] THEN i ELSE tmp[d]
        /\ \A j \in Inode : cells'[j] = IF j = i THEN <<>> ELSE cells[j]
        /\ cwd' = cwd
    BY <1>1, <1>3 DEF TypeOK, Doc, DocCreate
  <2>6. ASSUME NEW t \in Shell \ {s}, NEW m, Mine(t, m), Held(m), cwd[t] # cwd[s]
        PROVE  Mine(t, m)'
    <3>1. m # i
      <4>1. CASE tmp[cwd[s]] = NoFile
        BY <1>3, <2>6, <4>1 DEF Doc
      <4>2. CASE tmp[cwd[s]] # NoFile
        BY <1>1, <1>3, <2>6, <4>2 DEF Doc, Mine
      <4> QED  BY <4>1, <4>2
    <3>2. m \in Inode /\ cells'[m] = cells[m]
      BY <2>5, <2>6, <3>1 DEF Mine
    <3>3. \A u \in Shell \ {t} : sh'[u].out # m
      BY <2>2, <2>3, <2>6, <3>1 DEF Mine
    <3>4. \A d \in Directory : tmp'[d] = m => d = cwd[t]
      BY <2>5, <2>6, <3>1 DEF Mine
    <3> QED  BY <2>3, <2>5, <2>6, <3>2, <3>3, <3>4 DEF Mine
  <2>7. ASSUME NEW t \in Shell \ {s}, t \notin disturbed'  PROVE Own(t)'
    <3>1. sh'[t] = sh[t] /\ t \notin disturbed /\ Own(t) /\ cwd[t] \in Directory
      BY <1>1, <1>3, <2>3, <2>7 DEF IInv, TypeOK
    <3>2. CASE sh[t].at \notin Busy
      BY <3>1, <3>2 DEF Own, Busy, Linked
    <3>3. CASE cwd[t] # cwd[s]
      <4>1. tmp'[cwd[t]] = tmp[cwd[t]]
        BY <2>5, <3>1, <3>3
      <4>2. Held(tmp[cwd[t]]) /\ Held(sh[t].in)
        BY <3>1 DEF Held
      <4>3. sh[t].at \in Linked => Mine(t, tmp[cwd[t]])'
        BY <2>5, <2>6, <3>1, <3>3, <4>1, <4>2 DEF Own
      <4>4. sh[t].at = "command" /\ sh[t].in # NoFile => Mine(t, sh[t].in)'
        BY <2>6, <3>1, <3>3, <4>2 DEF Own
      <4> QED  BY <2>5, <3>1, <4>1, <4>3, <4>4 DEF Own
    <3> QED  BY <1>3, <2>7, <3>2, <3>3 DEF Neighbours
  <2>8. \A t \in Shell \ {s} : Own(t)'
    BY <2>7 DEF Own
  <2>9. ASSUME s \notin disturbed  PROVE Mine(s, i)'
    <3>1. tmp[cwd[s]] = NoFile
      BY <1>1, <2>9 DEF Own
    <3>2. ~Held(i)
      BY <1>3, <3>1 DEF Doc
    <3>3. \A t \in Shell \ {s} : sh'[t].out # i
      BY <2>3, <3>2 DEF Held
    <3>4. \A d \in Directory : tmp'[d] = i => d = cwd[s]
      BY <2>5, <3>2 DEF Held
    <3>5. cells'[i] = [k \in 1 .. 0 |-> s]
      BY <2>5, EmptyDocument
    <3> QED  BY <1>3, <2>2, <2>3, <2>5, <3>3, <3>4, <3>5 DEF Mine
  <2>10. Own(s)'
    BY <1>1, <1>3, <2>2, <2>3, <2>5, <2>9 DEF Own, Linked
  <2>11. /\ cwd' \in [Shell -> Directory] /\ tmp' \in [Directory -> Inode \cup {NoFile}]
         /\ disturbed' \subseteq Shell
    BY <1>1, <1>3, <2>5 DEF TypeOK, Neighbours
  <2>12. cells' \in [Inode -> Seq(Shell \cup {NoFile})]
    <3>1. <<>> \in Seq(Shell \cup {NoFile})
      OBVIOUS
    <3> QED  BY <1>1, <1>3, <3>1 DEF TypeOK
  <2> QED
    BY <2>1, <2>2, <2>4, <2>8, <2>10, <2>11, <2>12, DocStep DEF DocCreate
<1> QED  BY <1>2, <1>3 DEF DocCreate

LEMMA DocLineOK ==
  ASSUME IInv, NEW s \in Shell, DocLine(s)  PROVE IInv'
<1> DEFINE i == sh[s].out
           n == sh[s].off
           st == [sh[s] EXCEPT !.off = @ + 1]
           longer == [k \in 1 .. IF Len(cells[i]) > n THEN Len(cells[i]) ELSE n + 1 |->
                        IF k = n + 1 THEN s ELSE IF k <= Len(cells[i]) THEN cells[i][k] ELSE NoFile]
<1>1. TypeOK /\ Life(s) /\ Own(s) /\ sh[s] \in State /\ sh[s].at = "type" /\ NoFile \notin Inode
  BY ShellsAssumption DEF IInv, TypeOK, DocLine
<1>2. i \in Inode /\ n \in Nat /\ cells[i] \in Seq(Shell \cup {NoFile})
  BY <1>1 DEF Life, State, TypeOK
<1>3. sh' = [sh EXCEPT ![s] = st] /\ cells' = [cells EXCEPT ![i] = longer]
  BY <1>1, <1>2 DEF DocLine, TypeOK
<1>4. /\ st \in State /\ st.at = "type" /\ st.out = i /\ st.off = n + 1
      /\ st.from = sh[s].from /\ st.text = sh[s].text /\ st.in = sh[s].in
  <2>1. n + 1 \in Nat /\ st = [sh[s] EXCEPT !.off = n + 1]
    BY <1>2
  <2> QED  BY <1>1, <2>1 DEF State
<1>5. longer \in Seq(Shell \cup {NoFile})
  <2> DEFINE old == cells[i]
             m == IF Len(old) > n THEN Len(old) ELSE n + 1
  <2>1. Len(old) \in Nat /\ \A k \in 1 .. Len(old) : old[k] \in Shell \cup {NoFile}
    BY <1>2
  <2>2. m \in Nat
    BY <1>2, <2>1
  <2>3. \A k \in 1 .. m :
          (IF k = n + 1 THEN s ELSE IF k <= Len(old) THEN old[k] ELSE NoFile)
            \in Shell \cup {NoFile}
    BY <1>2, <2>1
  <2> HIDE DEF m, old
  <2>4. longer = [k \in 1 .. m |->
                    IF k = n + 1 THEN s ELSE IF k <= Len(old) THEN old[k] ELSE NoFile]
    BY DEF m, old
  <2> HIDE DEF longer, n
  <2> QED  BY <2>2, <2>3, <2>4
<1>6. cells[i] = [k \in 1 .. n |-> s] => longer = [k \in 1 .. n + 1 |-> s]
  <2> SUFFICES ASSUME cells[i] = [k \in 1 .. n |-> s]
               PROVE  longer = [k \in 1 .. n + 1 |-> s]
    OBVIOUS
  <2>1. Len(cells[i]) = n
    BY <1>2
  <2>2. \A k \in 1 .. n : cells[i][k] = s
    BY <1>2
  <2> QED  BY <1>2, <2>1, <2>2
<1> HIDE DEF st, longer
<1>7. sh'[s] = st /\ \A t \in Shell \ {s} : sh'[t] = sh[t]
  BY <1>1, <1>3, <1>4, Replaced
<1>8. Life(s)'
  BY <1>1, <1>2, <1>4, <1>7, LifeGoesOn DEF DocLine, Life, Running
<1>9. /\ \A j \in Inode : cells'[j] = IF j = i THEN longer ELSE cells[j]
      /\ UNCHANGED <<cwd, tmp, disturbed>>
  BY <1>1, <1>3 DEF TypeOK, DocLine
<1>10. ASSUME NEW t \in Shell \ {s}, NEW m, Mine(t, m)  PROVE Mine(t, m)'
  <2>1. m \in Inode /\ m # i
    BY <1>10 DEF Mine
  <2>2. \A u \in Shell : sh'[u].out = sh[u].out
    BY <1>4, <1>7
  <2> QED  BY <1>7, <1>9, <1>10, <2>1, <2>2 DEF Mine
<1>11. ASSUME NEW t \in Shell \ {s}  PROVE Own(t)'
  BY <1>7, <1>9, <1>10, <1>11 DEF IInv, Own
<1>12. ASSUME Mine(s, i)  PROVE Mine(s, i)'
  BY <1>2, <1>4, <1>6, <1>7, <1>9, <1>12 DEF Mine
<1>13. Own(s)'
  BY <1>1, <1>4, <1>7, <1>9, <1>12 DEF Own, Linked
<1>14. /\ cwd' \in [Shell -> Directory] /\ tmp' \in [Directory -> Inode \cup {NoFile}]
       /\ cells' \in [Inode -> Seq(Shell \cup {NoFile})] /\ disturbed' \subseteq Shell
  BY <1>1, <1>3, <1>5, <1>9 DEF TypeOK
<1> QED
  BY <1>3, <1>4, <1>8, <1>11, <1>13, <1>14, DocStep DEF DocLine

(* The document or its command is given up. *)
LEMMA GivesUp ==
  ASSUME IInv, NEW s \in Shell, NEW st \in State, sh' = [sh EXCEPT ![s] = st],
         UNCHANGED <<cwd, docs, files, typed>>, sh[s].at \in Running,
         st.at \in {"reset", "failed"}, st.from = sh[s].from, st.text = sh[s].text,
         st.out = NoFile, st.in = NoFile
  PROVE  IInv'
<1>1. TypeOK /\ RcMade /\ Life(s)
  BY DEF IInv
<1>2. sh'[s] = st /\ \A t \in Shell \ {s} : sh'[t] = sh[t]
  BY <1>1, Replaced
<1>3. Life(s)'
  BY <1>1, <1>2 DEF Life, Before, Running
<1>4. RcMade' /\ {rc', home'} \subseteq Seq(RcLine) \cup {NoFile}
  BY <1>1, <1>2, SameRc DEF files
<1>5. typed' \in [Shell -> Seq(Typed)]
  BY <1>1 DEF TypeOK
<1> QED  BY <1>3, <1>4, <1>5, QuietStep DEF Busy, Linked

(* The document is complete, and the command is going to read it. *)
LEMMA GoesOn ==
  ASSUME IInv, NEW s \in Shell, NEW st \in State, sh' = [sh EXCEPT ![s] = st],
         UNCHANGED <<cwd, docs, files, typed>>, sh[s].at \in Linked,
         st.at \in {"access", "open", "command"}, st.from = sh[s].from,
         st.text = sh[s].text, st.off = sh[s].off, st.out = NoFile,
         st.in = IF st.at = "command" THEN tmp[cwd[s]] ELSE NoFile
  PROVE  IInv'
<1>1. TypeOK /\ Life(s) /\ Own(s) /\ NoFile \notin Inode
  BY ShellsAssumption DEF IInv
<1>2. sh'[s] = st /\ \A t \in Shell \ {s} : sh'[t] = sh[t]
  BY <1>1, Replaced
<1>3. Life(s)'
  <2>1. sh[s].at \in Running /\ sh'[s].at \in Running
    BY <1>2 DEF Running, Linked
  <2> QED  BY <1>1, <1>2, <2>1, LifeGoesOn
<1>4. UNCHANGED <<tmp, cells, disturbed>>
  BY DEF docs
<1>5. \A u \in Shell : sh'[u].out \in {sh[u].out, NoFile} /\ sh'[u].off = sh[u].off
  BY <1>2
<1>6. ASSUME NEW t \in Shell, NEW i, Mine(t, i)  PROVE Mine(t, i)'
  <2>1. i \in Inode /\ i # NoFile
    BY <1>1, <1>6 DEF Mine
  <2>2. \A u \in Shell \ {t} : sh'[u].out # i
    BY <1>5, <1>6, <2>1 DEF Mine
  <2> QED  BY <1>4, <1>5, <1>6, <2>2 DEF Mine
<1>7. ASSUME NEW t \in Shell \ {s}  PROVE Own(t)'
  BY <1>2, <1>4, <1>6, <1>7 DEF IInv, Own
<1>8. Own(s)'
  BY <1>1, <1>2, <1>4, <1>6 DEF Own, Linked
<1>9. /\ cwd' \in [Shell -> Directory] /\ tmp' \in [Directory -> Inode \cup {NoFile}]
      /\ cells' \in [Inode -> Seq(Shell \cup {NoFile})] /\ disturbed' \subseteq Shell
  BY <1>1, <1>4 DEF TypeOK
<1> QED  BY <1>3, <1>7, <1>8, <1>9, DocStep

LEMMA DocEndOK ==
  ASSUME IInv, NEW s \in Shell, DocEnd(s)  PROVE IInv'
<1>1. TypeOK /\ Life(s) /\ sh[s] \in State /\ sh[s].at = "type"
  BY DEF IInv, TypeOK, DocEnd
<1>2. PICK a \in {"access", "reset"} :
        sh' = [sh EXCEPT ![s] = [sh[s] EXCEPT !.at = a, !.out = NoFile]]
  BY DEF DocEnd
<1> DEFINE st == [sh[s] EXCEPT !.at = a, !.out = NoFile]
<1>3. /\ st \in State /\ st.at = a /\ st.out = NoFile /\ st.from = sh[s].from
      /\ st.text = sh[s].text /\ st.in = sh[s].in /\ st.off = sh[s].off
  BY <1>1 DEF State, At
<1> HIDE DEF st
<1>4. sh' = [sh EXCEPT ![s] = st] /\ UNCHANGED <<cwd, docs, files, typed>>
  BY <1>2 DEF st, DocEnd
<1>5. sh[s].in = NoFile
  BY <1>1 DEF Life
<1>6. CASE a = "reset"
  BY <1>1, <1>3, <1>4, <1>5, <1>6, GivesUp DEF Running
<1>7. CASE a = "access"
  BY <1>1, <1>3, <1>4, <1>5, <1>7, GoesOn DEF Linked
<1> QED  BY <1>6, <1>7

LEMMA DocAccessOK ==
  ASSUME IInv, NEW s \in Shell, DocAccess(s)  PROVE IInv'
<1>1. TypeOK /\ Life(s) /\ sh[s] \in State /\ sh[s].at = "access"
  BY DEF IInv, TypeOK, DocAccess
<1>2. PICK a \in {"reset", "open"} : Goes(s, a)
  BY DEF DocAccess
<1> DEFINE st == [sh[s] EXCEPT !.at = a]
<1>3. sh' = [sh EXCEPT ![s] = st] /\ st \in State
  BY <1>1, <1>2, GoesIs DEF At
<1>4. /\ st.at = a /\ st.out = sh[s].out /\ st.from = sh[s].from
      /\ st.text = sh[s].text /\ st.in = sh[s].in /\ st.off = sh[s].off
  BY <1>1 DEF State
<1> HIDE DEF st
<1>5. sh[s].in = NoFile /\ sh[s].out = NoFile /\ UNCHANGED <<cwd, docs, files, typed>>
  BY <1>1 DEF Life, DocAccess
<1>6. CASE a = "reset"
  BY <1>1, <1>3, <1>4, <1>5, <1>6, GivesUp DEF Running
<1>7. CASE a = "open"
  BY <1>1, <1>3, <1>4, <1>5, <1>7, GoesOn DEF Linked
<1> QED  BY <1>6, <1>7

LEMMA DocOpenOK ==
  ASSUME IInv, NEW s \in Shell, DocOpen(s)  PROVE IInv'
<1>1. /\ TypeOK /\ Life(s) /\ sh[s] \in State /\ sh[s].at = "open"
      /\ sh[s].in = NoFile /\ sh[s].out = NoFile
  BY DEF IInv, TypeOK, DocOpen, Life
<1>2. UNCHANGED <<cwd, docs, files, typed>>
  BY DEF DocOpen
<1>3. CASE tmp[Doc(s)] = NoFile
  <2> DEFINE st == [sh[s] EXCEPT !.at = "failed"]
  <2>1. sh' = [sh EXCEPT ![s] = st]
    BY <1>3 DEF DocOpen
  <2>2. /\ st \in State /\ st.at = "failed" /\ st.out = sh[s].out /\ st.from = sh[s].from
        /\ st.text = sh[s].text /\ st.in = sh[s].in
    BY <1>1 DEF State, At
  <2> HIDE DEF st
  <2> QED  BY <1>1, <1>2, <2>1, <2>2, GivesUp DEF Running
<1>4. CASE tmp[Doc(s)] # NoFile
  <2> DEFINE i == tmp[cwd[s]]
             st == [sh[s] EXCEPT !.at = "command", !.in = i]
  <2>1. sh' = [sh EXCEPT ![s] = st]
    BY <1>4 DEF DocOpen, Doc
  <2>2. i \in Inode
    BY <1>1, <1>4 DEF TypeOK, Doc
  <2>3. /\ st \in State /\ st.at = "command" /\ st.out = sh[s].out /\ st.from = sh[s].from
        /\ st.text = sh[s].text /\ st.in = i /\ st.off = sh[s].off
    BY <1>1, <2>2 DEF State, At
  <2> HIDE DEF st
  <2> QED  BY <1>1, <1>2, <2>1, <2>3, GoesOn DEF Linked
<1> QED  BY <1>3, <1>4

LEMMA CommandOK ==
  ASSUME IInv, NEW s \in Shell, Command(s)  PROVE IInv'
<1> DEFINE st == [sh[s] EXCEPT !.at = "reset", !.in = NoFile, !.moves = FALSE]
<1>1. TypeOK /\ Life(s) /\ sh[s] \in State /\ sh[s].at = "command" /\ sh[s].out = NoFile
  BY DEF IInv, TypeOK, Command, Life
<1>2. sh' = [sh EXCEPT ![s] = st]
  BY DEF Command
<1>3. /\ st \in State /\ st.at = "reset" /\ st.out = NoFile /\ st.from = sh[s].from
      /\ st.text = sh[s].text /\ st.in = NoFile
  BY <1>1 DEF State, At
<1> HIDE DEF st
<1>4. sh'[s] = st /\ \A t \in Shell \ {s} : sh'[t] = sh[t]
  BY <1>1, <1>2, <1>3, Replaced
<1>5. Life(s)'
  <2>1. sh[s].at \in Running /\ sh'[s].at \in Running /\ typed' = typed
    BY <1>1, <1>3, <1>4 DEF Running, Command
  <2> QED  BY <1>1, <1>3, <1>4, <2>1, LifeGoesOn
<1>6. /\ cwd' \in [Shell -> Directory] /\ \A t \in Shell \ {s} : cwd'[t] = cwd[t]
      /\ UNCHANGED <<tmp, cells, disturbed>>
  BY <1>1 DEF Command, TypeOK, docs
<1>7. ASSUME NEW t \in Shell \ {s}, NEW i, Mine(t, i)  PROVE Mine(t, i)'
  <2>1. \A u \in Shell : sh'[u].out = sh[u].out
    BY <1>1, <1>3, <1>4
  <2> QED  BY <1>4, <1>6, <1>7, <2>1 DEF Mine
<1>8. ASSUME NEW t \in Shell \ {s}  PROVE Own(t)'
  BY <1>4, <1>6, <1>7, <1>8 DEF IInv, Own
<1>9. Own(s)'
  BY <1>3, <1>4 DEF Own, Linked
<1>10. /\ tmp' \in [Directory -> Inode \cup {NoFile}]
       /\ cells' \in [Inode -> Seq(Shell \cup {NoFile})] /\ disturbed' \subseteq Shell
  BY <1>1, <1>6 DEF TypeOK
<1> QED
  BY <1>2, <1>3, <1>5, <1>6, <1>8, <1>9, <1>10, DocStep DEF Command

LEMMA ResetDataOK ==
  ASSUME IInv, NEW s \in Shell, ResetData(s)  PROVE IInv'
<1> DEFINE st == AfterLine(sh[s])
<1>1. /\ TypeOK /\ Life(s) /\ sh[s] \in State /\ sh[s].at = "reset" /\ NoFile \notin Inode
      /\ cwd[s] \in Directory
  BY ShellsAssumption DEF IInv, TypeOK, ResetData, Resets
<1>2. /\ sh[s].text = "held" /\ sh[s].out = NoFile /\ sh[s].in = NoFile
      /\ sh[s].from = "rc" => typed[s] = <<>>
  BY <1>1 DEF Life, Running
<1>3. sh' = [sh EXCEPT ![s] = st]
  BY DEF ResetData, Resets
<1>4. /\ st \in State /\ st.text = "none" /\ st.from = sh[s].from
      /\ st.out = NoFile /\ st.in = NoFile
      /\ st.from = "rc" => st.at = "rc"
      /\ st.from = "prompt" => st.at \in {"left", "prompt"} /\ (st.at = "prompt" => ~st.flag)
  BY <1>1, <1>2, AfterLineIs
<1> HIDE DEF st
<1>5. st.from \in {"rc", "prompt"}
  BY <1>4 DEF State
<1>6. sh'[s] = st /\ \A t \in Shell \ {s} : sh'[t] = sh[t]
  BY <1>1, <1>3, <1>4, Replaced
<1>7. Life(s)'
  <2>1. typed' = typed
    BY DEF ResetData, Resets
  <2> QED  BY <1>2, <1>4, <1>5, <1>6, <2>1 DEF Life, Before, Running
<1>8. /\ cwd' = cwd /\ cells' = cells
      /\ tmp' = [tmp EXCEPT ![cwd[s]] = NoFile]
      /\ disturbed' = (disturbed \cup Neighbours(s, Linked)) \ {s}
  BY DEF ResetData, Resets, Doc
<1>9. \A d \in Directory : tmp'[d] = IF d = cwd[s] THEN NoFile ELSE tmp[d]
  BY <1>1, <1>8 DEF TypeOK
<1>10. ASSUME NEW t \in Shell \ {s}, NEW i, Mine(t, i)  PROVE Mine(t, i)'
  <2>1. \A u \in Shell : sh'[u].out = sh[u].out
    BY <1>2, <1>4, <1>6
  <2>2. \A d \in Directory : tmp'[d] = i => tmp[d] = i
    BY <1>1, <1>9, <1>10 DEF Mine
  <2> QED  BY <1>6, <1>8, <1>10, <2>1, <2>2 DEF Mine
<1>11. ASSUME NEW t \in Shell \ {s}, t \notin disturbed'  PROVE Own(t)'
  <2>1. sh'[t] = sh[t] /\ t \notin disturbed /\ Own(t) /\ cwd[t] \in Directory
    BY <1>1, <1>6, <1>8, <1>11 DEF IInv, TypeOK
  <2>2. sh[t].at \in Linked => cwd[t] # cwd[s]
    BY <1>8, <1>11 DEF Neighbours
  <2>3. sh[t].at = "creat" => tmp'[cwd[t]] = NoFile
    BY <1>9, <2>1 DEF Own
  <2>4. sh[t].at \in Linked => tmp'[cwd[t]] = tmp[cwd[t]]
    BY <1>9, <2>1, <2>2
  <2>5. sh[t].at \in Linked => Mine(t, tmp[cwd[t]])'
    BY <1>8, <1>10, <2>1, <2>4 DEF Own
  <2>6. sh[t].at = "type" => sh[t].out = tmp'[cwd[t]]
    BY <2>1, <2>4 DEF Own, Linked
  <2>7. sh[t].at = "command" /\ sh[t].in # NoFile => Mine(t, sh[t].in)'
    BY <1>10, <2>1 DEF Own
  <2> QED  BY <1>8, <2>1, <2>3, <2>5, <2>6, <2>7 DEF Own
<1>12. \A t \in Shell \ {s} : Own(t)'
  BY <1>11 DEF Own
<1>13. Own(s)'
  BY <1>4, <1>5, <1>6 DEF Own, Linked
<1>14. /\ cwd' \in [Shell -> Directory] /\ tmp' \in [Directory -> Inode \cup {NoFile}]
       /\ cells' \in [Inode -> Seq(Shell \cup {NoFile})] /\ disturbed' \subseteq Shell
  BY <1>1, <1>8 DEF TypeOK, Neighbours
<1>15. UNCHANGED <<files, typed>> /\ st.at # "header"
  BY <1>4, <1>5 DEF ResetData, Resets
<1> QED  BY <1>3, <1>4, <1>7, <1>12, <1>13, <1>14, <1>15, DocStep

(***************************************************************************)
(* The invariant.                                                          *)
(***************************************************************************)
LEMMA InitOK == Init => IInv
<1> SUFFICES ASSUME Init  PROVE IInv
  OBVIOUS
<1>1. \A s \in Shell : sh[s] = Off /\ typed[s] = <<>>
  BY DEF Init
<1>2. TypeOK
  <2>1. <<>> \in Seq(Shell \cup {NoFile}) /\ <<>> \in Seq(Typed)
    OBVIOUS
  <2>2. sh \in [Shell -> State]
    BY OffIs DEF Init
  <2>3. rc \in Seq(RcLine) \cup {NoFile} /\ home \in Seq(RcLine) \cup {NoFile}
    BY ShellsAssumption DEF Init
  <2> QED  BY <2>1, <2>2, <2>3 DEF Init, TypeOK
<1>3. \A s \in Shell : Life(s)
  BY <1>1, OffIs DEF Life, Before, Running
<1>4. \A s \in Shell : Own(s)
  BY <1>1, OffIs DEF Own, Linked
<1>5. RcMade
  BY <1>1, OffIs DEF RcMade
<1> QED  BY <1>2, <1>3, <1>4, <1>5 DEF IInv

LEMMA NextOK ==
  ASSUME IInv, [Next]_vars  PROVE IInv'
<1>1. ASSUME NEW s \in Shell,
             \/ Starts(s) \/ SourceRc(s) \/ CreateEmptyRc(s) \/ WriteHeader(s)
             \/ PrintBanner(s) \/ RcNext(s) \/ Readline(s) \/ EndOfInput(s) \/ Hangup(s)
      PROVE  IInv'
  BY <1>1, StartsOK, SourceRcOK, CreateEmptyRcOK, WriteHeaderOK, PrintBannerOK, RcNextOK,
     ReadlineOK, EndOfInputOK, HangupOK
<1>2. ASSUME NEW s \in Shell,
             \/ DocUnlink(s) \/ DocCreate(s) \/ DocLine(s) \/ DocEnd(s)
             \/ DocAccess(s) \/ DocOpen(s) \/ Command(s) \/ ResetData(s)
      PROVE  IInv'
  BY <1>2, DocUnlinkOK, DocCreateOK, DocLineOK, DocEndOK, DocAccessOK, DocOpenOK,
     CommandOK, ResetDataOK
<1>3. CASE UserWritesRc
  BY <1>3, UserWritesRcOK
<1>4. CASE UNCHANGED vars
  <2>1. UNCHANGED <<sh, cwd, rc, home, tmp, cells, typed, disturbed>>
    BY <1>4 DEF vars
  <2>2. TypeOK' /\ RcMade'
    BY <2>1 DEF IInv, TypeOK, RcMade
  <2>3. \A s \in Shell : Life(s)' /\ Own(s)'
    BY <2>1 DEF IInv, Life, Own, Mine
  <2> QED  BY <2>2, <2>3 DEF IInv
<1> QED  BY <1>1, <1>2, <1>3, <1>4 DEF Next

(***************************************************************************)
(* What is left in the directories.                                        *)
(*                                                                         *)
(* Each .here_doc_tmp there is has a shell that will remove it, since it   *)
(* is in the directory of that shell and its line is not over (Keeps): as  *)
(* long as no shell ends in another way than by exit, and no document      *)
(* belongs to cd.                                                          *)
(***************************************************************************)
Documents == {"unlink", "creat", "type", "access", "open"}
Removers == {"type", "access", "open", "command", "reset"}

Moves(lines) == \E i \in DOMAIN lines : lines[i] = "doccd"
Strays ==
  \/ \E file \in {rc, home} \ {NoFile} : Moves(file)
  \/ \E s \in Shell : Moves(typed[s]) \/ sh[s].at \in Ended \ {"left"}
Stays(s) == ~Moves(sh[s].todo) /\ (sh[s].at \in Documents => ~sh[s].moves)
Keeps(s, d) == cwd[s] = d /\ ~sh[s].moves /\ sh[s].at \in Removers
Attended == \A d \in Directory : tmp[d] # NoFile => \E s \in Shell : Keeps(s, d)

Tidy == Strays \/ (Attended /\ \A s \in Shell : Stays(s))

(* The rc file is made where there is none, and then the header written.   *)
LEMMA RcStep ==
  ASSUME IInv, [Next]_vars, rc # NoFile, rc' # rc
  PROVE  rc = <<>> /\ rc' = Header /\ \E s \in Shell : sh[s].at = "header"
<1>1. RcMade
  BY DEF IInv
<1>2. \/ UserWritesRc
      \/ \E s \in Shell : CreateEmptyRc(s) \/ WriteHeader(s)
  BY DEF Next, vars, files, Starts, SourceRc, PrintBanner, RcNext, Readline, EndOfInput,
     DocUnlink, DocCreate, DocLine, DocEnd, DocAccess, DocOpen, Command, ResetData,
     Resets, Hangup
<1>3. \E s \in Shell : WriteHeader(s)
  BY <1>2 DEF UserWritesRc, CreateEmptyRc
<1> QED  BY <1>1, <1>3 DEF WriteHeader, RcMade

(* A shell that has ended does nothing. *)
LEMMA EndedStays ==
  ASSUME IInv, [Next]_vars, NEW t \in Shell, sh[t].at \in Ended
  PROVE  sh'[t] = sh[t]
<1>1. sh \in [Shell -> State]
  BY DEF IInv, TypeOK
<1>2. ASSUME NEW s \in Shell, Starts(s) \/ SourceRc(s) \/ CreateEmptyRc(s)
      PROVE  sh'[t] = sh[t]
  BY <1>1, <1>2 DEF Starts, SourceRc, CreateEmptyRc, Goes, Ended
<1>3. ASSUME NEW s \in Shell, WriteHeader(s) \/ PrintBanner(s) \/ EndOfInput(s)
      PROVE  sh'[t] = sh[t]
  BY <1>1, <1>3 DEF WriteHeader, PrintBanner, EndOfInput, Goes, Ended
<1>4. ASSUME NEW s \in Shell, RcNext(s)  PROVE sh'[t] = sh[t]
  <2>1. sh[s].at = "rc" /\ \E st \in State : sh' = [sh EXCEPT ![s] = st]
    BY <1>4, RcNextIs DEF RcNext, IInv
  <2> QED  BY <1>1, <2>1 DEF Ended
<1>5. ASSUME NEW s \in Shell, Readline(s)  PROVE sh'[t] = sh[t]
  <2>1. sh[s].at = "prompt" /\ \E line : sh' = [sh EXCEPT ![s] = LexerPaserExec(s, line)]
    BY <1>5 DEF Readline
  <2> QED  BY <1>1, <2>1 DEF Ended
<1>6. ASSUME NEW s \in Shell, DocUnlink(s) \/ DocCreate(s) \/ DocLine(s) \/ DocEnd(s)
      PROVE  sh'[t] = sh[t]
  BY <1>1, <1>6 DEF DocUnlink, DocCreate, DocLine, DocEnd, Goes, Ended
<1>7. ASSUME NEW s \in Shell, DocAccess(s) \/ DocOpen(s) \/ Command(s)
      PROVE  sh'[t] = sh[t]
  BY <1>1, <1>7 DEF DocAccess, DocOpen, Command, Goes, Ended
<1>8. ASSUME NEW s \in Shell, ResetData(s)  PROVE sh'[t] = sh[t]
  <2>1. sh[s].at = "reset" /\ sh' = [sh EXCEPT ![s] = AfterLine(sh[s])]
    BY <1>8 DEF ResetData, Resets
  <2> QED  BY <1>1, <2>1 DEF Ended
<1>9. ASSUME NEW s \in Shell, Hangup(s)  PROVE sh'[t] = sh[t]
  BY <1>1, <1>9 DEF Hangup
<1>10. CASE UserWritesRc \/ UNCHANGED vars
  BY <1>10 DEF UserWritesRc, vars
<1> QED
  BY <1>2, <1>3, <1>4, <1>5, <1>6, <1>7, <1>8, <1>9, <1>10 DEF Next

(* What the users have typed is only added to. *)
LEMMA TypedStays ==
  ASSUME IInv, [Next]_vars, NEW t \in Shell
  PROVE  typed'[t] = typed[t] \/ \E line \in Typed : typed'[t] = Append(typed[t], line)
<1>1. typed \in [Shell -> Seq(Typed)]
  BY DEF IInv, TypeOK
<1>2. typed' = typed \/ \E s \in Shell : Readline(s)
  BY DEF Next, vars, UserWritesRc, Starts, SourceRc, CreateEmptyRc, WriteHeader, PrintBanner,
     RcNext, EndOfInput, DocUnlink, DocCreate, DocLine, DocEnd, DocAccess, DocOpen, Command,
     ResetData, Resets, Hangup
<1>3. ASSUME NEW s \in Shell, Readline(s)
      PROVE  typed'[t] = typed[t] \/ \E line \in Typed : typed'[t] = Append(typed[t], line)
  <2>1. PICK line \in Typed : typed' = [typed EXCEPT ![s] = Append(@, line)]
    BY <1>3 DEF Readline
  <2> QED  BY <1>1, <2>1
<1> QED  BY <1>2, <1>3

LEMMA AppendMoves ==
  ASSUME NEW s \in Seq(Line), NEW line \in Line
  PROVE  /\ Moves(s) => Moves(Append(s, line))
         /\ line = "doccd" => Moves(Append(s, line))
<1> DEFINE t == Append(s, line)
<1>1. /\ t \in Seq(Line) /\ Len(t) = Len(s) + 1 /\ Len(s) \in Nat
      /\ \A i \in 1 .. Len(s) : t[i] = s[i]
      /\ t[Len(s) + 1] = line
  OBVIOUS
<1>2. DOMAIN t = 1 .. Len(s) + 1 /\ DOMAIN s = 1 .. Len(s)
  BY <1>1
<1> HIDE DEF t
<1>3. Moves(s) => Moves(t)
  BY <1>1, <1>2 DEF Moves
<1>4. line = "doccd" => Moves(t)
  BY <1>1, <1>2 DEF Moves
<1> QED  BY <1>3, <1>4 DEF t

(* What leaves a document behind does so for good. *)
LEMMA StraysStay ==
  ASSUME IInv, [Next]_vars, Strays  PROVE Strays'
<1>1. CASE \E file \in {rc, home} \ {NoFile} : Moves(file)
  <2>1. home' = home
    BY DEF Next, vars, files, UserWritesRc, Starts, SourceRc, CreateEmptyRc, WriteHeader,
       PrintBanner, RcNext, Readline, EndOfInput, DocUnlink, DocCreate, DocLine, DocEnd,
       DocAccess, DocOpen, Command, ResetData, Resets, Hangup
  <2>2. ASSUME rc # NoFile, Moves(rc)  PROVE rc' = rc
    BY <2>2, RcStep DEF Moves
  <2> QED  BY <1>1, <2>1, <2>2 DEF Strays
<1>2. ASSUME NEW s \in Shell, Moves(typed[s])  PROVE Strays'
  <2>1. typed[s] \in Seq(Line)
    BY ShellsAssumption DEF IInv, TypeOK
  <2>2. Moves(typed'[s])
    BY <1>2, <2>1, TypedStays, AppendMoves, ShellsAssumption
  <2> QED  BY <2>2 DEF Strays, Moves
<1>3. ASSUME NEW s \in Shell, sh[s].at \in Ended \ {"left"}  PROVE Strays'
  BY <1>3, EndedStays DEF Strays
<1> QED  BY <1>1, <1>2, <1>3 DEF Strays

(* A step of one shell, which keeps what it kept, or has removed it. *)
LEMMA TidyStep ==
  ASSUME TypeOK, Attended, \A t \in Shell : Stays(t),
         NEW s \in Shell, NEW st \in State, sh' = [sh EXCEPT ![s] = st],
         \A t \in Shell \ {s} : cwd'[t] = cwd[t],
         ~Moves(st.todo), st.at \in Documents => ~st.moves,
         \A d \in Directory : tmp'[d] # NoFile =>
           Keeps(s, d)' \/ (tmp'[d] = tmp[d] /\ ~Keeps(s, d))
  PROVE  Tidy'
<1>1. sh'[s] = st /\ \A t \in Shell \ {s} : sh'[t] = sh[t]
  BY Replaced
<1>2. \A t \in Shell : Stays(t)'
  BY <1>1 DEF Stays, Moves
<1>3. \A t \in Shell \ {s}, d \in Directory : Keeps(t, d) => Keeps(t, d)'
  BY <1>1 DEF Keeps
<1>4. Attended'
  BY <1>3 DEF Attended
<1> QED  BY <1>2, <1>4 DEF Tidy

(* In particular one that has nothing to do with documents. *)
LEMMA TidyApart ==
  ASSUME TypeOK, Attended, \A t \in Shell : Stays(t),
         NEW s \in Shell, NEW st \in State, sh' = [sh EXCEPT ![s] = st],
         UNCHANGED <<cwd, tmp>>, sh[s].at \notin Removers,
         ~Moves(st.todo), st.at \in Documents => ~st.moves
  PROVE  Tidy'
<1>1. \A d \in Directory : ~Keeps(s, d)
  BY DEF Keeps
<1> QED  BY <1>1, TidyStep

(* Or one that goes on with its document. *)
LEMMA TidyGoesOn ==
  ASSUME TypeOK, Attended, \A t \in Shell : Stays(t),
         NEW s \in Shell, NEW st \in State, sh' = [sh EXCEPT ![s] = st],
         UNCHANGED <<cwd, tmp>>, st.at \in Removers, st.moves = sh[s].moves,
         st.todo = sh[s].todo, sh[s].at \in Documents
  PROVE  Tidy'
<1>1. sh'[s] = st
  BY Replaced
<1>2. \A d \in Directory : Keeps(s, d) => Keeps(s, d)'
  BY <1>1 DEF Keeps
<1>3. ~Moves(st.todo) /\ ~st.moves
  BY DEF Stays
<1> QED  BY <1>2, <1>3, TidyStep

(* Before the prompt. *)
LEMMA StartTidy ==
  ASSUME IInv, Attended, \A t \in Shell : Stays(t), ~Strays, NEW s \in Shell,
         \/ Starts(s) \/ SourceRc(s) \/ CreateEmptyRc(s) \/ WriteHeader(s)
         \/ PrintBanner(s) \/ EndOfInput(s)
  PROVE  Tidy'
<1>1. TypeOK /\ sh[s] \in State /\ ~Moves(sh[s].todo)
  BY DEF IInv, TypeOK, Stays
<1>2. UNCHANGED <<cwd, tmp>> /\ sh[s].at \notin Removers
  BY DEF Starts, SourceRc, CreateEmptyRc, WriteHeader, PrintBanner, EndOfInput, docs,
         Removers
<1>3. CASE SourceRc(s) /\ (rc # NoFile \/ home # NoFile)
  <2> DEFINE file == IF rc = NoFile THEN home ELSE rc
             st == [sh[s] EXCEPT !.at = "rc", !.todo = file]
  <2>1. file \in Seq(RcLine) /\ ~Moves(file)
    BY <1>1, <1>3 DEF TypeOK, Strays
  <2>2. sh' = [sh EXCEPT ![s] = st]
    BY <1>3 DEF SourceRc
  <2> HIDE DEF file
  <2>3. st \in State /\ st.at = "rc" /\ st.todo = file
    BY <1>1, <2>1 DEF State, At
  <2> HIDE DEF st
  <2> QED  BY <1>1, <1>2, <2>1, <2>2, <2>3, TidyApart DEF Documents
<1>4. CASE PrintBanner(s) /\ ~Goes(s, "nobanner")
  <2> DEFINE st == [sh[s] EXCEPT !.at = "prompt", !.from = "prompt"]
  <2>1. sh' = [sh EXCEPT ![s] = st]
    BY <1>4 DEF PrintBanner
  <2>2. st \in State /\ st.at = "prompt" /\ st.todo = sh[s].todo
    BY <1>1 DEF State, At
  <2> HIDE DEF st
  <2> QED  BY <1>1, <1>2, <2>1, <2>2, TidyApart DEF Documents
<1>5. ASSUME NEW a \in At \ Documents, Goes(s, a)  PROVE Tidy'
  <2> DEFINE st == [sh[s] EXCEPT !.at = a]
  <2>1. sh' = [sh EXCEPT ![s] = st] /\ st \in State
    BY <1>1, <1>5, GoesIs
  <2>2. st.at = a /\ st.todo = sh[s].todo
    BY <1>1 DEF State
  <2> HIDE DEF st
  <2> QED  BY <1>1, <1>2, <2>1, <2>2, TidyApart
<1>6. SourceRc(s) /\ rc = NoFile /\ home = NoFile => Goes(s, "create")
  BY DEF SourceRc, Goes
<1>7. \/ SourceRc(s) /\ (rc # NoFile \/ home # NoFile)
      \/ PrintBanner(s) /\ ~Goes(s, "nobanner")
      \/ \E a \in {"start", "create", "header", "norc", "banner", "nobanner", "left"} :
           Goes(s, a)
  BY <1>6 DEF Starts, CreateEmptyRc, WriteHeader, EndOfInput
<1> QED  BY <1>3, <1>4, <1>5, <1>7 DEF At, Documents

(* A line of the rc file, or a typed one. *)
LEMMA RcNextTidy ==
  ASSUME IInv, Attended, \A t \in Shell : Stays(t), NEW s \in Shell, RcNext(s)
  PROVE  Tidy'
<1>1. TypeOK /\ sh[s].todo \in Seq(RcLine) /\ ~Moves(sh[s].todo)
  BY DEF IInv, TypeOK, State, Stays
<1>2. PICK st \in State :
        /\ sh' = [sh EXCEPT ![s] = st]
        /\ \/ st.todo = sh[s].todo
           \/ sh[s].todo # <<>> /\ st.todo = Tail(sh[s].todo)
        /\ st.at = "unlink" /\ st.moves => sh[s].todo # <<>> /\ Head(sh[s].todo) = "doccd"
        /\ st.at \in {"banner", "rc", "aborted", "unlink", "command", "reset"}
  BY <1>1, RcNextIs
<1>3. ~Moves(st.todo)
  <2>1. ASSUME NEW q \in Seq(RcLine), q # <<>>, Moves(Tail(q))  PROVE Moves(q)
    <3>1. PICK i \in DOMAIN Tail(q) : Tail(q)[i] = "doccd"
      BY <2>1 DEF Moves
    <3>2. i + 1 \in DOMAIN q /\ q[i + 1] = Tail(q)[i]
      BY <2>1
    <3> QED  BY <3>1, <3>2 DEF Moves
  <2> QED  BY <1>1, <1>2, <2>1
<1>4. ~(st.at = "unlink" /\ st.moves)
  <2>1. ASSUME sh[s].todo # <<>>, Head(sh[s].todo) = "doccd"  PROVE FALSE
    <3>1. 1 \in DOMAIN sh[s].todo /\ sh[s].todo[1] = "doccd"
      BY <1>1, <2>1
    <3> QED  BY <1>1, <3>1 DEF Moves
  <2> QED  BY <1>2, <2>1
<1>5. UNCHANGED <<cwd, tmp>> /\ sh[s].at \notin Removers
  BY DEF RcNext, docs, Removers
<1>6. st.at \in Documents => ~st.moves
  BY <1>2, <1>4 DEF Documents
<1> QED  BY <1>1, <1>2, <1>3, <1>5, <1>6, TidyApart

LEMMA ReadlineTidy ==
  ASSUME IInv, Attended, \A t \in Shell : Stays(t), NEW s \in Shell, Readline(s), ~Strays'
  PROVE  Tidy'
<1>1. TypeOK /\ sh[s] \in State /\ ~Moves(sh[s].todo) /\ typed[s] \in Seq(Line)
  BY ShellsAssumption DEF IInv, TypeOK, Stays
<1>2. PICK line \in Typed :
        /\ typed' = [typed EXCEPT ![s] = Append(@, line)]
        /\ sh' = [sh EXCEPT ![s] = LexerPaserExec(s, line)]
  BY DEF Readline
<1>3. line \in Line /\ sh[s].at = "prompt" /\ UNCHANGED <<cwd, tmp>>
  BY ShellsAssumption DEF Readline, docs
<1> DEFINE st == LexerPaserExec(s, line)
<1>4. /\ st \in State /\ st.todo = sh[s].todo
      /\ st.at = "unlink" /\ st.moves => line = "doccd"
      /\ st.at \in {"left", "prompt", "unlink", "command", "reset"}
  BY <1>1, <1>3, LexerPaserExecIs
<1>5. line # "doccd"
  <2>1. typed'[s] = Append(typed[s], line)
    BY <1>1, <1>2 DEF TypeOK
  <2> QED  BY <1>1, <1>3, <2>1, AppendMoves DEF Strays
<1>6. sh' = [sh EXCEPT ![s] = st]
  BY <1>2
<1> HIDE DEF st
<1> QED  BY <1>1, <1>3, <1>4, <1>5, <1>6, TidyApart DEF Documents, Removers

(* The document. *)
LEMMA DocTidy ==
  ASSUME IInv, Attended, \A t \in Shell : Stays(t), NEW s \in Shell,
         DocUnlink(s) \/ DocCreate(s), ~Strays'
  PROVE  Tidy'
<1>1. /\ TypeOK /\ sh[s] \in State /\ ~Moves(sh[s].todo) /\ cwd' = cwd
      /\ tmp \in [Directory -> Inode \cup {NoFile}]
      /\ sh[s].at \in {"unlink", "creat"} /\ ~sh[s].moves
  BY DEF IInv, TypeOK, Stays, DocUnlink, DocCreate, Documents
<1>2. \A d \in Directory : ~Keeps(s, d)
  BY <1>1 DEF Keeps, Removers
<1>3. CASE DocUnlink(s)
  <2> DEFINE st == [sh[s] EXCEPT !.at = "creat"]
  <2>1. sh' = [sh EXCEPT ![s] = st] /\ st \in State
    BY <1>1, <1>3, GoesIs DEF DocUnlink, At
  <2>2. st.moves = sh[s].moves /\ st.todo = sh[s].todo
    BY <1>1 DEF State
  <2>3. \A d \in Directory : tmp'[d] # NoFile => tmp'[d] = tmp[d]
    BY <1>1, <1>3 DEF DocUnlink
  <2> HIDE DEF st
  <2> QED  BY <1>1, <1>2, <2>1, <2>2, <2>3, TidyStep
<1>4. CASE DocCreate(s) /\ ~Goes(s, "failed")
  <2>1. PICK i \in Inode :
          /\ tmp' = [tmp EXCEPT ![cwd[s]] = i]
          /\ sh' = [sh EXCEPT ![s].at = "type", ![s].out = i, ![s].off = 0]
    BY <1>4 DEF DocCreate, Doc
  <2> DEFINE st == [sh[s] EXCEPT !.at = "type", !.out = i, !.off = 0]
  <2>2. sh' = [sh EXCEPT ![s] = st]
    BY <2>1
  <2>3. st \in State /\ st.at = "type" /\ st.moves = sh[s].moves /\ st.todo = sh[s].todo
    BY <1>1, <2>1 DEF State, At
  <2> HIDE DEF st
  <2>4. sh'[s] = st
    BY <1>1, <2>2, <2>3, Replaced
  <2>5. Keeps(s, cwd[s])'
    BY <1>1, <2>3, <2>4 DEF Keeps, Removers
  <2>6. \A d \in Directory : d # cwd[s] => tmp'[d] = tmp[d]
    BY <1>1, <2>1
  <2> QED  BY <1>1, <1>2, <2>2, <2>3, <2>5, <2>6, TidyStep
<1>5. ~Goes(s, "failed")
  <2>1. ASSUME Goes(s, "failed")  PROVE sh'[s].at = "failed"
    <3>1. /\ sh' = [sh EXCEPT ![s] = [sh[s] EXCEPT !.at = "failed"]]
          /\ [sh[s] EXCEPT !.at = "failed"] \in State
      BY <1>1, <2>1, GoesIs DEF At
    <3> QED  BY <1>1, <3>1, Replaced DEF State
  <2> QED  BY <2>1 DEF Strays, Ended
<1> QED  BY <1>3, <1>4, <1>5

(* The user types it, and the command opens it. *)
LEMMA GoesOnTidy ==
  ASSUME IInv, Attended, \A t \in Shell : Stays(t), NEW s \in Shell,
         DocLine(s) \/ DocEnd(s) \/ DocAccess(s) \/ DocOpen(s), ~Strays'
  PROVE  Tidy'
<1>1. /\ TypeOK /\ sh[s] \in State /\ UNCHANGED <<cwd, tmp>>
      /\ sh[s].at \in {"type", "access", "open"}
  BY DEF IInv, TypeOK, DocLine, DocEnd, DocAccess, DocOpen, docs
<1>2. CASE DocLine(s)
  <2> DEFINE st == [sh[s] EXCEPT !.off = @ + 1]
  <2>1. sh' = [sh EXCEPT ![s] = st]
    BY <1>1, <1>2 DEF DocLine, TypeOK
  <2>2. sh[s].at = "type"
    BY <1>2 DEF DocLine
  <2>3. st \in State /\ st.at = "type" /\ st.moves = sh[s].moves /\ st.todo = sh[s].todo
    <3>1. sh[s] \in State /\ sh[s].off \in Nat
      BY <1>1 DEF State
    <3>2. st = [sh[s] EXCEPT !.off = sh[s].off + 1] /\ sh[s].off + 1 \in Nat
      BY <3>1
    <3>3. \A n \in Nat : [sh[s] EXCEPT !.off = n] \in State
      BY <3>1 DEF State
    <3>4. \A n \in Nat : /\ [sh[s] EXCEPT !.off = n].at = sh[s].at
                         /\ [sh[s] EXCEPT !.off = n].moves = sh[s].moves
                         /\ [sh[s] EXCEPT !.off = n].todo = sh[s].todo
      BY <3>1 DEF State
    <3> QED  BY <2>2, <3>2, <3>3, <3>4
  <2> HIDE DEF st
  <2> QED  BY <1>1, <2>1, <2>3, TidyGoesOn DEF Documents, Removers
<1>3. CASE DocEnd(s)
  <2>1. PICK a \in {"access", "reset"} :
          sh' = [sh EXCEPT ![s] = [sh[s] EXCEPT !.at = a, !.out = NoFile]]
    BY <1>3 DEF DocEnd
  <2> DEFINE st == [sh[s] EXCEPT !.at = a, !.out = NoFile]
  <2>2. st \in State /\ st.at = a /\ st.moves = sh[s].moves /\ st.todo = sh[s].todo
    BY <1>1 DEF State, At
  <2>3. sh' = [sh EXCEPT ![s] = st]
    BY <2>1
  <2> HIDE DEF st
  <2> QED  BY <1>1, <2>2, <2>3, TidyGoesOn DEF Documents, Removers
<1>4. CASE DocAccess(s)
  <2>1. PICK a \in {"reset", "open"} : Goes(s, a)
    BY <1>4 DEF DocAccess
  <2> DEFINE st == [sh[s] EXCEPT !.at = a]
  <2>2. sh' = [sh EXCEPT ![s] = st] /\ st \in State
    BY <1>1, <2>1, GoesIs DEF At
  <2>3. st.at = a /\ st.moves = sh[s].moves /\ st.todo = sh[s].todo
    BY <1>1 DEF State
  <2> HIDE DEF st
  <2> QED  BY <1>1, <2>2, <2>3, TidyGoesOn DEF Documents, Removers
<1>5. CASE DocOpen(s) /\ tmp[cwd[s]] = NoFile
  <2> DEFINE st == [sh[s] EXCEPT !.at = "failed"]
  <2>1. sh' = [sh EXCEPT ![s] = st]
    BY <1>5 DEF DocOpen, Doc
  <2>2. st \in State /\ st.at = "failed"
    BY <1>1 DEF State, At
  <2> HIDE DEF st
  <2>3. sh'[s].at = "failed"
    BY <1>1, <2>1, <2>2, Replaced
  <2> QED  BY <2>3 DEF Strays, Ended
<1>6. CASE DocOpen(s) /\ tmp[cwd[s]] # NoFile
  <2> DEFINE i == tmp[cwd[s]]
             st == [sh[s] EXCEPT !.at = "command", !.in = i]
  <2>1. sh' = [sh EXCEPT ![s] = st]
    BY <1>6 DEF DocOpen, Doc
  <2>2. i \in Inode
    BY <1>1, <1>6 DEF TypeOK
  <2>3. st \in State /\ st.at = "command" /\ st.moves = sh[s].moves /\ st.todo = sh[s].todo
    BY <1>1, <2>2 DEF State, At
  <2> HIDE DEF st
  <2> QED  BY <1>1, <2>1, <2>3, TidyGoesOn DEF Documents, Removers
<1> QED  BY <1>2, <1>3, <1>4, <1>5, <1>6

(* The command may be cd, but then without a document. *)
LEMMA CommandTidy ==
  ASSUME IInv, Attended, \A t \in Shell : Stays(t), NEW s \in Shell, Command(s)
  PROVE  Tidy'
<1> DEFINE st == [sh[s] EXCEPT !.at = "reset", !.in = NoFile, !.moves = FALSE]
<1>1. TypeOK /\ sh[s] \in State /\ ~Moves(sh[s].todo)
  BY DEF IInv, TypeOK, Stays
<1>2. sh' = [sh EXCEPT ![s] = st] /\ tmp' = tmp /\ \A t \in Shell \ {s} : cwd'[t] = cwd[t]
  BY <1>1 DEF Command, docs, TypeOK
<1>3. st \in State /\ st.at = "reset" /\ st.todo = sh[s].todo /\ ~st.moves
  BY <1>1 DEF State, At
<1> HIDE DEF st
<1>4. sh'[s] = st
  BY <1>1, <1>2, <1>3, Replaced
<1>5. ASSUME NEW d \in Directory, Keeps(s, d)  PROVE Keeps(s, d)'
  <2>1. cwd'[s] = cwd[s]
    BY <1>5 DEF Keeps, Command
  <2> QED  BY <1>3, <1>4, <1>5, <2>1 DEF Keeps, Removers
<1> QED  BY <1>1, <1>2, <1>3, <1>5, TidyStep DEF Documents

LEMMA ResetTidy ==
  ASSUME IInv, Attended, \A t \in Shell : Stays(t), NEW s \in Shell, ResetData(s)
  PROVE  Tidy'
<1> DEFINE st == AfterLine(sh[s])
<1>1. /\ TypeOK /\ sh[s] \in State /\ ~Moves(sh[s].todo) /\ sh[s].text = "held"
      /\ tmp \in [Directory -> Inode \cup {NoFile}]
  BY DEF IInv, TypeOK, Stays, ResetData, Resets, Life, Running
<1>2. /\ sh' = [sh EXCEPT ![s] = st] /\ tmp' = [tmp EXCEPT ![cwd[s]] = NoFile]
      /\ cwd' = cwd
  BY DEF ResetData, Resets, Doc
<1>3. st \in State /\ st.todo = sh[s].todo /\ st.at \in {"rc", "left", "prompt"}
  BY <1>1, AfterLineIs DEF State
<1> HIDE DEF st
<1>4. ASSUME NEW d \in Directory, tmp'[d] # NoFile  PROVE tmp'[d] = tmp[d] /\ ~Keeps(s, d)
  <2>1. d # cwd[s] /\ tmp'[d] = tmp[d]
    BY <1>1, <1>2, <1>4
  <2> QED  BY <2>1 DEF Keeps
<1> QED  BY <1>1, <1>2, <1>3, <1>4, TidyStep DEF Documents

LEMMA TidyKept ==
  ASSUME IInv, Tidy, [Next]_vars  PROVE Tidy'
<1>1. CASE Strays'
  BY <1>1 DEF Tidy
<1>2. CASE ~Strays'
  <2>1. ~Strays /\ Attended /\ \A t \in Shell : Stays(t)
    BY <1>2, StraysStay DEF Tidy
  <2>2. ASSUME NEW s \in Shell,
               \/ Starts(s) \/ SourceRc(s) \/ CreateEmptyRc(s) \/ WriteHeader(s)
               \/ PrintBanner(s) \/ EndOfInput(s)
        PROVE  Tidy'
    BY <2>1, <2>2, StartTidy
  <2>3. ASSUME NEW s \in Shell, RcNext(s) \/ Readline(s)  PROVE Tidy'
    BY <1>2, <2>1, <2>3, RcNextTidy, ReadlineTidy
  <2>4. ASSUME NEW s \in Shell,
               \/ DocUnlink(s) \/ DocCreate(s) \/ DocLine(s) \/ DocEnd(s)
               \/ DocAccess(s) \/ DocOpen(s)
        PROVE  Tidy'
    BY <1>2, <2>1, <2>4, DocTidy, GoesOnTidy
  <2>5. ASSUME NEW s \in Shell, Command(s) \/ ResetData(s)  PROVE Tidy'
    BY <2>1, <2>5, CommandTidy, ResetTidy
  <2>6. ASSUME NEW s \in Shell, Hangup(s)  PROVE FALSE
    <3>1. sh'[s].at = "killed"
      BY <2>6, OffIs DEF Hangup, IInv, TypeOK, State
    <3> QED  BY <1>2, <3>1 DEF Strays, Ended
  <2>7. CASE UserWritesRc \/ UNCHANGED vars
    <3>1. UNCHANGED <<sh, cwd, tmp>>
      BY <2>7 DEF UserWritesRc, vars, docs
    <3> QED  BY <2>1, <3>1 DEF Tidy, Attended, Keeps, Stays, Moves
  <2> QED  BY <2>2, <2>3, <2>4, <2>5, <2>6, <2>7 DEF Next
<1> QED  BY <1>1, <1>2

LEMMA InitTidy == Init => Tidy
<1>1. Off.todo = <<>> /\ Off.at = "off"
  BY DEF Off
<1>2. Init => \A s \in Shell : Stays(s)
  BY <1>1 DEF Init, Stays, Moves, Documents
<1> QED  BY <1>2 DEF Init, Attended, Tidy

(***************************************************************************)
(* The history.                                                            *)
(***************************************************************************)
Recorded(s) ==
  sh[s].at # "killed" =>
    /\ sh[s].index = Len(sh[s].history)
    /\ Len(sh[s].history) = Place(typed[s], Len(typed[s]))
    /\ \A i \in DOMAIN typed[s] :
         LET n == Place(typed[s], i)
         IN  typed[s][i] # "empty" => sh[s].history[n] = [id |-> n, cmd |-> typed[s][i]]

Histories == \A s \in Shell : Recorded(s)

Lines(lines, i) == {j \in 1 .. i : lines[j] # "empty"}

LEMMA LinesFinite ==
  ASSUME NEW lines, NEW i \in Nat
  PROVE  /\ IsFiniteSet(Lines(lines, i)) /\ Place(lines, i) = Cardinality(Lines(lines, i))
         /\ Place(lines, i) \in Nat
<1>1. IsFiniteSet(1 .. i)
  BY FS_Interval
<1>2. IsFiniteSet(Lines(lines, i))
  BY <1>1, FS_Subset DEF Lines
<1>3. Place(lines, i) = Cardinality(Lines(lines, i))
  BY DEF Place, Lines
<1> QED  BY <1>2, <1>3, FS_CardinalityType

(* A line of the history has a place in it. *)
LEMMA PlaceWithin ==
  ASSUME NEW lines \in Seq(Line), NEW i \in DOMAIN lines, lines[i] # "empty"
  PROVE  Place(lines, i) \in 1 .. Place(lines, Len(lines))
<1>1. i \in Nat /\ Len(lines) \in Nat /\ i \in Lines(lines, i)
      /\ Lines(lines, i) \subseteq Lines(lines, Len(lines))
  BY DEF Lines
<1>2. Place(lines, i) <= Place(lines, Len(lines))
  BY <1>1, LinesFinite, FS_Subset
<1>3. Place(lines, i) # 0
  BY <1>1, LinesFinite, FS_EmptySet
<1> QED  BY <1>1, <1>2, <1>3, LinesFinite

(* One more line counts if it is not empty, and changes no other's place. *)
LEMMA PlaceAppend ==
  ASSUME NEW lines \in Seq(Line), NEW line \in Line
  PROVE  /\ \A i \in 1 .. Len(lines) : Place(Append(lines, line), i) = Place(lines, i)
         /\ Place(Append(lines, line), Len(lines) + 1) =
              Place(lines, Len(lines)) + IF line = "empty" THEN 0 ELSE 1
<1> DEFINE more == Append(lines, line)
           n == Len(lines)
<1>1. n \in Nat /\ more[n + 1] = line /\ \A i \in 1 .. n : more[i] = lines[i]
  OBVIOUS
<1> HIDE DEF more, n
<1>2. \A i \in 0 .. n : Lines(more, i) = Lines(lines, i)
  BY <1>1 DEF Lines
<1>3. \A i \in 0 .. n : Place(more, i) = Place(lines, i)
  BY <1>1, <1>2, LinesFinite
<1>4. Lines(more, n + 1) = IF line = "empty" THEN Lines(lines, n)
                           ELSE Lines(lines, n) \cup {n + 1}
  <2>1. Lines(more, n + 1) =
          Lines(more, n) \cup (IF line = "empty" THEN {} ELSE {n + 1})
    BY <1>1 DEF Lines
  <2>2. Lines(more, n) = Lines(lines, n)
    BY <1>1, <1>2
  <2> QED  BY <2>1, <2>2
<1>5. Place(more, n + 1) = Place(lines, n) + IF line = "empty" THEN 0 ELSE 1
  <2>1. n + 1 \notin Lines(lines, n) /\ n + 1 \in Nat
    BY <1>1 DEF Lines
  <2>2. /\ Place(more, n + 1) = Cardinality(Lines(more, n + 1))
        /\ Place(lines, n) = Cardinality(Lines(lines, n))
        /\ IsFiniteSet(Lines(lines, n)) /\ Place(lines, n) \in Nat
    BY <1>1, <2>1, LinesFinite
  <2>3. Cardinality(Lines(lines, n) \cup {n + 1}) = Cardinality(Lines(lines, n)) + 1
    BY <2>1, <2>2, FS_AddElement
  <2> QED  BY <1>4, <2>2, <2>3
<1>6. \A i \in 1 .. n : Place(more, i) = Place(lines, i)
  BY <1>1, <1>3
<1> QED  BY <1>5, <1>6 DEF more, n

(* What a typed line adds to the history. *)
LEMMA HistoryOfLine ==
  ASSUME NEW s \in Shell, sh[s] \in State, NEW line \in Line
  PROVE  LET st == LexerPaserExec(s, line)
         IN  IF line = "empty"
               THEN st.history = sh[s].history /\ st.index = sh[s].index
               ELSE /\ st.index = sh[s].index + 1
                    /\ st.history = Append(sh[s].history, [id |-> st.index, cmd |-> line])
<1> DEFINE held == [sh[s] EXCEPT !.text = "held"]
           added == HistoryAdd(held, line)
<1>1. held \in State /\ held.history = sh[s].history /\ held.index = sh[s].index
  BY DEF State
<1>2. LexerPaserExec(s, line) = IF line = "empty" THEN Loops(Freed(held))
                                ELSE IF line = "refused" THEN Freed(added)
                                ELSE Begins(added, line)
  BY DEF LexerPaserExec
<1> HIDE DEF held
<1>3. /\ added \in State /\ added.index = sh[s].index + 1
      /\ added.history = Append(sh[s].history, [id |-> added.index, cmd |-> line])
  <2>1. added \in State
    BY <1>1, HistoryAddIs
  <2> QED  BY <1>1, <2>1 DEF HistoryAdd, State
<1> HIDE DEF added
<1>4. CASE line = "empty"
  <2>1. Freed(held) \in State
    BY <1>1, FreedIs
  <2>2. Freed(held).history = held.history /\ Freed(held).index = held.index
    BY <1>1 DEF Freed, State
  <2>3. /\ Loops(Freed(held)).history = Freed(held).history
        /\ Loops(Freed(held)).index = Freed(held).index
    BY <2>1 DEF Loops, State
  <2> QED  BY <1>1, <1>2, <1>4, <2>2, <2>3
<1>5. CASE line = "refused"
  <2>1. Freed(added).history = added.history /\ Freed(added).index = added.index
    BY <1>3 DEF Freed, State
  <2> QED  BY <1>2, <1>3, <1>5, <2>1
<1>6. CASE line \notin {"empty", "refused"}
  <2>1. Begins(added, line).history = added.history /\ Begins(added, line).index = added.index
    BY <1>3 DEF Begins, State
  <2> QED  BY <1>2, <1>3, <1>6, <2>1
<1> QED  BY <1>4, <1>5, <1>6

(* No other step touches the history. *)
Past(st) == <<st.history, st.index>>

LEMMA SamePast ==
  ASSUME TypeOK, NEW s \in Shell, NEW st, sh' = [sh EXCEPT ![s] = st], Past(st) = Past(sh[s]),
         NEW t \in Shell
  PROVE  sh'[t].history = sh[t].history /\ sh'[t].index = sh[t].index
BY DEF Past, TypeOK

LEMMA HistorySame ==
  ASSUME IInv, NEW s \in Shell,
         \/ Starts(s) \/ SourceRc(s) \/ CreateEmptyRc(s) \/ WriteHeader(s)
         \/ PrintBanner(s) \/ RcNext(s) \/ EndOfInput(s)
         \/ DocUnlink(s) \/ DocCreate(s) \/ DocLine(s) \/ DocEnd(s)
         \/ DocAccess(s) \/ DocOpen(s) \/ Command(s) \/ ResetData(s),
         NEW t \in Shell
  PROVE  sh'[t].history = sh[t].history /\ sh'[t].index = sh[t].index
<1>1. TypeOK /\ sh \in [Shell -> State] /\ sh[s] \in State
  BY DEF IInv, TypeOK
<1> DEFINE Same == sh'[t].history = sh[t].history /\ sh'[t].index = sh[t].index
<1>G. ASSUME NEW a, Goes(s, a)  PROVE Same
  <2> DEFINE st == [sh[s] EXCEPT !.at = a]
  <2>1. sh' = [sh EXCEPT ![s] = st]
    BY <1>1, <1>G DEF Goes
  <2>2. Past(st) = Past(sh[s])
    BY <1>1 DEF State, Past
  <2> QED  BY <1>1, <2>1, <2>2, SamePast
<1>2. CASE SourceRc(s) /\ ~Goes(s, "create")
  <2> DEFINE file == IF rc = NoFile THEN home ELSE rc
  <2> DEFINE st == [sh[s] EXCEPT !.at = "rc", !.todo = file]
  <2>1. sh' = [sh EXCEPT ![s] = st]
    BY <1>1, <1>2 DEF SourceRc, Goes
  <2>2. Past(st) = Past(sh[s])
    BY <1>1 DEF State, Past
  <2> QED  BY <1>1, <2>1, <2>2, SamePast
<1>3. CASE PrintBanner(s) /\ ~Goes(s, "nobanner")
  <2> DEFINE st == [sh[s] EXCEPT !.at = "prompt", !.from = "prompt"]
  <2>1. sh' = [sh EXCEPT ![s] = st]
    BY <1>1, <1>3 DEF PrintBanner
  <2>2. Past(st) = Past(sh[s])
    BY <1>1 DEF State, Past
  <2> QED  BY <1>1, <2>1, <2>2, SamePast
<1>4. CASE RcNext(s)
  <2> DEFINE rest == [sh[s] EXCEPT !.todo = Tail(@)]
             held == [rest EXCEPT !.text = "held"]
             line == Head(sh[s].todo)
  <2>1. PICK st : /\ sh' = [sh EXCEPT ![s] = st]
                  /\ \/ st = [sh[s] EXCEPT !.at = "banner"] \/ st = rest
                     \/ st = [rest EXCEPT !.at = "aborted", !.text = "twice"]
                     \/ sh[s].todo # <<>> /\ st = Begins(held, line)
    BY <1>1, <1>4 DEF RcNext
  <2>2. /\ rest.history = sh[s].history /\ rest.index = sh[s].index
        /\ held.history = sh[s].history /\ held.index = sh[s].index
    BY <1>1 DEF State
  <2>3. sh[s].todo # <<>> =>
          Begins(held, line).history = held.history /\ Begins(held, line).index = held.index
    <3>1. sh[s].todo \in Seq(RcLine)
      BY <1>1 DEF State
    <3>2. sh[s].todo # <<>> => Tail(sh[s].todo) \in Seq(RcLine)
      BY <3>1
    <3>3. sh[s].todo # <<>> => held \in State
      BY <1>1, <3>2 DEF State
    <3> HIDE DEF held
    <3> QED  BY <3>3 DEF Begins, State
  <2> HIDE DEF held
  <2>4. st.history = sh[s].history /\ st.index = sh[s].index
    <3>1. CASE st = Begins(held, line) /\ sh[s].todo # <<>>
      BY <2>2, <2>3, <3>1
    <3>2. CASE st # Begins(held, line) \/ sh[s].todo = <<>>
      BY <1>1, <2>1, <2>2, <3>2 DEF State
    <3> QED  BY <3>1, <3>2
  <2> QED  BY <1>1, <2>1, <2>4, SamePast DEF Past
<1>5. CASE DocCreate(s) /\ ~Goes(s, "failed")
  <2>0. PICK i : sh' = [sh EXCEPT ![s].at = "type", ![s].out = i, ![s].off = 0]
    BY <1>5 DEF DocCreate
  <2> DEFINE st == [sh[s] EXCEPT !.at = "type", !.out = i, !.off = 0]
  <2>1. sh' = [sh EXCEPT ![s] = st]
    BY <1>1, <2>0
  <2>2. Past(st) = Past(sh[s])
    BY <1>1 DEF State, Past
  <2> QED  BY <1>1, <2>1, <2>2, SamePast
<1>6. CASE DocLine(s)
  <2>0. sh' = [sh EXCEPT ![s].off = @ + 1]
    BY <1>6 DEF DocLine
  <2> DEFINE st == [sh[s] EXCEPT !.off = @ + 1]
  <2>1. sh' = [sh EXCEPT ![s] = st]
    BY <1>1, <2>0
  <2>2. Past(st) = Past(sh[s])
    BY <1>1 DEF State, Past
  <2> QED  BY <1>1, <2>1, <2>2, SamePast
<1>7. CASE DocEnd(s)
  <2>0. PICK a : sh' = [sh EXCEPT ![s].at = a, ![s].out = NoFile]
    BY <1>7 DEF DocEnd
  <2> DEFINE st == [sh[s] EXCEPT !.at = a, !.out = NoFile]
  <2>1. sh' = [sh EXCEPT ![s] = st]
    BY <1>1, <2>0
  <2>2. Past(st) = Past(sh[s])
    BY <1>1 DEF State, Past
  <2> QED  BY <1>1, <2>1, <2>2, SamePast
<1>8. CASE DocOpen(s) /\ ~Goes(s, "failed")
  <2> DEFINE st == [sh[s] EXCEPT !.at = "command", !.in = tmp[Doc(s)]]
  <2>1. sh' = [sh EXCEPT ![s] = st]
    BY <1>1, <1>8 DEF DocOpen, Goes
  <2>2. Past(st) = Past(sh[s])
    BY <1>1 DEF State, Past
  <2> QED  BY <1>1, <2>1, <2>2, SamePast
<1>9. CASE Command(s)
  <2> DEFINE st == [sh[s] EXCEPT !.at = "reset", !.in = NoFile, !.moves = FALSE]
  <2>1. sh' = [sh EXCEPT ![s] = st]
    BY <1>1, <1>9 DEF Command
  <2>2. Past(st) = Past(sh[s])
    BY <1>1 DEF State, Past
  <2> QED  BY <1>1, <2>1, <2>2, SamePast
<1>10. CASE ResetData(s)
  <2> DEFINE zero == [sh[s] EXCEPT !.off = 0]
             clean == Freed(zero)
  <2>1. /\ zero \in State /\ zero.history = sh[s].history /\ zero.index = sh[s].index
    BY <1>1 DEF State
  <2> HIDE DEF zero
  <2>2. clean \in State /\ clean.history = zero.history /\ clean.index = zero.index
    BY <2>1, FreedIs DEF Freed, State
  <2> HIDE DEF clean
  <2>3. \/ AfterLine(sh[s]) = [clean EXCEPT !.at = "rc"]
        \/ AfterLine(sh[s]) = Loops(clean)
    BY DEF AfterLine, clean, zero
  <2>4. AfterLine(sh[s]).history = clean.history /\ AfterLine(sh[s]).index = clean.index
    BY <2>2, <2>3 DEF Loops, State
  <2>5. sh' = [sh EXCEPT ![s] = AfterLine(sh[s])]
    BY <1>10 DEF ResetData, Resets
  <2> QED  BY <1>1, <2>1, <2>2, <2>4, <2>5, SamePast DEF Past
<1>11. \/ SourceRc(s) \/ PrintBanner(s) \/ RcNext(s) \/ DocCreate(s) \/ DocLine(s)
       \/ DocEnd(s) \/ DocOpen(s) \/ Command(s) \/ ResetData(s) \/ \E a : Goes(s, a)
  BY DEF Starts, CreateEmptyRc, WriteHeader, EndOfInput, DocUnlink, DocAccess
<1> QED
  BY <1>G, <1>2, <1>3, <1>4, <1>5, <1>6, <1>7, <1>8, <1>9, <1>10, <1>11

(* history_add() numbers and adds the line that has just been typed. *)
LEMMA ReadlineRecords ==
  ASSUME IInv, NEW s \in Shell, Readline(s), Recorded(s)
  PROVE  Recorded(s)'
<1>1. TypeOK /\ sh[s] \in State /\ typed[s] \in Seq(Line)
  BY ShellsAssumption DEF IInv, TypeOK
<1>P. sh[s].at = "prompt"
  BY DEF Readline
<1>2. PICK line \in Line :
        /\ typed'[s] = Append(typed[s], line)
        /\ sh' = [sh EXCEPT ![s] = LexerPaserExec(s, line)]
  BY <1>1, ShellsAssumption DEF Readline, TypeOK
<1> DEFINE st == LexerPaserExec(s, line)
           old == typed[s]
           new == typed'[s]
           past == sh[s].history
           m == Len(past)
           k == Len(old)
<1>3. sh'[s] = st /\ st \in State
  BY <1>1, <1>2, LexerPaserExecIs DEF TypeOK
<1>4. IF line = "empty"
        THEN st.history = past /\ st.index = sh[s].index
        ELSE /\ st.index = sh[s].index + 1
             /\ st.history = Append(past, [id |-> st.index, cmd |-> line])
  BY <1>1, HistoryOfLine
<1>5. /\ sh[s].index = m /\ m = Place(old, k)
      /\ \A i \in DOMAIN old : old[i] # "empty" =>
           past[Place(old, i)] = [id |-> Place(old, i), cmd |-> old[i]]
  BY <1>P DEF Recorded
<1>6. /\ \A i \in 1 .. k : Place(new, i) = Place(old, i)
      /\ Place(new, k + 1) = m + IF line = "empty" THEN 0 ELSE 1
  BY <1>1, <1>2, <1>5, PlaceAppend
<1>7. \A i \in 1 .. k : old[i] # "empty" => Place(old, i) \in 1 .. m
  BY <1>1, <1>5, PlaceWithin
<1>8. /\ k \in Nat /\ Len(new) = k + 1 /\ DOMAIN new = 1 .. k + 1 /\ DOMAIN old = 1 .. k
      /\ new[k + 1] = line /\ \A i \in 1 .. k : new[i] = old[i]
  BY <1>1, <1>2
<1>9. past \in Seq([id : Nat, cmd : Line]) /\ m \in Nat
  BY <1>1 DEF State
<1>10. line # "empty" =>
         /\ st.index = m + 1 /\ Len(st.history) = m + 1
         /\ st.history[m + 1] = [id |-> m + 1, cmd |-> line]
         /\ \A j \in 1 .. m : st.history[j] = past[j]
  <2> HAVE line # "empty"
  <2> DEFINE entry == [id |-> m + 1, cmd |-> line]
  <2>1. entry \in [id : Nat, cmd : Line] /\ st.index = m + 1
    BY <1>4, <1>5, <1>9
  <2>2. st.history = Append(past, entry)
    BY <1>4, <1>5
  <2> HIDE DEF entry
  <2>3. /\ Len(Append(past, entry)) = m + 1 /\ Append(past, entry)[m + 1] = entry
        /\ \A j \in 1 .. m : Append(past, entry)[j] = past[j]
    BY <1>9, <2>1
  <2> QED  BY <2>1, <2>2, <2>3 DEF entry
<1> HIDE DEF st, old, new, past, m, k
<1>11. st.index = Len(st.history) /\ Len(st.history) = Place(new, Len(new))
  BY <1>4, <1>5, <1>6, <1>8, <1>9, <1>10 DEF m
<1>12. ASSUME NEW i \in DOMAIN new, new[i] # "empty"
       PROVE  st.history[Place(new, i)] = [id |-> Place(new, i), cmd |-> new[i]]
  <2>1. CASE i = k + 1
    <3>1. line # "empty" /\ Place(new, i) = m + 1
      BY <1>6, <1>8, <1>12, <2>1
    <3> QED  BY <1>8, <1>10, <2>1, <3>1
  <2>2. CASE i \in 1 .. k
    <3>1. /\ Place(new, i) = Place(old, i) /\ Place(old, i) \in 1 .. m /\ new[i] = old[i]
          /\ past[Place(old, i)] = [id |-> Place(old, i), cmd |-> old[i]]
      BY <1>5, <1>6, <1>7, <1>8, <1>12, <2>2
    <3>2. st.history[Place(old, i)] = past[Place(old, i)]
      BY <1>4, <1>10, <3>1
    <3> QED  BY <3>1, <3>2
  <2> QED  BY <1>8, <2>1, <2>2
<1> QED  BY <1>3, <1>11, <1>12 DEF Recorded, new

LEMMA RecordedKept ==
  ASSUME IInv, [Next]_vars, Histories  PROVE Histories'
<1> SUFFICES ASSUME NEW t \in Shell, \A s \in Shell : Recorded(s)  PROVE Recorded(t)'
  BY DEF Histories
<1>1. sh[t].at = "killed" => sh'[t].at = "killed"
  BY EndedStays DEF Ended
<1>2. ASSUME sh'[t].history = sh[t].history, sh'[t].index = sh[t].index, typed'[t] = typed[t]
      PROVE  Recorded(t)'
  BY <1>1, <1>2 DEF Recorded
<1>3. ASSUME NEW s \in Shell,
             \/ Starts(s) \/ SourceRc(s) \/ CreateEmptyRc(s) \/ WriteHeader(s)
             \/ PrintBanner(s) \/ RcNext(s) \/ EndOfInput(s)
             \/ DocUnlink(s) \/ DocCreate(s) \/ DocLine(s) \/ DocEnd(s)
             \/ DocAccess(s) \/ DocOpen(s) \/ Command(s) \/ ResetData(s)
      PROVE  Recorded(t)'
  <2>1. typed' = typed
    BY <1>3 DEF Starts, SourceRc, CreateEmptyRc, WriteHeader, PrintBanner, RcNext, EndOfInput,
       DocUnlink, DocCreate, DocLine, DocEnd, DocAccess, DocOpen, Command, ResetData, Resets
  <2> QED  BY <1>2, <1>3, <2>1, HistorySame
<1>4. ASSUME NEW s \in Shell, Readline(s)  PROVE Recorded(t)'
  <2>1. sh \in [Shell -> State] /\ typed \in [Shell -> Seq(Typed)]
    BY DEF IInv, TypeOK
  <2>2. CASE t = s
    BY <1>4, <2>2, ReadlineRecords
  <2>3. CASE t # s
    <3>1. PICK line \in Typed : /\ typed' = [typed EXCEPT ![s] = Append(@, line)]
                                /\ sh' = [sh EXCEPT ![s] = LexerPaserExec(s, line)]
      BY <1>4 DEF Readline
    <3> QED  BY <1>2, <2>1, <2>3, <3>1
  <2> QED  BY <2>2, <2>3
<1>5. ASSUME NEW s \in Shell, Hangup(s)  PROVE Recorded(t)'
  <2>1. sh \in [Shell -> State] /\ typed' = typed
    BY <1>5 DEF IInv, TypeOK, Hangup
  <2>2. CASE t = s
    <3>1. sh'[t].at = "killed"
      BY <1>5, <2>1, <2>2, OffIs DEF Hangup, State
    <3> QED  BY <3>1 DEF Recorded
  <2>3. CASE t # s
    BY <1>2, <1>5, <2>1, <2>3 DEF Hangup
  <2> QED  BY <2>2, <2>3
<1>6. CASE UserWritesRc \/ UNCHANGED vars
  BY <1>2, <1>6 DEF UserWritesRc, vars
<1> QED  BY <1>3, <1>4, <1>5, <1>6 DEF Next

LEMMA InitRecorded == Init => Histories
<1> SUFFICES ASSUME Init, NEW s \in Shell  PROVE Recorded(s)
  BY DEF Histories
<1>1. typed[s] = <<>> /\ sh[s].index = 0 /\ sh[s].history = <<>>
  BY DEF Init, Off
<1>2. Place(<<>>, 0) = 0
  <2>1. Lines(<<>>, 0) = {}
    BY DEF Lines
  <2> QED  BY <2>1, LinesFinite, FS_EmptySet
<1> QED  BY <1>1, <1>2 DEF Recorded

(***************************************************************************)
(* The theorems.                                                           *)
(***************************************************************************)
(* Every reachable state of any number of shells is well typed. *)
THEOREM TypeCorrect == Spec => []TypeOK
<1>1. IInv => TypeOK
  BY DEF IInv
<1> QED  BY <1>1, InitOK, NextOK, PTL DEF Spec

(* prompt() obeys an accepted exit before it reads another line; only      *)
(* refused lines come between the exit of an rc file and the end.          *)
THEOREM FlagObeyed == Spec => []FlagAtPrompt
<1>1. IInv => FlagAtPrompt
  BY DEF IInv, Life, FlagAtPrompt
<1> QED  BY <1>1, InitOK, NextOK, PTL DEF Spec

(* prompt(), lexer() and exec_rc_cmd() free the text of each line once, but*)
(* for a line of the rc file that is refused.                              *)
THEOREM TextFreed == Spec => []TextFreedOnce
<1>1. IInv => TextFreedOnce
  BY DEF IInv, Life, TextFreedOnce, Before
<1> QED  BY <1>1, InitOK, NextOK, PTL DEF Spec

(* heredoc_fd() and heredoc_parent() hand a command the lines its own user *)
(* typed, however many shells there are, unless one of the same directory  *)
(* makes or removes .here_doc_tmp in between.                              *)
THEOREM DocumentOwned == Spec => []OwnDocument
<1>1. IInv => OwnDocument
  BY DEF IInv, Own, Mine, OwnDocument
<1> QED  BY <1>1, InitOK, NextOK, PTL DEF Spec

(* Of any number of shells that start at once, and a user who writes the   *)
(* rc file meanwhile, none overwrites it (create_empty_rc).                *)
THEOREM RcKeptHolds == Spec => RcKept
<1>1. IInv /\ [Next]_vars =>
        [rc # NoFile /\ rc' # rc =>
           /\ rc = <<>> /\ rc' = Header
           /\ \E s \in Shell : sh[s].at = "header"]_vars
  BY RcStep
<1>2. Spec => []IInv
  BY InitOK, NextOK, PTL DEF Spec
<1> QED  BY <1>1, <1>2, PTL DEF Spec, RcKept

(* When all shells have left by exit or Ctrl-D and no cd had a document,   *)
(* reset_data() has removed every .here_doc_tmp, whatever the shells of a  *)
(* directory made and removed for each other.                              *)
THEOREM DirectoriesTidy == Spec => []NothingLeft
<1>1. Tidy => NothingLeft
  <2> SUFFICES ASSUME Tidy,
                      \A s \in Shell : sh[s].at = "left" /\ ~Moves(typed[s]),
                      \A file \in {rc, home} \ {NoFile} : ~Moves(file)
               PROVE  \A d \in Directory : tmp[d] = NoFile
    BY DEF NothingLeft, Moves
  <2> QED  BY DEF Tidy, Strays, Attended, Keeps, Removers
<1> QED  BY <1>1, InitOK, NextOK, InitTidy, TidyKept, PTL DEF Spec

(* The history of a shell is the lines typed at its prompt, in order and   *)
(* numbered from 1, but for the empty ones: history_add() is called for    *)
(* each of them, refused or not, and for nothing else.                     *)
THEOREM HistoryKept == Spec => []HistoryAsTyped
<1>1. Histories => HistoryAsTyped
  BY DEF Histories, Recorded, HistoryAsTyped
<1> QED  BY <1>1, InitOK, NextOK, InitRecorded, RecordedKept, PTL DEF Spec
=============================================================================
