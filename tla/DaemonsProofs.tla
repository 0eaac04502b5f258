--------------------------- MODULE DaemonsProofs ---------------------------
(***************************************************************************)
(* Theorems about Daemons, for every value of its constants: any number of *)
(* tools at once.                                                          *)
(*                                                                         *)
(* The registry is numbered, line i bears the suffix i - 1 (Numbered), as  *)
(* long as the count a dspawn has read is the length of the registry until *)
(* it appends (Counted): so until two registrations have met, or one and a *)
(* truncation.                                                             *)
(*                                                                         *)
(* That each daemon that works is in the registry needs more: the lines    *)
(* dkill has not come to are those of all daemons of its list that still   *)
(* work (Sees), so that none of these is left when it truncates.           *)
(***************************************************************************)
EXTENDS Daemons, FiniteSetTheorems, SequenceTheorems, WellFoundedInduction, TLAPS

(***************************************************************************)
(* The types: what each tool has read, and where it is in it.              *)
(***************************************************************************)
ToolOK(t) ==
  /\ t \in Tool
  /\ t.at \in {"ask", "kill", "read", "append"} => t.active # {} /\ t.active \subseteq DOMAIN t.list
  /\ t.at \in {"kill", "read", "append"} => t.i \in t.active

TInv == TypeOK /\ \A k \in Killer : ToolOK(tool[k])

(* The least of a nonempty set of lines is one of them. *)
LEMMA MinIs ==
  ASSUME NEW S \in SUBSET Nat, S # {}
  PROVE  Min(S) \in S /\ \A y \in S : Min(S) <= y
<1> DEFINE Less == {ss \in Nat \X Nat : ss[1] < ss[2]}
<1>1. IsWellFoundedOn(Less, Nat)
  BY NatLessThanWellFounded DEF OpToRel
<1>2. \E x \in S : \A y \in S : <<y, x>> \notin Less
  <2> HIDE DEF Less
  <2> QED  BY <1>1, WFMin
<1>3. PICK x \in S : \A y \in S : ~ (y < x)
  BY <1>2
<1>4. \A y \in S : x <= y
  BY <1>3
<1> QED  BY <1>4 DEF Min

LEMMA IdleIs ==
  /\ Idle \in Tool /\ Idle.at = "idle" /\ Idle.list = <<>> /\ Idle.active = {}
  /\ Idle.since = {} /\ ~Idle.all /\ Idle.i = 0 /\ ToolOK(Idle)
<1>1. <<>> \in Seq(Entry)
  OBVIOUS
<1>2. Idle \in Tool
  BY <1>1 DEF Idle, Tool, Step
<1> QED  BY <1>2 DEF Idle, ToolOK

(* After a daemon of the list there is the next one, or none. *)
LEMMA FollowingIs ==
  ASSUME NEW t \in Tool, ToolOK(t), t.at \in {"kill", "append"}
  PROVE  /\ ToolOK(Following(t)) /\ Following(t).since \subseteq t.since
         /\ Following(t).at \in {"idle", "kill", "truncate"}
         /\ t.all => /\ Following(t).all /\ Following(t).list = t.list
                     /\ Following(t).active = t.active
                     /\ Following(t).at = "kill" =>
                          \A j \in t.active : j > t.i => j >= Following(t).i
                     /\ Following(t).at = "truncate" => \A j \in t.active : ~(j > t.i)
                     /\ Following(t).at # "idle"
         /\ ~t.all => Following(t) = Idle
<1>1. t.active \subseteq Nat /\ t.active \subseteq DOMAIN t.list /\ t.i \in t.active
      /\ t.all \in BOOLEAN
  BY DEF Tool, ToolOK
<1>2. CASE ~t.all
  BY <1>2, IdleIs DEF Following
<1>3. CASE t.all /\ Later(t) # {}
  <2> DEFINE m == Min(Later(t))
             u == [t EXCEPT !.at = "kill", !.i = m]
  <2>1. m \in Later(t) /\ \A y \in Later(t) : m <= y
    BY <1>1, <1>3, MinIs DEF Later
  <2>2. m \in t.active /\ m \in Nat /\ \A j \in t.active : j > t.i => j >= m
    BY <1>1, <2>1 DEF Later
  <2>3. Following(t) = u
    BY <1>3 DEF Following
  <2> HIDE DEF m
  <2>4. /\ u \in Tool /\ u.at = "kill" /\ u.i = m /\ u.all = t.all /\ u.list = t.list
        /\ u.active = t.active /\ u.since = t.since
    BY <2>2 DEF Tool, Step
  <2> HIDE DEF u
  <2> QED  BY <1>1, <1>3, <2>2, <2>3, <2>4 DEF ToolOK
<1>4. CASE t.all /\ Later(t) = {}
  <2> DEFINE u == [t EXCEPT !.at = "truncate"]
  <2>1. Following(t) = u
    BY <1>4 DEF Following
  <2>2. /\ u \in Tool /\ u.at = "truncate" /\ u.all = t.all /\ u.list = t.list
        /\ u.active = t.active /\ u.since = t.since
    BY DEF Tool, Step
  <2>3. \A j \in t.active : ~(j > t.i)
    BY <1>4 DEF Later
  <2> HIDE DEF u
  <2> QED  BY <1>4, <2>1, <2>2, <2>3 DEF ToolOK
<1> QED  BY <1>1, <1>2, <1>3, <1>4

LEMMA ReplacedTool ==
  ASSUME TInv, NEW k \in Killer, NEW t, ToolOK(t), tool' = [tool EXCEPT ![k] = t]
  PROVE  /\ tool' \in [Killer -> Tool] /\ tool'[k] = t
         /\ \A l \in Killer \ {k} : tool'[l] = tool[l]
         /\ \A l \in Killer : ToolOK(tool'[l])
BY DEF TInv, TypeOK, ToolOK

LEMMA GoneIs ==
  ASSUME TInv, NEW p
  PROVE  /\ Gone(p) \in [Killer -> Tool]
         /\ \A k \in Killer :
              /\ ToolOK(Gone(p)[k]) /\ Gone(p)[k].at = tool[k].at
              /\ Gone(p)[k].list = tool[k].list /\ Gone(p)[k].active = tool[k].active
              /\ Gone(p)[k].i = tool[k].i /\ Gone(p)[k].all = tool[k].all
              /\ Gone(p)[k].since = tool[k].since \ {p}
<1>1. ASSUME NEW k \in Killer
      PROVE  /\ Gone(p)[k] \in Tool
             /\ ToolOK(Gone(p)[k]) /\ Gone(p)[k].at = tool[k].at
             /\ Gone(p)[k].list = tool[k].list /\ Gone(p)[k].active = tool[k].active
             /\ Gone(p)[k].i = tool[k].i /\ Gone(p)[k].all = tool[k].all
             /\ Gone(p)[k].since = tool[k].since \ {p}
  <2> DEFINE u == [tool[k] EXCEPT !.since = @ \ {p}]
  <2>1. tool[k] \in Tool /\ ToolOK(tool[k])
    BY DEF TInv, TypeOK
  <2>2. /\ u \in Tool /\ u.at = tool[k].at /\ u.list = tool[k].list
        /\ u.active = tool[k].active /\ u.i = tool[k].i /\ u.all = tool[k].all
        /\ u.since = tool[k].since \ {p}
    BY <2>1 DEF Tool
  <2>3. Gone(p)[k] = u
    BY DEF Gone
  <2> HIDE DEF u
  <2> QED  BY <2>1, <2>2, <2>3 DEF ToolOK
<1> QED  BY <1>1 DEF Gone

(***************************************************************************)
(* The types, continued: each step keeps them.                             *)
(***************************************************************************)
LEMMA CountIs ==
  ASSUME NEW S, NEW file \in Seq(S), NEW name
  PROVE  Count(file, name) \in Nat
<1> DEFINE found == {i \in DOMAIN file : IsPrefix(name, file[i].name)}
<1>1. Len(file) \in Nat
  OBVIOUS
<1>2. IsFiniteSet(1 .. Len(file))
  BY <1>1, FS_Interval
<1>3. found \subseteq 1 .. Len(file)
  OBVIOUS
<1>4. IsFiniteSet(found)
  BY <1>2, <1>3, FS_Subset
<1> QED  BY <1>4, FS_CardinalityType DEF Count

LEMMA SuffixedIs ==
  ASSUME NEW name \in Name, NEW n \in Nat
  PROVE  Suffixed(name, n) \in Name
BY DEF Suffixed, Name

(* The line a tool is at. *)
LEMMA ListedIs ==
  ASSUME TInv, NEW k \in Killer, tool[k].at \in {"kill", "read", "append"}
  PROVE  Listed(k) \in Entry /\ Listed(k).name \in Name /\ Listed(k).pid \in Pid
<1>1. tool[k] \in Tool /\ ToolOK(tool[k])
  BY DEF TInv, TypeOK
<1>2. tool[k].i \in DOMAIN tool[k].list /\ tool[k].list \in Seq(Entry)
  BY <1>1 DEF ToolOK, Tool
<1>3. tool[k].list[tool[k].i] \in Entry
  BY <1>2
<1> QED  BY <1>3 DEF Listed, Entry

LEMMA LookIs ==
  ASSUME NEW t \in Tool, t.at = "check"
  PROVE  /\ ToolOK(Look(t)) /\ Look(t).list = t.list /\ Look(t).since = t.since
         /\ Checked(t) => Look(t).at = "shown" /\ Look(t).i = t.i
                          /\ Look(t).active = t.active
         /\ ~Checked(t) => /\ Look(t).at = "check" /\ Look(t).i = t.i + 1
                           /\ Look(t).active = IF proc[t.list[t.i].pid] = "free" THEN t.active
                                               ELSE t.active \cup {t.i}
<1>1. t.i \in Nat /\ t.active \subseteq Nat
  BY DEF Tool
<1>2. CASE Checked(t)
  <2> DEFINE u == [t EXCEPT !.at = "shown"]
  <2>1. /\ u \in Tool /\ u.at = "shown" /\ u.i = t.i /\ u.list = t.list
        /\ u.active = t.active /\ u.since = t.since
    BY DEF Tool, Step
  <2>2. Look(t) = u
    BY <1>2 DEF Look
  <2> HIDE DEF u
  <2> QED  BY <1>2, <2>1, <2>2 DEF ToolOK
<1>3. CASE ~Checked(t)
  <2> DEFINE lines == IF proc[t.list[t.i].pid] = "free" THEN t.active ELSE t.active \cup {t.i}
             u == [t EXCEPT !.i = t.i + 1, !.active = lines]
  <2>1. lines \subseteq Nat /\ t.i + 1 \in Nat
    BY <1>1
  <2>2. Look(t) = u
    BY <1>3 DEF Look
  <2> HIDE DEF lines
  <2>3. /\ u \in Tool /\ u.at = "check" /\ u.i = t.i + 1 /\ u.list = t.list
        /\ u.active = lines /\ u.since = t.since
    BY <2>1 DEF Tool
  <2> HIDE DEF u
  <2> QED  BY <1>3, <2>2, <2>3 DEF ToolOK, lines
<1> QED  BY <1>2, <1>3

LEMMA InitTInv == Init => TInv
<1> SUFFICES ASSUME Init  PROVE TInv
  OBVIOUS
<1>1. Idle \in Tool /\ ToolOK(Idle)
  BY IdleIs
<1>2. <<>> \in Seq(Entry) /\ <<>> \in Seq(Grave)
  OBVIOUS
<1>3. 0 \in 0 .. MaxStarts
  BY DaemonAssumption
<1> QED  BY <1>1, <1>2, <1>3 DEF Init, TInv, TypeOK, File, Ensuring, Use

(* A step after which each variable has its type. *)
LEMMA TInvKept ==
  ASSUME TInv, raced' \in BOOLEAN, late' \subseteq Pid, there' \subseteq File,
         ensure' \in [Pid \cup Killer -> Ensuring], proc' \in [Pid -> Use],
         count' \in [Pid -> Nat], reg' \in Seq(Entry), graves' \in Seq(Grave),
         tool' \in [Killer -> Tool], \A k \in Killer : ToolOK(tool'[k]),
         nstarts' \in 0 .. MaxStarts
  PROVE  TInv'
BY DEF TInv, TypeOK, ToolOK, Tool, Name, Entry, Grave, Step, Ensuring, Use, File

LEMMA NextTInv == TInv /\ [Next]_vars => TInv'
<1> SUFFICES ASSUME TInv, [Next]_vars  PROVE TInv'
  OBVIOUS
<1>T. TypeOK /\ \A k \in Killer : ToolOK(tool[k])
  BY DEF TInv
<1>I. Idle \in Tool /\ ToolOK(Idle)
  BY IdleIs
<1>0. CASE UNCHANGED vars
  BY <1>0, <1>T, TInvKept DEF history, vars, TypeOK
<1>1. ASSUME NEW x \in Pid \cup Killer, EnsureStat(x) \/ EnsureMkdir(x) \/ EnsureFile(x)
      PROVE  TInv'
  <2>1. ensure' \in [Pid \cup Killer -> Ensuring] /\ there' \subseteq File
    <3>1. ensure \in [Pid \cup Killer -> Ensuring] /\ there \subseteq File
      BY <1>T DEF TypeOK
    <3>2. CASE EnsureStat(x)
      BY <3>1, <3>2 DEF EnsureStat, Ensuring, files
    <3>3. CASE EnsureMkdir(x)
      BY <3>1, <3>3 DEF EnsureMkdir, Ensuring, File
    <3>4. CASE EnsureFile(x)
      <4>1. ensure[x] \in {"reg", "graves", "log"} /\ there' = there \cup {ensure[x]}
            /\ ensure' = [ensure EXCEPT ![x] = NextFile[ensure[x]]]
        BY <3>4 DEF EnsureFile
      <4>2. NextFile[ensure[x]] \in Ensuring
        BY <4>1 DEF NextFile, Ensuring
      <4>3. ensure' \in [Pid \cup Killer -> Ensuring]
        BY <3>1, <4>1, <4>2
      <4>4. there' \subseteq File
        BY <3>1, <4>1 DEF File
      <4> QED  BY <4>3, <4>4
    <3> QED  BY <1>1, <3>2, <3>3, <3>4
  <2>2. UNCHANGED <<history, proc, count, reg, graves, tool, nstarts>>
    BY <1>1 DEF EnsureStat, EnsureMkdir, EnsureFile, files
  <2> QED  BY <1>T, <2>1, <2>2, TInvKept DEF history, TypeOK
<1>2. ASSUME NEW x \in Pid \cup Killer, EnsureFails(x)  PROVE TInv'
  <2>1. ensure' \in [Pid \cup Killer -> Ensuring] /\ proc' \in [Pid -> Use]
    BY <1>2, <1>T DEF TypeOK, EnsureFails, Ensuring, Use
  <2>2. tool' \in [Killer -> Tool] /\ \A k \in Killer : ToolOK(tool'[k])
    BY <1>2, <1>T, <1>I DEF TypeOK, EnsureFails
  <2>3. UNCHANGED <<history, there, reg, graves, count, nstarts>>
    BY <1>2 DEF EnsureFails, files
  <2> QED  BY <1>T, <2>1, <2>2, <2>3, TInvKept DEF history, TypeOK
<1>3. ASSUME NEW p \in Pid, Dspawn(p) \/ OtherStarts(p)  PROVE TInv'
  <2>1. ensure' \in [Pid \cup Killer -> Ensuring] /\ proc' \in [Pid -> Use]
    BY <1>3, <1>T DEF TypeOK, Dspawn, OtherStarts, Ensuring, Use
  <2>2. nstarts' \in 0 .. MaxStarts
    BY <1>3, <1>T, DaemonAssumption DEF TypeOK, Dspawn, OtherStarts
  <2>3. UNCHANGED <<history, there, reg, graves, count, tool>>
    BY <1>3 DEF Dspawn, OtherStarts, files
  <2> QED  BY <1>T, <2>1, <2>2, <2>3, TInvKept DEF history, TypeOK
<1>4. ASSUME NEW p \in Pid, DaemonSpawn(p)  PROVE TInv'
  <2>1. ensure' \in [Pid \cup Killer -> Ensuring] /\ proc' \in [Pid -> Use]
    BY <1>4, <1>T DEF TypeOK, DaemonSpawn, Ensuring, Use
  <2>2. UNCHANGED <<history, there, reg, graves, count, tool, nstarts>>
    BY <1>4 DEF DaemonSpawn, files
  <2> QED  BY <1>T, <2>1, <2>2, TInvKept DEF history, TypeOK
<1>5. ASSUME NEW p \in Pid, RegisterRead(p)  PROVE TInv'
  <2>1. Count(reg, <<>>) \in Nat
    BY <1>T, CountIs DEF TypeOK
  <2>2. count' \in [Pid -> Nat] /\ proc' \in [Pid -> Use]
    BY <1>5, <1>T, <2>1 DEF TypeOK, RegisterRead, Use
  <2>3. UNCHANGED <<history, there, reg, graves, ensure, tool, nstarts>>
    BY <1>5 DEF RegisterRead, files
  <2> QED  BY <1>T, <2>2, <2>3, TInvKept DEF history, TypeOK
<1>6. ASSUME NEW p \in Pid, RegisterAppend(p)  PROVE TInv'
  <2> DEFINE line == [name |-> Suffixed(<<>>, count[p]), pid |-> p]
  <2>1. count[p] \in Nat
    BY <1>T DEF TypeOK
  <2>2. line \in Entry
    BY <2>1 DEF Entry, Name, Suffixed
  <2>3. reg' = Append(reg, line)
    BY <1>6 DEF RegisterAppend
  <2>4. reg' \in Seq(Entry)
    BY <1>T, <2>2, <2>3, AppendProperties DEF TypeOK
  <2>5. count' \in [Pid -> Nat] /\ proc' \in [Pid -> Use]
    BY <1>6, <1>T DEF TypeOK, RegisterAppend, Use
  <2>6. raced' \in BOOLEAN /\ UNCHANGED <<late, there, graves, ensure, tool, nstarts>>
    BY <1>6, <1>T DEF RegisterAppend, TypeOK
  <2> QED  BY <1>T, <2>4, <2>5, <2>6, TInvKept DEF TypeOK
<1>7. ASSUME NEW p \in Pid, Ends(p)  PROVE TInv'
  <2>1. /\ ensure' \in [Pid \cup Killer -> Ensuring] /\ proc' \in [Pid -> Use]
        /\ count' \in [Pid -> Nat]
    BY <1>7, <1>T DEF TypeOK, Ends, Ensuring, Use
  <2>2. tool' = Gone(p)
    BY <1>7 DEF Ends
  <2>3. late' \subseteq Pid /\ UNCHANGED <<raced, there, reg, graves, nstarts>>
    BY <1>7, <1>T DEF Ends, files, TypeOK
  <2> QED  BY <1>T, <2>1, <2>2, <2>3, GoneIs, TInvKept DEF TypeOK
<1>8. ASSUME NEW k \in Killer, NEW t, ToolOK(t), tool' = [tool EXCEPT ![k] = t],
             ensure' \in [Pid \cup Killer -> Ensuring],
             UNCHANGED <<history, files, proc, count, nstarts>>
      PROVE  TInv'
  <2>1. tool' \in [Killer -> Tool] /\ \A l \in Killer : ToolOK(tool'[l])
    BY <1>8, ReplacedTool
  <2> QED  BY <1>8, <1>T, <2>1, TInvKept DEF history, TypeOK, files
<1>9. ASSUME NEW k \in Killer, StartTool(k)  PROVE TInv'
  <2> DEFINE u == [tool[k] EXCEPT !.at = "ensure"]
  <2>1. u \in Tool /\ u.at = "ensure"
    BY <1>T DEF TypeOK, Tool, Step
  <2>2. tool' = [tool EXCEPT ![k] = u]
    BY <1>9 DEF StartTool
  <2> HIDE DEF u
  <2>3. ensure' \in [Pid \cup Killer -> Ensuring]
    BY <1>9, <1>T DEF StartTool, TypeOK, Ensuring
  <2>4. UNCHANGED <<history, files, proc, count, nstarts>>
    BY <1>9 DEF StartTool
  <2> QED  BY <1>8, <2>1, <2>2, <2>3, <2>4 DEF ToolOK
<1>10. ASSUME NEW k \in Killer, LoadActive(k)  PROVE TInv'
  <2> DEFINE u == [Idle EXCEPT !.at = "ask", !.list = reg, !.active = Loaded,
                               !.since = {p \in Working : \E i \in Loaded : reg[i].pid = p}]
             t == IF Loaded = {} THEN Idle ELSE u
  <2>1. Loaded \subseteq DOMAIN reg /\ DOMAIN reg \subseteq Nat /\ reg \in Seq(Entry)
    BY <1>T DEF Loaded, Active, TypeOK
  <2>2. u \in Tool /\ u.at = "ask" /\ u.list = reg /\ u.active = Loaded
    BY <1>I, <2>1 DEF Tool, Step, Working
  <2>3. tool' = [tool EXCEPT ![k] = t]
    BY <1>10 DEF LoadActive
  <2> HIDE DEF u
  <2>4. ToolOK(t)
    BY <1>I, <2>1, <2>2 DEF ToolOK
  <2> HIDE DEF t
  <2>5. ensure' \in [Pid \cup Killer -> Ensuring]
    BY <1>10, <1>T DEF LoadActive, Ensured, TypeOK, Ensuring
  <2>6. UNCHANGED <<history, files, proc, count, nstarts>>
    BY <1>10 DEF LoadActive
  <2> QED  BY <1>8, <2>3, <2>4, <2>5, <2>6
<1>11. ASSUME NEW k \in Killer, DcheckRead(k)  PROVE TInv'
  <2> DEFINE working == Working \ late
             u == [Idle EXCEPT !.at = "check", !.list = reg, !.i = 1, !.since = working]
  <2>1. reg \in Seq(Entry) /\ working \subseteq Pid
    BY <1>T DEF TypeOK, Working
  <2>2. tool' = [tool EXCEPT ![k] = u]
    BY <1>11 DEF DcheckRead
  <2> HIDE DEF working
  <2>3. u \in Tool /\ u.at = "check"
    BY <1>I, <2>1 DEF Tool, Step
  <2> HIDE DEF u
  <2>4. ensure' \in [Pid \cup Killer -> Ensuring]
    BY <1>11, <1>T DEF DcheckRead, Ensured, TypeOK, Ensuring
  <2>5. UNCHANGED <<history, files, proc, count, nstarts>>
    BY <1>11 DEF DcheckRead
  <2> QED  BY <1>8, <2>2, <2>3, <2>4, <2>5 DEF ToolOK
<1>12. ASSUME NEW k \in Killer, Answer(k)  PROVE TInv'
  <2>1. /\ tool[k] \in Tool /\ tool[k].at = "ask" /\ tool[k].active # {}
        /\ tool[k].active \subseteq DOMAIN tool[k].list /\ tool[k].active \subseteq Nat
    BY <1>12, <1>T DEF Answer, ToolOK, TypeOK, Tool
  <2>2. ensure' \in [Pid \cup Killer -> Ensuring]
        /\ UNCHANGED <<history, files, proc, count, nstarts>>
    BY <1>12, <1>T DEF Answer, TypeOK
  <2>3. ASSUME NEW i \in tool[k].active, NEW all \in BOOLEAN,
               tool' = [tool EXCEPT ![k] = [tool[k] EXCEPT !.at = "kill", !.i = i, !.all = all]]
        PROVE  TInv'
    <3> DEFINE u == [tool[k] EXCEPT !.at = "kill", !.i = i, !.all = all]
    <3>1. u \in Tool /\ u.at = "kill" /\ u.i = i /\ u.list = tool[k].list
          /\ u.active = tool[k].active
      BY <2>1 DEF Tool, Step
    <3>2. tool' = [tool EXCEPT ![k] = u]
      BY <2>3
    <3> HIDE DEF u
    <3>3. ToolOK(u)
      BY <2>1, <3>1 DEF ToolOK
    <3> QED  BY <1>8, <2>2, <3>2, <3>3
  <2>4. CASE tool' = [tool EXCEPT ![k] = Idle]
    BY <1>8, <1>I, <2>2, <2>4
  <2>5. CASE tool' = [tool EXCEPT ![k].at = "kill", ![k].i = Min(tool[k].active),
                                  ![k].all = TRUE]
    <3>1. Min(tool[k].active) \in tool[k].active
      BY <2>1, MinIs
    <3>2. tool' = [tool EXCEPT ![k] = [tool[k] EXCEPT !.at = "kill",
                                         !.i = Min(tool[k].active), !.all = TRUE]]
      BY <2>5
    <3> QED  BY <2>3, <3>1, <3>2
  <2>6. ASSUME NEW i \in tool[k].active,
               tool' = [tool EXCEPT ![k].at = "kill", ![k].i = i]
        PROVE  TInv'
    <3>1. tool[k].all \in BOOLEAN
      BY <2>1 DEF Tool
    <3>2. [tool[k] EXCEPT !.at = "kill", !.i = i]
            = [tool[k] EXCEPT !.at = "kill", !.i = i, !.all = tool[k].all]
      BY <2>1 DEF Tool
    <3>3. tool' = [tool EXCEPT ![k] = [tool[k] EXCEPT !.at = "kill", !.i = i]]
      BY <2>6
    <3> QED  BY <2>3, <3>1, <3>2, <3>3
  <2> QED  BY <1>12, <2>4, <2>5, <2>6 DEF Answer
<1>13. ASSUME NEW k \in Killer, KillOne(k)  PROVE TInv'
  <2> DEFINE p == Listed(k).pid
  <2>1. p \in Pid /\ tool[k] \in Tool /\ ToolOK(tool[k]) /\ tool[k].at = "kill"
    BY <1>13, <1>T, ListedIs DEF KillOne, TypeOK
  <2>2. CASE proc[p] = "free"
    <3>1. tool' = [tool EXCEPT ![k] = Following(tool[k])]
          /\ UNCHANGED <<history, files, proc, count, ensure, nstarts>>
      BY <1>13, <2>2, <1>T DEF KillOne, TypeOK, history
    <3>2. ToolOK(Following(tool[k]))
      BY <2>1, FollowingIs
    <3>3. ensure' \in [Pid \cup Killer -> Ensuring]
      BY <3>1, <1>T DEF TypeOK
    <3> QED  BY <1>8, <3>1, <3>2, <3>3
  <2>3. CASE proc[p] # "free"
    <3>1. /\ proc' = [proc EXCEPT ![p] = "free"]
          /\ count' = [count EXCEPT ![p] = 0]
          /\ ensure' = [ensure EXCEPT ![p] = "none"]
          /\ tool' = [Gone(p) EXCEPT ![k].at = "read"]
          /\ UNCHANGED <<raced, files, nstarts>> /\ late' = late \ {p}
      BY <1>13, <2>3 DEF KillOne
    <3> HIDE DEF p
    <3>2. /\ proc' \in [Pid -> Use] /\ count' \in [Pid -> Nat]
          /\ ensure' \in [Pid \cup Killer -> Ensuring]
      BY <3>1, <1>T DEF TypeOK, Use, Ensuring
    <3> DEFINE g == Gone(p)
               u == [g[k] EXCEPT !.at = "read"]
    <3>3. g \in [Killer -> Tool] /\ \A l \in Killer : ToolOK(g[l])
      BY GoneIs
    <3>4. g[k].at = "kill"
      BY <2>1, GoneIs
    <3>5. tool' = [g EXCEPT ![k] = u]
      BY <3>1
    <3> HIDE DEF g
    <3>6. u \in Tool /\ u.at = "read" /\ u.i = g[k].i /\ u.list = g[k].list
          /\ u.active = g[k].active
      BY <3>3 DEF Tool, Step
    <3> HIDE DEF u
    <3>7. ToolOK(u)
      BY <3>3, <3>4, <3>6 DEF ToolOK
    <3>8. tool' \in [Killer -> Tool] /\ \A l \in Killer : ToolOK(tool'[l])
      BY <3>3, <3>5, <3>6, <3>7
    <3> QED  BY <1>T, <3>1, <3>2, <3>8, TInvKept DEF TypeOK, files
  <2> QED  BY <2>2, <2>3
<1>14. ASSUME NEW k \in Killer, BuryRead(k)  PROVE TInv'
  <2> DEFINE c == Count(graves, Listed(k).name)
             u == [tool[k] EXCEPT !.at = "append", !.count = c]
  <2>1. tool[k] \in Tool /\ ToolOK(tool[k]) /\ tool[k].at = "read"
    BY <1>14, <1>T DEF BuryRead, TypeOK
  <2>2. c \in Nat
    BY <1>T, CountIs DEF TypeOK
  <2>3. tool' = [tool EXCEPT ![k] = u]
    BY <1>14 DEF BuryRead
  <2> HIDE DEF c
  <2>4. u \in Tool /\ u.at = "append" /\ u.i = tool[k].i /\ u.list = tool[k].list
        /\ u.active = tool[k].active
    BY <2>1, <2>2 DEF Tool, Step
  <2> HIDE DEF u
  <2>5. ToolOK(u)
    BY <2>1, <2>4 DEF ToolOK
  <2>6. ensure' \in [Pid \cup Killer -> Ensuring]
        /\ UNCHANGED <<history, files, proc, count, nstarts>>
    BY <1>14, <1>T DEF BuryRead, TypeOK
  <2> QED  BY <1>8, <2>3, <2>5, <2>6
<1>15. ASSUME NEW k \in Killer, BuryAppend(k)  PROVE TInv'
  <2> DEFINE record == [name |-> Suffixed(Listed(k).name, tool[k].count), by |-> k]
             t == [tool[k] EXCEPT !.count = 0]
  <2>1. tool[k] \in Tool /\ ToolOK(tool[k]) /\ tool[k].at = "append"
    BY <1>15, <1>T DEF BuryAppend, TypeOK
  <2>2. tool[k].count \in Nat /\ Listed(k).name \in Name
    BY <2>1, ListedIs DEF Tool
  <2>3. record \in Grave
    BY <2>2, SuffixedIs DEF Grave
  <2>4. graves' = Append(graves, record) /\ tool' = [tool EXCEPT ![k] = Following(t)]
        /\ UNCHANGED <<history, there, ensure, proc, count, reg, nstarts>>
    BY <1>15, <1>T DEF BuryAppend, TypeOK
  <2>5. graves' \in Seq(Grave)
    BY <1>T, <2>3, <2>4, AppendProperties DEF TypeOK
  <2>6. t \in Tool /\ t.at = "append" /\ t.i = tool[k].i /\ t.list = tool[k].list
        /\ t.active = tool[k].active
    BY <2>1 DEF Tool
  <2> HIDE DEF t
  <2>7. ToolOK(Following(t))
    <3>1. ToolOK(t)
      BY <2>1, <2>6 DEF ToolOK
    <3> QED  BY <2>6, <3>1, FollowingIs
  <2>8. tool' \in [Killer -> Tool] /\ \A l \in Killer : ToolOK(tool'[l])
    BY <2>4, <2>7, ReplacedTool
  <2> QED  BY <1>T, <2>4, <2>5, <2>8, TInvKept DEF history, TypeOK
<1>16. ASSUME NEW k \in Killer, Truncate(k)  PROVE TInv'
  <2>1. reg' = <<>> /\ tool' = [tool EXCEPT ![k] = Idle]
        /\ UNCHANGED <<there, ensure, proc, count, graves, nstarts>>
        /\ raced' \in BOOLEAN /\ late' \subseteq Pid
    BY <1>16, <1>T DEF Truncate, TypeOK, Working
  <2>2. reg' \in Seq(Entry)
    BY <2>1
  <2>3. tool' \in [Killer -> Tool] /\ \A l \in Killer : ToolOK(tool'[l])
    BY <1>I, <2>1, ReplacedTool
  <2> QED  BY <1>T, <2>1, <2>2, <2>3, TInvKept DEF TypeOK
<1>17. ASSUME NEW k \in Killer, DcheckEntry(k) \/ DcheckGraveyard(k)  PROVE TInv'
  <2>1. ensure' \in [Pid \cup Killer -> Ensuring]
        /\ UNCHANGED <<history, files, proc, count, nstarts>>
    BY <1>17, <1>T DEF DcheckEntry, DcheckGraveyard, TypeOK
  <2>2. CASE DcheckGraveyard(k)
    BY <1>8, <1>I, <2>1, <2>2 DEF DcheckGraveyard
  <2>3. CASE DcheckEntry(k)
    <3>1. tool[k] \in Tool /\ tool[k].at = "check" /\ tool' = [tool EXCEPT ![k] = Look(tool[k])]
      BY <1>T, <2>3 DEF DcheckEntry, TypeOK
    <3>2. ToolOK(Look(tool[k]))
      BY <3>1, LookIs
    <3> QED  BY <1>8, <2>1, <3>1, <3>2
  <2> QED  BY <1>17, <2>2, <2>3
<1> QED  BY <1>0, <1>1, <1>2, <1>3, <1>4, <1>5, <1>6, <1>7, <1>9, <1>10, <1>11, <1>12,
            <1>13, <1>14, <1>15, <1>16, <1>17 DEF Next

(* The types hold: dkill and dcheck stay in the lines they have read, and  *)
(* what they kill, bury and show is always one of them. *)
THEOREM DaemonsTyped == Spec => []TypeOK
<1>1. TInv => TypeOK
  BY DEF TInv
<1> QED  BY <1>1, InitTInv, NextTInv, PTL DEF Spec

(***************************************************************************)
(* The names of the registry.                                              *)
(***************************************************************************)
Numbered == \A i \in DOMAIN reg : reg[i].name = Suffixed(<<>>, i - 1)
Counted == \A p \in Between : count[p] = Len(reg)

NInv == TInv /\ (~raced => Numbered /\ Counted)

(* Every line counts as one of the base name's. *)
LEMMA CountAll ==
  ASSUME NEW file \in Seq(Entry)
  PROVE  Count(file, <<>>) = Len(file)
<1>1. \A i \in DOMAIN file : IsPrefix(<<>>, file[i].name)
  <2> SUFFICES ASSUME NEW i \in DOMAIN file  PROVE IsPrefix(<<>>, file[i].name)
    OBVIOUS
  <2>1. file[i] \in Entry
    OBVIOUS
  <2>2. file[i].name \in Seq(Nat)
    BY <2>1 DEF Entry, Name
  <2>3. Len(<<>>) = 0 /\ 0 <= Len(file[i].name)
    BY <2>2
  <2>4. SubSeq(<<>>, 1, 0) = SubSeq(file[i].name, 1, 0)
    BY SubSeqEmpty
  <2> QED  BY <2>3, <2>4 DEF IsPrefix
<1>2. {i \in DOMAIN file : IsPrefix(<<>>, file[i].name)} = 1 .. Len(file)
  BY <1>1
<1>3. Cardinality(1 .. Len(file)) = Len(file)
  <2>1. Len(file) \in Nat
    OBVIOUS
  <2>2. Cardinality(1 .. Len(file)) =
          IF 1 > Len(file) THEN 0 ELSE Len(file) - 1 + 1
    BY <2>1, FS_Interval
  <2> QED  BY <2>1, <2>2
<1>4. Count(file, <<>>) = Cardinality({i \in DOMAIN file : IsPrefix(<<>>, file[i].name)})
  BY DEF Count
<1> QED  BY <1>2, <1>3, <1>4

(* Different numbers give different names. *)
LEMMA SuffixedApart ==
  ASSUME NEW m \in Nat, NEW n \in Nat, Suffixed(<<>>, m) = Suffixed(<<>>, n)
  PROVE  m = n
BY DEF Suffixed

LEMMA NumberedIsDistinct ==
  ASSUME reg \in Seq(Entry), Numbered
  PROVE  Distinct(reg)
<1> SUFFICES ASSUME NEW i \in DOMAIN reg, NEW j \in DOMAIN reg,
                    reg[i].name = reg[j].name
             PROVE  i = j
  BY DEF Distinct
<1>1. i - 1 \in Nat /\ j - 1 \in Nat
  OBVIOUS
<1>2. Suffixed(<<>>, i - 1) = Suffixed(<<>>, j - 1)
  BY DEF Numbered
<1>3. i - 1 = j - 1
  BY <1>1, <1>2, SuffixedApart
<1> QED  BY <1>1, <1>3

LEMMA InitNInv == Init => NInv
<1> SUFFICES ASSUME Init  PROVE NInv
  OBVIOUS
<1>1. Numbered /\ Counted
  BY DEF Init, Numbered, Counted, Between
<1> QED  BY <1>1, InitTInv DEF NInv

(* A step that does not write the registry and brings nobody between the   *)
(* count and the append. *)
LEMMA NamesKept ==
  ASSUME NInv, TInv', reg' = reg, raced' = raced,
         \A p \in Pid : proc'[p] = "append" => proc[p] = "append" /\ count'[p] = count[p]
  PROVE  NInv'
<1>1. ASSUME Numbered  PROVE Numbered'
  BY <1>1 DEF Numbered
<1>2. ASSUME Counted  PROVE Counted'
  BY <1>2 DEF Counted, Between
<1> QED  BY <1>1, <1>2 DEF NInv

LEMMA NextNInv == NInv /\ [Next]_vars => NInv'
<1> SUFFICES ASSUME NInv, [Next]_vars  PROVE NInv'
  OBVIOUS
<1>T. TInv /\ TypeOK /\ TInv'
  BY NextTInv DEF NInv, TInv
<1>P. proc \in [Pid -> Use] /\ count \in [Pid -> Nat] /\ reg \in Seq(Entry)
  BY <1>T DEF TypeOK
<1>0. CASE UNCHANGED <<reg, proc, count, raced>>
  BY <1>0, <1>T, NamesKept
<1>1. ASSUME NEW x \in Pid \cup Killer, EnsureFails(x)  PROVE NInv'
  BY <1>1, <1>T, <1>P, NamesKept DEF EnsureFails, files, history
<1>2. ASSUME NEW p \in Pid, Dspawn(p) \/ DaemonSpawn(p) \/ OtherStarts(p) \/ Ends(p)
      PROVE  NInv'
  BY <1>2, <1>T, <1>P, NamesKept DEF Dspawn, DaemonSpawn, OtherStarts, Ends, files, history
<1>3. ASSUME NEW p \in Pid, RegisterRead(p)  PROVE NInv'
  <2>1. Count(reg, <<>>) = Len(reg)
    BY <1>P, CountAll
  <2>2. reg' = reg /\ raced' = raced
    BY <1>3 DEF RegisterRead, files, history
  <2>3. ASSUME Numbered  PROVE Numbered'
    BY <2>2, <2>3 DEF Numbered
  <2>4. ASSUME Counted  PROVE Counted'
    BY <1>3, <1>P, <2>1, <2>2, <2>4 DEF RegisterRead, Counted, Between
  <2> QED  BY <1>T, <2>2, <2>3, <2>4 DEF NInv
<1>4. ASSUME NEW p \in Pid, RegisterAppend(p)  PROVE NInv'
  <2> DEFINE line == [name |-> Suffixed(<<>>, count[p]), pid |-> p]
  <2>1. line \in Entry /\ line.name = Suffixed(<<>>, count[p])
    BY <1>P DEF Entry, Name, Suffixed
  <2>2. /\ reg' = Append(reg, line) /\ raced' = (raced \/ Between # {p})
        /\ proc' = [proc EXCEPT ![p] = "work"] /\ p \in Between
    BY <1>4 DEF RegisterAppend, Between
  <2> HIDE DEF line
  <2>3. SUFFICES ASSUME ~raced'  PROVE Numbered' /\ Counted'
    BY <1>T DEF NInv
  <2>4. ~raced /\ Between = {p}
    BY <2>2, <2>3
  <2>5. Numbered'
    <3>1. count[p] = Len(reg) /\ Numbered
      BY <2>4 DEF NInv, Counted
    <3> SUFFICES ASSUME NEW i \in DOMAIN reg'
                 PROVE  reg'[i].name = Suffixed(<<>>, i - 1)
      BY DEF Numbered
    <3>2. CASE i = Len(reg) + 1
      BY <1>P, <2>1, <2>2, <3>1, <3>2
    <3>3. CASE i \in DOMAIN reg
      BY <1>P, <2>1, <2>2, <3>1, <3>3 DEF Numbered
    <3> QED  BY <1>P, <2>1, <2>2, <3>2, <3>3
  <2>6. Counted'
    BY <1>P, <2>2, <2>4 DEF Counted, Between
  <2> QED  BY <2>5, <2>6
<1>5. ASSUME NEW k \in Killer, KillOne(k)  PROVE NInv'
  <2> DEFINE p == Listed(k).pid
  <2>1. /\ reg' = reg /\ raced' = raced
        /\ \/ UNCHANGED <<proc, count>>
           \/ proc' = [proc EXCEPT ![p] = "free"] /\ count' = [count EXCEPT ![p] = 0]
    BY <1>5 DEF KillOne, files
  <2> HIDE DEF p
  <2> QED  BY <1>T, <1>P, <2>1, NamesKept
<1>6. ASSUME NEW k \in Killer, Truncate(k)  PROVE NInv'
  <2>1. reg' = <<>> /\ raced' = (Between # {}) /\ proc' = proc
    BY <1>6 DEF Truncate
  <2>2. Numbered'
    BY <2>1 DEF Numbered
  <2>3. ~raced' => Counted'
    BY <2>1 DEF Counted, Between
  <2> QED  BY <1>T, <2>2, <2>3 DEF NInv
<1>7. ASSUME NEW x \in Pid \cup Killer, EnsureStat(x) \/ EnsureMkdir(x) \/ EnsureFile(x)
      PROVE  UNCHANGED <<reg, proc, count, raced>>
  BY <1>7 DEF EnsureStat, EnsureMkdir, EnsureFile, files, history
<1>8. ASSUME NEW k \in Killer,
             \/ StartTool(k) \/ LoadActive(k) \/ Answer(k) \/ BuryRead(k) \/ BuryAppend(k)
             \/ DcheckRead(k) \/ DcheckEntry(k) \/ DcheckGraveyard(k)
      PROVE  UNCHANGED <<reg, proc, count, raced>>
  BY <1>8 DEF StartTool, LoadActive, Answer, BuryRead, BuryAppend, DcheckRead, DcheckEntry,
              DcheckGraveyard, files, history
<1>9. CASE UNCHANGED vars
  BY <1>0, <1>9 DEF vars
<1> QED  BY <1>0, <1>1, <1>2, <1>3, <1>4, <1>5, <1>6, <1>7, <1>8, <1>9 DEF Next

(* The names of the registry differ unless a dspawn counted its lines and  *)
(* appended its own with another registration, or with the truncation by   *)
(* kill_all(), between the two: whatever else the tools do, for any number *)
(* of them at once, of daemons and of process ids. *)
THEOREM RegistryUniqueHolds == Spec => []RegistryUnique
<1>1. NInv => RegistryUnique
  BY NumberedIsDistinct DEF NInv, TInv, TypeOK, RegistryUnique
<1> QED  BY <1>1, InitNInv, NextNInv, PTL DEF Spec

(***************************************************************************)
(* The files.                                                              *)
(***************************************************************************)
(* A file that a tool has made is there for good, and it makes them in the *)
(* order of ensure_daemon_files(). *)
Made(x) ==
  /\ ensure[x] \in {"graves", "log", "done"} => "reg" \in there
  /\ ensure[x] \in {"log", "done"} => "graves" \in there
  /\ ensure[x] = "done" => "log" \in there
IsSequence(s) == s \in Seq({s[i] : i \in DOMAIN s})

FilesInv ==
  /\ IsSequence(graves)
  /\ ensure = [x \in Pid \cup Killer |-> ensure[x]]
  /\ \A x \in Pid \cup Killer : Made(x)

LEMMA PrefixSelf ==
  ASSUME NEW S, NEW s \in Seq(S)
  PROVE  IsPrefix(s, s)
<1>1. Len(s) \in Nat
  OBVIOUS
<1> QED  BY <1>1 DEF IsPrefix

LEMMA PrefixAppend ==
  ASSUME NEW S, NEW s \in Seq(S), NEW e \in S
  PROVE  IsPrefix(s, Append(s, e))
<1>1. /\ Append(s, e) \in Seq(S) /\ Len(Append(s, e)) = Len(s) + 1
      /\ \A i \in 1 .. Len(s) : Append(s, e)[i] = s[i]
  BY AppendProperties
<1>2. Len(s) \in Nat
  OBVIOUS
<1>3. SubSeq(Append(s, e), 1, Len(s)) = SubSeq(s, 1, Len(s))
  BY <1>1, <1>2
<1> QED  BY <1>1, <1>2, <1>3 DEF IsPrefix

LEMMA SequenceAppend ==
  ASSUME NEW s, IsSequence(s), NEW e
  PROVE  IsPrefix(s, Append(s, e)) /\ IsSequence(Append(s, e))
<1> DEFINE S == {s[i] : i \in DOMAIN s} \cup {e}
<1> DEFINE t == Append(s, e)
<1>1. s \in Seq(S) /\ e \in S
  BY DEF IsSequence
<1>2. t \in Seq(S)
  BY <1>1, AppendProperties
<1>3. t \in Seq({t[i] : i \in DOMAIN t})
  BY <1>2
<1> QED  BY <1>1, <1>3, PrefixAppend DEF IsSequence

LEMMA InitFiles == Init => FilesInv
BY DEF Init, FilesInv, Made, IsSequence

(* What a step does to the graveyard and to the registry. *)
LEMMA GravesGrow ==
  ASSUME FilesInv, [Next]_vars
  PROVE  IsPrefix(graves, graves') /\ IsSequence(graves')
<1>1. CASE graves' = graves
  BY <1>1, PrefixSelf DEF FilesInv, IsSequence
<1>2. ASSUME NEW k \in Killer, BuryAppend(k)
      PROVE  \E e : graves' = Append(graves, e)
  BY <1>2 DEF BuryAppend
<1>3. graves' = graves \/ \E k \in Killer : BuryAppend(k)
  BY DEF Next, vars, files, EnsureStat, EnsureMkdir, EnsureFile, EnsureFails, Dspawn,
         DaemonSpawn, RegisterRead, RegisterAppend, OtherStarts, Ends, StartTool, LoadActive,
         Answer, KillOne, BuryRead, Truncate, DcheckRead, DcheckEntry, DcheckGraveyard
<1> QED  BY <1>1, <1>2, <1>3, SequenceAppend DEF FilesInv

LEMMA RegistryGrows ==
  ASSUME TInv, [Next]_vars
  PROVE  IsPrefix(reg, reg') \/ \E k \in Killer : tool[k].at = "truncate" /\ reg' = <<>>
<1>1. CASE reg' = reg
  BY <1>1, PrefixSelf DEF TInv, TypeOK
<1>2. ASSUME NEW p \in Pid, RegisterAppend(p)  PROVE IsPrefix(reg, reg')
  <2> DEFINE line == [name |-> Suffixed(<<>>, count[p]), pid |-> p]
  <2>1. reg \in Seq(Entry) /\ count[p] \in Nat
    BY DEF TInv, TypeOK
  <2>2. line \in Entry
    BY <2>1 DEF Entry, Name, Suffixed
  <2>3. reg' = Append(reg, line)
    BY <1>2 DEF RegisterAppend
  <2> QED  BY <2>1, <2>2, <2>3, PrefixAppend
<1>3. ASSUME NEW k \in Killer, Truncate(k)  PROVE tool[k].at = "truncate" /\ reg' = <<>>
  BY <1>3 DEF Truncate
<1>4. reg' = reg \/ (\E p \in Pid : RegisterAppend(p)) \/ \E k \in Killer : Truncate(k)
  BY DEF Next, vars, files, EnsureStat, EnsureMkdir, EnsureFile, EnsureFails, Dspawn,
         DaemonSpawn, RegisterRead, OtherStarts, Ends, StartTool, LoadActive, Answer,
         KillOne, BuryRead, BuryAppend, DcheckRead, DcheckEntry, DcheckGraveyard
<1> QED  BY <1>1, <1>2, <1>3, <1>4

(* What a step does to the directory and to the tools that look at it. *)
LEMMA Kept ==
  ASSUME \A x \in Pid \cup Killer : Made(x), there \subseteq there',
         ensure' = [x \in Pid \cup Killer |-> ensure'[x]],
         \A x \in Pid \cup Killer :
           ensure'[x] = ensure[x] \/ ensure'[x] \in {"none", "stat", "mkdir", "reg"}
  PROVE  there \subseteq there' /\ ensure' = [x \in Pid \cup Killer |-> ensure'[x]]
         /\ \A x \in Pid \cup Killer : Made(x)'
BY DEF Made

LEMMA FilesStep ==
  ASSUME FilesInv, [Next]_vars
  PROVE  there \subseteq there' /\ ensure' = [x \in Pid \cup Killer |-> ensure'[x]]
         /\ \A x \in Pid \cup Killer : Made(x)'
<1>I. /\ ensure = [x \in Pid \cup Killer |-> ensure[x]]
      /\ \A x \in Pid \cup Killer : Made(x)
  BY DEF FilesInv
<1>1. ASSUME NEW x \in Pid \cup Killer, EnsureFile(x)
      PROVE  /\ there \subseteq there' /\ ensure' = [y \in Pid \cup Killer |-> ensure'[y]]
             /\ \A y \in Pid \cup Killer : Made(y)'
  <2>1. there' = there \cup {ensure[x]} /\ ensure[x] \in {"reg", "graves", "log"}
    BY <1>1 DEF EnsureFile
  <2>2. ensure' = [ensure EXCEPT ![x] = NextFile[ensure[x]]]
    BY <1>1 DEF EnsureFile
  <2>3. ASSUME NEW y \in Pid \cup Killer  PROVE Made(y)'
    <3>1. CASE y # x
      BY <1>I, <2>1, <2>2, <3>1 DEF Made
    <3>2. CASE y = x
      <4>1. ensure'[y] = NextFile[ensure[x]] /\ Made(x)
        BY <1>I, <2>2, <3>2
      <4>2. CASE ensure[x] = "reg"
        BY <2>1, <4>1, <4>2 DEF Made, NextFile
      <4>3. CASE ensure[x] = "graves"
        BY <2>1, <4>1, <4>3 DEF Made, NextFile
      <4>4. CASE ensure[x] = "log"
        BY <2>1, <4>1, <4>4 DEF Made, NextFile
      <4> QED  BY <2>1, <4>2, <4>3, <4>4
    <3> QED  BY <3>1, <3>2
  <2> QED  BY <1>I, <2>1, <2>2, <2>3
<1>2. ASSUME NEW x \in Pid \cup Killer, EnsureStat(x) \/ EnsureMkdir(x) \/ EnsureFails(x)
      PROVE  /\ there \subseteq there' /\ ensure' = [y \in Pid \cup Killer |-> ensure'[y]]
             /\ \A y \in Pid \cup Killer :
                  ensure'[y] = ensure[y] \/ ensure'[y] \in {"none", "stat", "mkdir", "reg"}
  BY <1>2, <1>I DEF EnsureStat, EnsureMkdir, EnsureFails, files
<1>3. ASSUME NEW p \in Pid, Dspawn(p) \/ DaemonSpawn(p) \/ Ends(p)
      PROVE  /\ there = there' /\ ensure' = [y \in Pid \cup Killer |-> ensure'[y]]
             /\ \A y \in Pid \cup Killer : ensure'[y] = ensure[y] \/ ensure'[y] \in {"none", "stat"}
  BY <1>3, <1>I DEF Dspawn, DaemonSpawn, Ends, files
<1>4. ASSUME NEW k \in Killer, StartTool(k) \/ LoadActive(k) \/ DcheckRead(k)
      PROVE  /\ there = there' /\ ensure' = [y \in Pid \cup Killer |-> ensure'[y]]
             /\ \A y \in Pid \cup Killer : ensure'[y] = ensure[y] \/ ensure'[y] \in {"none", "stat"}
  BY <1>4, <1>I DEF StartTool, LoadActive, DcheckRead, Ensured, files
<1>5. ASSUME NEW k \in Killer, KillOne(k)
      PROVE  /\ there = there' /\ ensure' = [y \in Pid \cup Killer |-> ensure'[y]]
             /\ \A y \in Pid \cup Killer : ensure'[y] = ensure[y] \/ ensure'[y] \in {"none", "stat"}
  BY <1>5, <1>I DEF KillOne, files
<1>6. ASSUME UNCHANGED <<there, ensure>>
      PROVE  /\ there = there' /\ ensure' = [y \in Pid \cup Killer |-> ensure'[y]]
             /\ \A y \in Pid \cup Killer : ensure'[y] = ensure[y] \/ ensure'[y] \in {"none", "stat"}
  BY <1>6, <1>I
<1>7. \/ \E x \in Pid \cup Killer :
           EnsureFile(x) \/ EnsureStat(x) \/ EnsureMkdir(x) \/ EnsureFails(x)
      \/ \E p \in Pid : Dspawn(p) \/ DaemonSpawn(p) \/ Ends(p)
      \/ \E k \in Killer : StartTool(k) \/ LoadActive(k) \/ DcheckRead(k) \/ KillOne(k)
      \/ UNCHANGED <<there, ensure>>
  BY DEF Next, vars, files, RegisterRead, RegisterAppend, OtherStarts, Answer, BuryRead,
         BuryAppend, Truncate, DcheckEntry, DcheckGraveyard
<1> QED  BY <1>I, <1>1, <1>2, <1>3, <1>4, <1>5, <1>6, <1>7, Kept

LEMMA NextFiles == FilesInv /\ [Next]_vars => FilesInv'
BY GravesGrow, FilesStep DEF FilesInv

(* No line is lost but by kill_all(), and no tool goes past                *)
(* ensure_daemon_files() without the three files, however many tools make  *)
(* the directory and the files at once. *)
THEOREM FilesKeptHolds == Spec => FilesKept
<1>1. TInv /\ FilesInv /\ [Next]_vars =>
        [/\ there \subseteq there' /\ IsPrefix(graves, graves')
         /\ IsPrefix(reg, reg') \/ \E k \in Killer : tool[k].at = "truncate" /\ reg' = <<>>
         /\ \A x \in Pid \cup Killer :
              ensure'[x] = "done" => {"reg", "graves", "log"} \subseteq there']_vars
  <2> SUFFICES ASSUME TInv, FilesInv, [Next]_vars
               PROVE  /\ there \subseteq there' /\ IsPrefix(graves, graves')
                      /\ \/ IsPrefix(reg, reg')
                         \/ \E k \in Killer : tool[k].at = "truncate" /\ reg' = <<>>
                      /\ \A x \in Pid \cup Killer :
                           ensure'[x] = "done" => {"reg", "graves", "log"} \subseteq there'
    OBVIOUS
  <2>1. \A x \in Pid \cup Killer :
          ensure'[x] = "done" => {"reg", "graves", "log"} \subseteq there'
    BY FilesStep DEF Made
  <2> QED  BY <2>1, FilesStep, GravesGrow, RegistryGrows
<1> QED  BY <1>1, InitTInv, NextTInv, InitFiles, NextFiles, PTL DEF Spec, FilesKept

(***************************************************************************)
(* The daemons that work are in the registry, and in what a tool has read  *)
(* of it.                                                                  *)
(***************************************************************************)
Placed == \A p \in Pid : ensure[p] # "none" => proc[p] = "ensure"

Lined(r, W) == \A p \in W : \E j \in DOMAIN r : r[j].pid = p

(* The lines of its list that a dkill that answered 'a' has yet to kill. *)
Pending(t) == {j \in t.active : t.at = "ask" \/ j > t.i \/ (t.at = "kill" /\ j = t.i)}

(* If dkill kills all daemons of its list, each of those that still work is*)
(* one it has not come to, and none is left when it truncates.             *)
Chases(t) ==
  /\ t.at = "ask" \/ (t.at \in {"kill", "read", "append"} /\ t.all) =>
       \A p \in t.since : \E j \in Pending(t) : t.list[j].pid = p
  /\ t.at = "ask" => ~t.all
  /\ t.at = "truncate" => t.since = {}

(* dcheck has read a line of each, and has shown as active each line before*)
(* its own of a daemon that worked all along.                              *)
Surveys(t) ==
  t.at \in {"check", "shown"} =>
    /\ Lined(t.list, t.since)
    /\ \A j \in DOMAIN t.list : t.list[j].pid \in t.since /\ j < t.i => j \in t.active
    /\ t.at = "shown" => t.i > Len(t.list)

Sees(t, W) == t.since \subseteq W /\ Chases(t) /\ Surveys(t)

WInv ==
  /\ TInv /\ Placed /\ Lined(reg, Working \ late)
  /\ \A k \in Killer : Sees(tool[k], Working)

(***************************************************************************)
(* Of each tool.                                                           *)
(***************************************************************************)
LEMMA IdleSees ==
  ASSUME NEW t, t.at \in {"idle", "ensure"}, NEW W, t.since \subseteq W
  PROVE  Sees(t, W)
BY DEF Sees, Chases, Surveys

LEMMA MoreSees ==
  ASSUME NEW t, NEW W, NEW V, W \subseteq V, Sees(t, W)
  PROVE  Sees(t, V)
BY DEF Sees

(* The same tool with fewer daemons to look for. *)
LEMMA FewerSees ==
  ASSUME NEW t \in Tool, NEW u \in Tool, NEW W, NEW V,
         Sees(t, W), u.at = t.at, u.list = t.list, u.active = t.active, u.i = t.i,
         u.all = t.all, u.since \subseteq t.since, u.since \subseteq V
  PROVE  Sees(u, V)
<1>1. Pending(u) = Pending(t)
  BY DEF Pending
<1>2. Chases(u)
  BY <1>1 DEF Sees, Chases
<1>3. Surveys(u)
  BY DEF Sees, Surveys, Lined
<1> QED  BY <1>2, <1>3 DEF Sees

(* What is left to do after a line is what was left but that line. *)
LEMMA FollowingSees ==
  ASSUME NEW t \in Tool, ToolOK(t), t.at \in {"kill", "append"}, NEW W,
         Sees(t, W), \A p \in t.since : t.at = "kill" => t.list[t.i].pid # p
  PROVE  Sees(Following(t), W)
<1> DEFINE u == Following(t)
<1> SUFFICES Sees(u, W)
  OBVIOUS
<1>1. /\ ToolOK(u) /\ u \in Tool /\ u.since \subseteq t.since
      /\ u.at \in {"idle", "kill", "truncate"}
      /\ t.all => /\ u.all /\ u.list = t.list /\ u.active = t.active
                  /\ u.at = "kill" => \A j \in t.active : j > t.i => j >= u.i
                  /\ u.at = "truncate" => \A j \in t.active : ~(j > t.i)
                  /\ u.at # "idle"
      /\ ~t.all => u = Idle
  BY FollowingIs DEF ToolOK
<1>2. u.since \subseteq W
  BY <1>1 DEF Sees
<1>3. CASE ~t.all
  BY <1>1, <1>2, <1>3, IdleIs, IdleSees
<1>4. CASE t.all
  <2>1. \A p \in t.since : \E j \in Pending(t) : t.list[j].pid = p
    BY <1>4 DEF Sees, Chases
  <2>2. t.i \in Nat /\ u.i \in Nat /\ t.active \subseteq Nat
    BY <1>1 DEF Tool
  <2> HIDE DEF u
  <2>3. \A p \in t.since : \E j \in t.active : j > t.i /\ t.list[j].pid = p
    BY <2>1, <2>2 DEF Pending
  <2>4. CASE u.at = "kill"
    <3>1. \A p \in u.since : \E j \in Pending(u) : u.list[j].pid = p
      <4> SUFFICES ASSUME NEW p \in u.since  PROVE \E j \in Pending(u) : u.list[j].pid = p
        OBVIOUS
      <4>1. PICK j \in t.active : j > t.i /\ t.list[j].pid = p
        BY <1>1, <2>3
      <4>2. j >= u.i /\ j \in u.active /\ j \in Nat
        BY <1>1, <1>4, <2>2, <2>4, <4>1
      <4>3. j > u.i \/ j = u.i
        BY <2>2, <4>2
      <4> QED  BY <1>1, <1>4, <2>4, <4>1, <4>2, <4>3 DEF Pending
    <3> QED  BY <1>2, <2>4, <3>1 DEF Sees, Chases, Surveys
  <2>5. CASE u.at = "truncate"
    <3>1. u.since = {}
      BY <1>1, <1>4, <2>3, <2>5
    <3> QED  BY <2>5, <3>1 DEF Sees, Chases, Surveys
  <2> QED  BY <1>1, <1>4, <2>4, <2>5
<1> QED  BY <1>3, <1>4

(* A killed daemon works no longer; the others are further down. *)
LEMMA KilledSees ==
  ASSUME NEW t \in Tool, NEW u \in Tool, t.at = "kill", u.at = "read", u.list = t.list,
         u.active = t.active, u.i = t.i, u.all = t.all,
         u.since = t.since \ {t.list[t.i].pid}, NEW W, NEW V, Sees(t, W),
         u.since \subseteq V
  PROVE  Sees(u, V)
<1>1. t.all => \A p \in t.since : \E j \in Pending(t) : t.list[j].pid = p
  BY DEF Sees, Chases
<1>2. ASSUME t.all, NEW p \in u.since
      PROVE  \E j \in Pending(u) : u.list[j].pid = p
  <2>1. PICK j \in Pending(t) : t.list[j].pid = p
    BY <1>1, <1>2
  <2>2. j # t.i
    BY <1>2, <2>1
  <2> QED  BY <2>1, <2>2 DEF Pending
<1> QED  BY <1>2 DEF Sees, Chases, Surveys

LEMMA LookSees ==
  ASSUME NEW t \in Tool, t.at = "check", Sees(t, Working)
  PROVE  Sees(Look(t), Working)
<1> DEFINE u == Look(t)
<1> SUFFICES Sees(u, Working)
  OBVIOUS
<1>1. /\ u \in Tool /\ u.list = t.list /\ u.since = t.since
      /\ Checked(t) => u.at = "shown" /\ u.i = t.i /\ u.active = t.active
      /\ ~Checked(t) => /\ u.at = "check" /\ u.i = t.i + 1
                        /\ u.active = IF proc[t.list[t.i].pid] = "free" THEN t.active
                                      ELSE t.active \cup {t.i}
  BY LookIs DEF ToolOK
<1>2. /\ t.since \subseteq Working /\ t.i \in Nat /\ t.list \in Seq(Entry)
      /\ Lined(t.list, t.since)
      /\ \A j \in DOMAIN t.list : t.list[j].pid \in t.since /\ j < t.i => j \in t.active
  BY DEF Sees, Surveys, Tool
<1> HIDE DEF u
<1>3. CASE Checked(t)
  <2>1. t.i > Len(t.list)
    BY <1>2, <1>3 DEF Checked
  <2> QED  BY <1>1, <1>2, <1>3, <2>1 DEF Sees, Chases, Surveys
<1>4. CASE ~Checked(t)
  <2>1. ASSUME NEW j \in DOMAIN t.list, t.list[j].pid \in t.since, j < u.i
        PROVE  j \in u.active
    <3>1. CASE j < t.i
      BY <1>1, <1>2, <1>4, <2>1, <3>1
    <3>2. CASE j = t.i
      <4>1. proc[t.list[j].pid] = "work"
        BY <1>2, <2>1 DEF Working
      <4> QED  BY <1>1, <1>2, <1>4, <3>2, <4>1
    <3>3. j \in Nat /\ j < t.i + 1
      BY <1>1, <1>2, <1>4, <2>1
    <3> QED  BY <1>2, <3>1, <3>2, <3>3
  <2> QED  BY <1>1, <1>2, <1>4, <2>1 DEF Sees, Chases, Surveys
<1> QED  BY <1>3, <1>4

(* A process is in ensure_daemon_files() only as a dspawn before it forks. *)
LEMMA NextPlaced ==
  ASSUME TInv, Placed, [Next]_vars
  PROVE  Placed'
<1>T. /\ ensure \in [Pid \cup Killer -> Ensuring] /\ proc \in [Pid -> Use]
      /\ Pid \cap Killer = {}
  BY DaemonAssumption DEF TInv, TypeOK
<1>P. \A p \in Pid : ensure[p] # "none" => proc[p] = "ensure"
  BY DEF Placed
<1>0. CASE UNCHANGED <<ensure, proc>>
  BY <1>0, <1>P DEF Placed
<1>1. ASSUME NEW x \in Pid \cup Killer, EnsureStat(x) \/ EnsureMkdir(x) \/ EnsureFile(x)
      PROVE  Placed'
  <2>1. ensure[x] # "none" /\ proc' = proc
    BY <1>1 DEF EnsureStat, EnsureMkdir, EnsureFile
  <2>2. \A y \in Pid : y # x => ensure'[y] = ensure[y]
    BY <1>1, <1>T DEF EnsureStat, EnsureMkdir, EnsureFile
  <2> QED  BY <1>P, <2>1, <2>2 DEF Placed
<1>2. ASSUME NEW x \in Pid \cup Killer, EnsureFails(x)  PROVE Placed'
  BY <1>2, <1>T, <1>P DEF EnsureFails, Placed
<1>3. ASSUME NEW p \in Pid,
             Dspawn(p) \/ DaemonSpawn(p) \/ RegisterRead(p) \/ RegisterAppend(p)
               \/ OtherStarts(p) \/ Ends(p)
      PROVE  Placed'
  BY <1>3, <1>T, <1>P DEF Dspawn, DaemonSpawn, RegisterRead, RegisterAppend, OtherStarts,
                          Ends, Placed
<1>4. ASSUME NEW k \in Killer, StartTool(k) \/ LoadActive(k) \/ DcheckRead(k)
      PROVE  Placed'
  <2>1. proc' = proc /\ \A p \in Pid : ensure'[p] = ensure[p]
    BY <1>4, <1>T DEF StartTool, LoadActive, DcheckRead, Ensured
  <2> QED  BY <1>P, <2>1 DEF Placed
<1>5. ASSUME NEW k \in Killer, KillOne(k)  PROVE Placed'
  <2> DEFINE p == Listed(k).pid
  <2>1. \/ UNCHANGED <<proc, ensure>>
        \/ proc' = [proc EXCEPT ![p] = "free"] /\ ensure' = [ensure EXCEPT ![p] = "none"]
    BY <1>5 DEF KillOne
  <2> HIDE DEF p
  <2> QED  BY <1>T, <1>P, <2>1 DEF Placed
<1>6. ASSUME NEW k \in Killer,
             Answer(k) \/ BuryRead(k) \/ BuryAppend(k) \/ Truncate(k) \/ DcheckEntry(k)
               \/ DcheckGraveyard(k)
      PROVE  UNCHANGED <<ensure, proc>>
  BY <1>6 DEF Answer, BuryRead, BuryAppend, Truncate, DcheckEntry, DcheckGraveyard
<1>7. CASE UNCHANGED vars
  BY <1>0, <1>7 DEF vars
<1> QED  BY <1>0, <1>1, <1>2, <1>3, <1>4, <1>5, <1>6, <1>7 DEF Next

(* A step that neither adds a line nor a daemon that works. *)
LEMMA Dwindles ==
  ASSUME WInv, TInv', Placed', reg' = reg, Working' \ late' \subseteq Working \ late,
         \A k \in Killer : Sees(tool'[k], Working')
  PROVE  WInv'
BY DEF WInv, Lined

(* A step of one tool. *)
LEMMA OneSees ==
  ASSUME WInv, TInv', Placed', UNCHANGED <<reg, proc, late>>, NEW k \in Killer, NEW t,
         Sees(t, Working), tool' = [tool EXCEPT ![k] = t]
  PROVE  WInv'
<1>1. tool \in [Killer -> Tool]
  BY DEF WInv, TInv, TypeOK
<1>2. Working' = Working
  BY DEF Working
<1>3. ASSUME NEW l \in Killer  PROVE Sees(tool'[l], Working')
  <2>1. CASE l = k
    BY <1>1, <1>2, <2>1
  <2>2. CASE l # k
    <3>1. tool'[l] = tool[l]
      BY <1>1, <2>2
    <3> QED  BY <1>2, <3>1 DEF WInv
  <2> QED  BY <2>1, <2>2
<1> QED  BY <1>2, <1>3, Dwindles

(* A process ends. *)
LEMMA GoneSees ==
  ASSUME TInv, NEW p, \A k \in Killer : Sees(tool[k], Working)
  PROVE  \A k \in Killer : Sees(Gone(p)[k], Working \ {p})
<1> SUFFICES ASSUME NEW k \in Killer  PROVE Sees(Gone(p)[k], Working \ {p})
  OBVIOUS
<1> DEFINE u == Gone(p)[k]
<1>1. /\ u \in Tool /\ u.at = tool[k].at /\ u.list = tool[k].list
      /\ u.active = tool[k].active /\ u.i = tool[k].i /\ u.all = tool[k].all
      /\ u.since = tool[k].since \ {p}
  BY GoneIs
<1>2. tool[k] \in Tool /\ Sees(tool[k], Working)
  BY DEF TInv, TypeOK
<1>3. u.since \subseteq Working \ {p}
  BY <1>1, <1>2 DEF Sees
<1> HIDE DEF u
<1>4. Sees(u, Working \ {p})
  BY <1>1, <1>2, <1>3, FewerSees
<1> QED  BY <1>4 DEF u

LEMMA InitWInv == Init => WInv
<1> SUFFICES ASSUME Init  PROVE WInv
  OBVIOUS
<1>1. Placed /\ Working = {}
  BY DEF Init, Placed, Working
<1>2. \A k \in Killer : tool[k] = Idle
  BY DEF Init
<1>3. \A k \in Killer : Sees(tool[k], Working)
  BY <1>2, IdleIs, IdleSees
<1>4. Lined(reg, Working \ late)
  BY <1>1 DEF Lined
<1> QED  BY <1>1, <1>3, <1>4, InitTInv DEF WInv

(* The steps of daemons and of other programs, and ensure_daemon_files(). *)
LEMMA ProcessSteps ==
  ASSUME WInv, TInv', Placed',
         \/ UNCHANGED <<reg, proc, tool, late>>
         \/ \E x \in Pid \cup Killer : EnsureFails(x)
         \/ \E p \in Pid : Dspawn(p) \/ DaemonSpawn(p) \/ RegisterRead(p) \/ RegisterAppend(p)
                             \/ OtherStarts(p) \/ Ends(p)
  PROVE  WInv'
<1>T. /\ TInv /\ ensure \in [Pid \cup Killer -> Ensuring] /\ proc \in [Pid -> Use]
      /\ tool \in [Killer -> Tool] /\ reg \in Seq(Entry) /\ count \in [Pid -> Nat]
  BY DEF WInv, TInv, TypeOK
<1>S. \A k \in Killer : Sees(tool[k], Working)
  BY DEF WInv
<1>0. CASE UNCHANGED <<reg, proc, tool, late>>
  <2>1. Working' = Working
    BY <1>0 DEF Working
  <2> QED  BY <1>0, <1>S, <2>1, Dwindles
<1>1. ASSUME NEW x \in Pid \cup Killer, EnsureFails(x)  PROVE WInv'
  <2>1. proc' = [p \in Pid |-> IF p = x THEN "free" ELSE proc[p]]
        /\ tool' = [k \in Killer |-> IF k = x THEN Idle ELSE tool[k]]
        /\ reg' = reg /\ late' = late
    BY <1>1 DEF EnsureFails, files, history
  <2>2. x \in Pid => proc[x] = "ensure"
    BY <1>1 DEF EnsureFails, WInv, Placed
  <2>3. Working' = Working
    BY <1>T, <2>1, <2>2 DEF Working
  <2>4. ASSUME NEW k \in Killer  PROVE Sees(tool'[k], Working')
    BY <1>S, <2>1, <2>3, IdleIs, IdleSees
  <2> QED  BY <2>1, <2>3, <2>4, Dwindles
<1>2. ASSUME NEW p \in Pid, Dspawn(p) \/ OtherStarts(p) \/ DaemonSpawn(p) \/ RegisterRead(p)
      PROVE  WInv'
  <2>1. reg' = reg /\ tool' = tool /\ late' = late
    BY <1>2 DEF Dspawn, OtherStarts, DaemonSpawn, RegisterRead, files, history
  <2>2. Working' = Working
    BY <1>2, <1>T DEF Dspawn, OtherStarts, DaemonSpawn, RegisterRead, Working
  <2> QED  BY <1>S, <2>1, <2>2, Dwindles
<1>3. ASSUME NEW p \in Pid, RegisterAppend(p)  PROVE WInv'
  <2> DEFINE line == [name |-> Suffixed(<<>>, count[p]), pid |-> p]
  <2>1. line \in Entry /\ line.pid = p
    BY <1>T DEF Entry, Name, Suffixed
  <2>2. reg' = Append(reg, line) /\ tool' = tool /\ late' = late
    BY <1>3 DEF RegisterAppend
  <2> HIDE DEF line
  <2>3. /\ reg'[Len(reg) + 1] = line /\ Len(reg) + 1 \in DOMAIN reg'
        /\ \A j \in DOMAIN reg : j \in DOMAIN reg' /\ reg'[j] = reg[j]
    BY <1>T, <2>1, <2>2
  <2>4. Working' = Working \cup {p}
    BY <1>3, <1>T DEF RegisterAppend, Working
  <2>5. \A k \in Killer : Sees(tool'[k], Working')
    BY <1>S, <2>2, <2>4, MoreSees
  <2>6. Lined(reg, Working \ late)'
    <3> SUFFICES ASSUME NEW q \in (Working \ late)'
                 PROVE  \E j \in DOMAIN reg' : reg'[j].pid = q
      BY DEF Lined
    <3>1. CASE q = p
      BY <2>1, <2>3, <3>1
    <3>2. CASE q \in Working \ late
      BY <2>3, <3>2 DEF WInv, Lined
    <3> QED  BY <2>2, <2>4, <3>1, <3>2
  <2> QED  BY <2>5, <2>6 DEF WInv
<1>4. ASSUME NEW p \in Pid, Ends(p)  PROVE WInv'
  <2>1. reg' = reg /\ tool' = Gone(p) /\ late' = late \ {p}
    BY <1>4 DEF Ends, files
  <2>2. Working' = Working \ {p}
    BY <1>4, <1>T DEF Ends, Working
  <2>3. \A k \in Killer : Sees(tool'[k], Working')
    BY <1>T, <1>S, <2>1, <2>2, GoneSees
  <2>4. Working' \ late' \subseteq Working \ late
    BY <2>1, <2>2
  <2> QED  BY <2>1, <2>3, <2>4, Dwindles
<1> QED  BY <1>0, <1>1, <1>2, <1>3, <1>4

(* The steps of dkill and dcheck. *)
LEMMA ToolSteps ==
  ASSUME WInv, TInv', Placed', NEW k \in Killer,
         \/ StartTool(k) \/ LoadActive(k) \/ Answer(k) \/ KillOne(k)
         \/ BuryRead(k) \/ BuryAppend(k) \/ Truncate(k)
         \/ DcheckRead(k) \/ DcheckEntry(k) \/ DcheckGraveyard(k)
  PROVE  WInv'
<1>T. /\ TInv /\ proc \in [Pid -> Use] /\ tool \in [Killer -> Tool] /\ reg \in Seq(Entry)
      /\ tool[k] \in Tool /\ ToolOK(tool[k])
  BY DEF WInv, TInv, TypeOK
<1>S. \A l \in Killer : Sees(tool[l], Working)
  BY DEF WInv
<1>I. Sees(Idle, Working)
  BY IdleIs, IdleSees
<1>1. CASE StartTool(k)
  <2> DEFINE u == [tool[k] EXCEPT !.at = "ensure"]
  <2>1. tool' = [tool EXCEPT ![k] = u] /\ UNCHANGED <<reg, proc, late>>
    BY <1>1 DEF StartTool, files, history
  <2>2. u.at = "ensure" /\ u.since = tool[k].since
    BY <1>T DEF Tool
  <2>3. u.since \subseteq Working
    BY <1>S, <2>2 DEF Sees
  <2> HIDE DEF u
  <2>4. Sees(u, Working)
    BY <2>2, <2>3, IdleSees
  <2> QED  BY <2>1, <2>4, OneSees
<1>2. CASE LoadActive(k)
  <2> DEFINE S == {p \in Working : \E i \in Loaded : reg[i].pid = p}
             u == [Idle EXCEPT !.at = "ask", !.list = reg, !.active = Loaded, !.since = S]
             t == IF Loaded = {} THEN Idle ELSE u
  <2>1. tool' = [tool EXCEPT ![k] = t] /\ UNCHANGED <<reg, proc, late>>
    BY <1>2 DEF LoadActive, files, history
  <2>2. \A p \in S : \E j \in Loaded : reg[j].pid = p
    OBVIOUS
  <2>3. S \subseteq Working
    OBVIOUS
  <2> HIDE DEF S
  <2>4. u.at = "ask" /\ u.list = reg /\ u.active = Loaded /\ ~u.all /\ u.since = S
    BY DEF Idle
  <2> HIDE DEF u
  <2>5. \A p \in u.since : \E j \in Pending(u) : u.list[j].pid = p
    BY <2>2, <2>4 DEF Pending
  <2>6. Sees(u, Working)
    BY <2>3, <2>4, <2>5 DEF Sees, Chases, Surveys
  <2>7. Sees(t, Working)
    BY <1>I, <2>6
  <2> HIDE DEF t
  <2> QED  BY <2>1, <2>7, OneSees
<1>3. CASE Answer(k)
  <2> DEFINE t == tool[k]
  <2>1. /\ UNCHANGED <<reg, proc, late>> /\ t.at = "ask" /\ t \in Tool /\ t.active # {}
        /\ t.active \subseteq Nat /\ Sees(t, Working)
    BY <1>3, <1>T, <1>S DEF Answer, files, history, Tool, ToolOK
  <2>2. t.since \subseteq Working /\ ~t.all
        /\ \A p \in t.since : \E j \in Pending(t) : t.list[j].pid = p
    BY <2>1 DEF Sees, Chases
  <2>3. CASE tool' = [tool EXCEPT ![k] = Idle]
    BY <1>I, <2>1, <2>3, OneSees
  <2>4. CASE tool' = [tool EXCEPT ![k].at = "kill", ![k].i = Min(tool[k].active),
                                  ![k].all = TRUE]
    <3> DEFINE m == Min(tool[k].active)
               u == [tool[k] EXCEPT !.at = "kill", !.i = m, !.all = TRUE]
    <3>1. m \in t.active /\ \A j \in t.active : m <= j
      BY <2>1, MinIs
    <3>2. tool' = [tool EXCEPT ![k] = u]
      BY <2>4
    <3> HIDE DEF m
    <3>3. /\ u.at = "kill" /\ u.i = m /\ u.all /\ u.list = t.list /\ u.active = t.active
          /\ u.since = t.since
      BY <2>1 DEF Tool
    <3> HIDE DEF u
    <3>4. ASSUME NEW p \in u.since  PROVE \E j \in Pending(u) : u.list[j].pid = p
      <4>1. PICK j \in Pending(t) : t.list[j].pid = p
        BY <2>2, <3>3
      <4>2. j \in t.active /\ m \in Nat /\ j \in Nat /\ m <= j
        BY <2>1, <3>1, <4>1 DEF Pending
      <4>3. j > m \/ j = m
        BY <4>2
      <4> QED  BY <3>3, <4>1, <4>2, <4>3 DEF Pending
    <3>5. Sees(u, Working)
      BY <2>2, <3>3, <3>4 DEF Sees, Chases, Surveys
    <3> QED  BY <2>1, <3>2, <3>5, OneSees
  <2>5. ASSUME NEW i \in tool[k].active,
               tool' = [tool EXCEPT ![k].at = "kill", ![k].i = i]
        PROVE  WInv'
    <3> DEFINE u == [tool[k] EXCEPT !.at = "kill", !.i = i]
    <3>1. tool' = [tool EXCEPT ![k] = u]
      BY <2>5
    <3>2. u.at = "kill" /\ u.all = t.all /\ u.since = t.since
      BY <2>1 DEF Tool
    <3> HIDE DEF u
    <3>3. Sees(u, Working)
      BY <2>2, <3>2 DEF Sees, Chases, Surveys
    <3> QED  BY <2>1, <3>1, <3>3, OneSees
  <2> QED  BY <1>3, <2>3, <2>4, <2>5 DEF Answer
<1>4. CASE KillOne(k)
  <2> DEFINE p == Listed(k).pid
  <2>1. tool[k].at = "kill" /\ reg' = reg /\ Sees(tool[k], Working)
    BY <1>4, <1>S DEF KillOne, files
  <2>2. p = tool[k].list[tool[k].i].pid
    BY DEF Listed
  <2>3. CASE proc[p] = "free"
    <3>1. tool' = [tool EXCEPT ![k] = Following(tool[k])] /\ proc' = proc /\ late' = late
      BY <1>4, <2>3, <1>T DEF KillOne
    <3>2. \A q \in tool[k].since : p # q
      BY <2>1, <2>3 DEF Sees, Working
    <3>3. Sees(Following(tool[k]), Working)
      BY <1>T, <2>1, <2>2, <3>2, FollowingSees
    <3> QED  BY <2>1, <3>1, <3>3, OneSees
  <2>4. CASE proc[p] # "free"
    <3> DEFINE g == Gone(p)
               u == [g[k] EXCEPT !.at = "read"]
    <3>1. proc' = [proc EXCEPT ![p] = "free"] /\ tool' = [g EXCEPT ![k] = u]
          /\ late' = late \ {p}
      BY <1>4, <2>4 DEF KillOne
    <3> HIDE DEF p
    <3>2. /\ g \in [Killer -> Tool]
          /\ \A l \in Killer : /\ g[l].list = tool[l].list /\ g[l].active = tool[l].active
                              /\ g[l].i = tool[l].i /\ g[l].all = tool[l].all
                              /\ g[l].since = tool[l].since \ {p}
      BY <1>T, GoneIs
    <3>3. Working' = Working \ {p}
      BY <1>T, <3>1 DEF Working
    <3>4. \A l \in Killer : Sees(g[l], Working')
      BY <1>T, <1>S, <3>3, GoneSees
    <3> HIDE DEF g
    <3>5. /\ u \in Tool /\ u.at = "read" /\ u.list = tool[k].list
          /\ u.active = tool[k].active /\ u.i = tool[k].i /\ u.all = tool[k].all
          /\ u.since = tool[k].since \ {p}
      BY <3>2 DEF Tool, Step
    <3>6. u.since \subseteq Working'
      BY <2>1, <3>3, <3>5 DEF Sees
    <3> HIDE DEF u
    <3>7. Sees(u, Working')
      BY <1>T, <2>1, <2>2, <3>5, <3>6, KilledSees
    <3>8. \A l \in Killer : Sees(tool'[l], Working')
      BY <3>1, <3>2, <3>4, <3>7
    <3>9. Working' \ late' \subseteq Working \ late
      BY <3>1, <3>3
    <3> QED  BY <2>1, <3>8, <3>9, Dwindles
  <2> QED  BY <2>3, <2>4
<1>5. CASE BuryRead(k)
  <2> DEFINE c == Count(graves, Listed(k).name)
             u == [tool[k] EXCEPT !.at = "append", !.count = c]
  <2>1. tool[k].at = "read" /\ tool' = [tool EXCEPT ![k] = u]
        /\ UNCHANGED <<reg, proc, late>> /\ Sees(tool[k], Working)
    BY <1>5, <1>S DEF BuryRead, files, history
  <2> HIDE DEF c
  <2>2. u.at = "append" /\ u.list = tool[k].list /\ u.active = tool[k].active
        /\ u.i = tool[k].i /\ u.all = tool[k].all /\ u.since = tool[k].since
    BY <1>T DEF Tool
  <2> HIDE DEF u
  <2>3. Pending(u) = Pending(tool[k])
    BY <2>1, <2>2 DEF Pending
  <2>4. Sees(u, Working)
    BY <2>1, <2>2, <2>3 DEF Sees, Chases, Surveys
  <2> QED  BY <2>1, <2>4, OneSees
<1>6. CASE BuryAppend(k)
  <2> DEFINE t == [tool[k] EXCEPT !.count = 0]
  <2>1. tool[k].at = "append" /\ tool' = [tool EXCEPT ![k] = Following(t)]
        /\ UNCHANGED <<reg, proc, late>> /\ Sees(tool[k], Working)
    BY <1>6, <1>S, <1>T DEF BuryAppend, history
  <2>2. t \in Tool /\ t.at = "append" /\ t.list = tool[k].list
        /\ t.active = tool[k].active /\ t.i = tool[k].i /\ t.all = tool[k].all
        /\ t.since = tool[k].since
    BY <1>T, <2>1 DEF Tool
  <2> HIDE DEF t
  <2>3. ToolOK(t)
    BY <1>T, <2>1, <2>2 DEF ToolOK
  <2>4. Sees(t, Working)
    <3>1. t.since \subseteq Working
      BY <2>1, <2>2 DEF Sees
    <3> QED  BY <1>T, <2>1, <2>2, <3>1, FewerSees
  <2>5. Sees(Following(t), Working)
    BY <2>2, <2>3, <2>4, FollowingSees
  <2> QED  BY <2>1, <2>5, OneSees
<1>7. CASE Truncate(k)
  <2>1. tool[k].at = "truncate" /\ reg' = <<>> /\ tool' = [tool EXCEPT ![k] = Idle]
        /\ proc' = proc /\ late' = late \cup (Working \ tool[k].since)
    BY <1>7 DEF Truncate
  <2>2. tool[k].since = {}
    BY <1>S, <2>1 DEF Sees, Chases
  <2>3. Working' = Working
    BY <2>1 DEF Working
  <2>4. Lined(reg, Working \ late)'
    BY <2>1, <2>2, <2>3 DEF Lined
  <2>5. ASSUME NEW l \in Killer  PROVE Sees(tool'[l], Working')
    BY <1>I, <1>T, <1>S, <2>1, <2>3
  <2> QED  BY <2>4, <2>5 DEF WInv
<1>8. CASE DcheckRead(k)
  <2> DEFINE W == Working \ late
             u == [Idle EXCEPT !.at = "check", !.list = reg, !.i = 1, !.since = W]
  <2>1. tool' = [tool EXCEPT ![k] = u] /\ UNCHANGED <<reg, proc, late>>
    BY <1>8 DEF DcheckRead, files, history
  <2>2. Lined(reg, W) /\ W \subseteq Working
    BY DEF WInv
  <2> HIDE DEF W
  <2>3. u.at = "check" /\ u.list = reg /\ u.i = 1 /\ u.since = W
    BY DEF Idle
  <2> HIDE DEF u
  <2>4. Sees(u, Working)
    BY <1>T, <2>2, <2>3 DEF Sees, Chases, Surveys
  <2> QED  BY <2>1, <2>4, OneSees
<1>9. CASE DcheckEntry(k)
  <2>1. tool[k].at = "check" /\ tool' = [tool EXCEPT ![k] = Look(tool[k])]
        /\ UNCHANGED <<reg, proc, late>> /\ Sees(tool[k], Working)
    BY <1>9, <1>S DEF DcheckEntry, files, history
  <2>2. Sees(Look(tool[k]), Working)
    BY <1>T, <2>1, LookSees
  <2> QED  BY <2>1, <2>2, OneSees
<1>10. CASE DcheckGraveyard(k)
  <2>1. tool' = [tool EXCEPT ![k] = Idle] /\ UNCHANGED <<reg, proc, late>>
    BY <1>10 DEF DcheckGraveyard, files, history
  <2> QED  BY <1>I, <2>1, OneSees
<1> QED  BY <1>1, <1>2, <1>3, <1>4, <1>5, <1>6, <1>7, <1>8, <1>9, <1>10

LEMMA NextWInv == WInv /\ [Next]_vars => WInv'
<1> SUFFICES ASSUME WInv, [Next]_vars  PROVE WInv'
  OBVIOUS
<1>1. TInv' /\ Placed'
  BY NextTInv, NextPlaced DEF WInv
<1>2. CASE \/ UNCHANGED <<reg, proc, tool, late>>
           \/ \E x \in Pid \cup Killer : EnsureFails(x)
           \/ \E p \in Pid : \/ Dspawn(p) \/ DaemonSpawn(p) \/ RegisterRead(p)
                             \/ RegisterAppend(p) \/ OtherStarts(p) \/ Ends(p)
  BY <1>1, <1>2, ProcessSteps
<1>3. CASE \E k \in Killer :
             \/ StartTool(k) \/ LoadActive(k) \/ Answer(k) \/ KillOne(k)
             \/ BuryRead(k) \/ BuryAppend(k) \/ Truncate(k)
             \/ DcheckRead(k) \/ DcheckEntry(k) \/ DcheckGraveyard(k)
  BY <1>1, <1>3, ToolSteps
<1>4. ASSUME NEW x \in Pid \cup Killer, EnsureStat(x) \/ EnsureMkdir(x) \/ EnsureFile(x)
      PROVE  UNCHANGED <<reg, proc, tool, late>>
  BY <1>4 DEF EnsureStat, EnsureMkdir, EnsureFile, files, history
<1>5. CASE UNCHANGED vars
  BY <1>2, <1>5 DEF vars
<1> QED  BY <1>2, <1>3, <1>4, <1>5 DEF Next

(* A daemon that works is in the registry, unless a dkill that did not     *)
(* have it in its list emptied it: for any number of daemons and of tools  *)
(* at once, and whatever is killed, buried or truncated. *)
THEOREM RegisteredHolds == Spec => []Registered
<1>1. WInv => Registered
  BY DEF WInv, Lined, Registered
<1> QED  BY <1>1, InitWInv, NextWInv, PTL DEF Spec

(* dcheck shows each daemon whose line was there when it read the registry *)
(* and that has worked all the while as active, whatever else ends,        *)
(* whichever process ids are used again and whatever other tools write     *)
(* meanwhile. *)
THEOREM ReportedHolds == Spec => []Reported
<1>1. WInv => Reported
  <2> SUFFICES ASSUME WInv, NEW k \in Killer, tool[k].at = "shown", NEW p \in tool[k].since
               PROVE  LET lines == {i \in DOMAIN tool[k].list : tool[k].list[i].pid = p}
                      IN  lines # {} /\ lines \subseteq tool[k].active
    BY DEF Reported
  <2> DEFINE lines == {i \in DOMAIN tool[k].list : tool[k].list[i].pid = p}
  <2>1. tool[k] \in Tool
    BY DEF WInv, TInv, TypeOK
  <2>2. /\ Lined(tool[k].list, tool[k].since) /\ tool[k].i > Len(tool[k].list)
        /\ \A j \in DOMAIN tool[k].list :
             tool[k].list[j].pid = p /\ j < tool[k].i => j \in tool[k].active
    BY DEF WInv, Sees, Surveys
  <2>3. \E j \in DOMAIN tool[k].list : tool[k].list[j].pid = p
    BY <2>2 DEF Lined
  <2>4. tool[k].i \in Nat /\ Len(tool[k].list) \in Nat
        /\ DOMAIN tool[k].list = 1 .. Len(tool[k].list)
    BY <2>1 DEF Tool
  <2>5. \A j \in DOMAIN tool[k].list : j < tool[k].i
    BY <2>2, <2>4
  <2> QED  BY <2>2, <2>3, <2>5
<1> QED  BY <1>1, InitWInv, NextWInv, PTL DEF Spec
=============================================================================
