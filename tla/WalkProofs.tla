------------------------------ MODULE WalkProofs ------------------------------
(***************************************************************************)
(* A theorem about find, ld and ldr, for any trees and any names: EachOnce.*)
(*                                                                         *)
(* Nothing is listed twice because what a call on the stack has yet to     *)
(* list (Awaits) is never what was listed before it.  Everything is listed *)
(* because what is asked for is listed or awaited, until the stack is      *)
(* empty; that needs the directories on the way to be what they were when  *)
(* the program read them, which is an induction over the depth.            *)
(***************************************************************************)
EXTENDS Walk, NaturalsInduction, WellFoundedInduction, SequenceTheorems, TLAPS

(***************************************************************************)
(* Induction, without an operator for the formula.                         *)
(***************************************************************************)
LEMMA Induction ==
  ASSUME NEW S \in SUBSET Nat, 0 \in S, \A k \in S : k + 1 \in S
  PROVE  S = Nat
<1> DEFINE Less == {ss \in Nat \X Nat : ss[1] < ss[2]}
<1>1. IsWellFoundedOn(Less, Nat)
  BY NatLessThanWellFounded DEF OpToRel
<1>2. SUFFICES ASSUME Nat \ S # {}  PROVE FALSE
  OBVIOUS
<1>3. PICK x \in Nat \ S : \A y \in Nat \ S : <<y, x>> \notin Less
  <2> HIDE DEF Less
  <2> QED  BY <1>1, <1>2, WFMin
<1>4. x # 0 /\ x - 1 \in Nat /\ x - 1 < x
  OBVIOUS
<1>5. x - 1 \in S
  BY <1>3, <1>4
<1> QED  BY <1>3, <1>5

(***************************************************************************)
(* Depth is the function its definition says: there is one.                *)
(***************************************************************************)
Top == {[path |-> <<>>, node |-> Root, links |-> 0]}
Deeper(dirs) == {dir \in UNION {Below(d) : d \in dirs} : dir.links <= MaxLinks}
Builds(f, n) ==
  f = [k \in 0 .. n |-> IF k = 0 THEN Top ELSE Deeper(f[k - 1])]

Stepwise == \A k \in 0 .. MaxPath : Depth[k] = IF k = 0 THEN Top ELSE Deeper(Depth[k - 1])

LEMMA DepthStepwise == Stepwise
<1> DEFINE S == {n \in Nat : \E f : Builds(f, n)}
<1>1. 0 \in S
  <2> DEFINE f == [k \in 0 .. 0 |-> Top]
  <2>1. Builds(f, 0)
    BY DEF Builds
  <2> QED  BY <2>1
<1>2. ASSUME NEW n \in S  PROVE n + 1 \in S
  <2>1. PICK f : Builds(f, n)
    OBVIOUS
  <2> DEFINE g == [k \in 0 .. n + 1 |-> IF k = n + 1 THEN Deeper(f[n]) ELSE f[k]]
  <2>2. \A k \in 0 .. n : f[k] = (IF k = 0 THEN Top ELSE Deeper(f[k - 1])) /\ g[k] = f[k]
    BY <2>1 DEF Builds
  <2>3. \A k \in 0 .. n + 1 : g[k] = IF k = 0 THEN Top ELSE Deeper(g[k - 1])
    BY <2>2
  <2>4. Builds(g, n + 1)
    BY <2>3 DEF Builds
  <2> QED  BY <2>4
<1>3. MaxPath \in S
  <2> HIDE DEF S
  <2>1. S \in SUBSET Nat
    BY DEF S
  <2> QED  BY <1>1, <1>2, <2>1, Induction, WalkAssumption
<1>4. PICK f : Builds(f, MaxPath)
  BY <1>3
<1>5. Builds(Depth, MaxPath)
  BY <1>4 DEF Builds, Depth, Top, Deeper
<1> QED  BY <1>5 DEF Builds, Stepwise

LEMMA DepthIs ==
  \A k \in 0 .. MaxPath : Depth[k] = IF k = 0 THEN Top ELSE Deeper(Depth[k - 1])
BY DepthStepwise DEF Stepwise

(***************************************************************************)
(* The directories of Levels.                                              *)
(***************************************************************************)
Directories == [path : Seq(Name), node : Node, links : Nat]

(* A directory below another one. *)
Child(d, name, dir) ==
  /\ name \in Stay(d.node) /\ name \in Name
  /\ Descends(program, name, tree.kids[d.node][name])
  /\ IsDir(Follow(tree.kids[d.node][name]))
  /\ dir.path = Append(d.path, name) /\ dir.node = Follow(tree.kids[d.node][name])
  /\ dir.links = d.links + IF tree.kind[tree.kids[d.node][name]] = "link" THEN 1 ELSE 0

LEMMA KidsOf ==
  ASSUME tree \in Trees, NEW n \in Node
  PROVE  /\ DOMAIN tree.kids[n] \subseteq Name
         /\ \A m \in DOMAIN tree.kids[n] :
              tree.kids[n][m] \in Node /\ Follow(tree.kids[n][m]) \in Node
         /\ tree.kids \in [Node -> Entries(Name)]
<1>1. /\ tree.kids \in [Node -> Entries(Name)] /\ tree.target \in [Node -> Node]
  BY WalkAssumption
<1>2. tree.kids[n] \in Entries(Name)
  BY <1>1
<1>3. PICK N \in SUBSET Name : tree.kids[n] \in [N -> Node]
  BY <1>2 DEF Entries
<1>4. DOMAIN tree.kids[n] = N /\ \A m \in N : tree.kids[n][m] \in Node
  BY <1>3
<1> QED  BY <1>1, <1>4 DEF Follow

LEMMA BelowIs ==
  ASSUME tree \in Trees, NEW d \in Directories, NEW dir \in Below(d)
  PROVE  dir \in Directories /\ \E name : Child(d, name, dir)
<1>1. d.node \in Node /\ d.path \in Seq(Name) /\ d.links \in Nat
  BY DEF Directories
<1>2. PICK name \in {m \in Stay(d.node) :
                 /\ Descends(program, m, tree.kids[d.node][m])
                 /\ IsDir(Follow(tree.kids[d.node][m]))} :
        dir = [path |-> Append(d.path, name), node |-> Follow(tree.kids[d.node][name]),
               links |-> d.links + IF tree.kind[tree.kids[d.node][name]] = "link" THEN 1 ELSE 0]
  BY DEF Below
<1>3. name \in Name /\ Follow(tree.kids[d.node][name]) \in Node
  BY <1>1, <1>2, KidsOf DEF Stay
<1>4. Append(d.path, name) \in Seq(Name)
  BY <1>1, <1>3
<1>5. d.links + (IF tree.kind[tree.kids[d.node][name]] = "link" THEN 1 ELSE 0) \in Nat
  BY <1>1
<1>6. dir \in Directories
  BY <1>2, <1>3, <1>4, <1>5 DEF Directories
<1>7. Child(d, name, dir)
  BY <1>2, <1>3 DEF Child
<1> QED  BY <1>6, <1>7

LEMMA TopIs == Top \subseteq Directories /\ \A d \in Top : d.path = <<>> /\ d.node = Root /\ d.links = 0
<1>1. <<>> \in Seq(Name) /\ Root \in Node
  BY WalkAssumption
<1> QED  BY <1>1 DEF Top, Directories

LEMMA DepthTyped ==
  ASSUME tree \in Trees
  PROVE  \A k \in 0 .. MaxPath : \A dir \in Depth[k] :
           dir \in Directories /\ Len(dir.path) = k
<1> DEFINE S == {k \in Nat : k <= MaxPath =>
                   \A dir \in Depth[k] : dir \in Directories /\ Len(dir.path) = k}
<1>0. MaxPath \in Nat
  BY WalkAssumption
<1>1. 0 \in S
  <2>1. Depth[0] = Top
    BY <1>0, DepthIs
  <2> QED  BY <2>1, TopIs
<1>2. ASSUME NEW k \in S  PROVE k + 1 \in S
  <2>1. SUFFICES ASSUME k + 1 <= MaxPath, NEW dir \in Depth[k + 1]
                 PROVE  dir \in Directories /\ Len(dir.path) = k + 1
    OBVIOUS
  <2>2. k \in 0 .. MaxPath /\ k + 1 \in 0 .. MaxPath /\ k + 1 # 0 /\ (k + 1) - 1 = k
    BY <2>1, <1>0
  <2>3. Depth[k + 1] = Deeper(Depth[k])
    BY <2>2, DepthIs
  <2>4. PICK d \in Depth[k] : dir \in Below(d)
    BY <2>1, <2>3 DEF Deeper
  <2>5. d \in Directories /\ Len(d.path) = k
    BY <2>2
  <2>6. PICK name : dir \in Directories /\ Child(d, name, dir)
    BY <2>4, <2>5, BelowIs
  <2>7. d.path \in Seq(Name) /\ name \in Name /\ dir.path = Append(d.path, name)
    BY <2>5, <2>6 DEF Child, Directories
  <2> QED  BY <2>5, <2>6, <2>7
<1>3. S = Nat
  <2> HIDE DEF S
  <2>1. S \in SUBSET Nat
    BY DEF S
  <2> QED  BY <1>1, <1>2, <2>1, Induction
<1> QED  BY <1>3

(* A directory of Levels is the first one, or below another of them. *)
LEMMA LevelsAre ==
  ASSUME tree \in Trees
  PROVE  /\ Levels \subseteq Directories
         /\ \A dir \in Levels :
              \/ dir.path = <<>> /\ dir.node = Root /\ dir.links = 0
              \/ dir.links <= MaxLinks /\ \E d \in Levels : \E name : Child(d, name, dir)
<1>1. SUFFICES ASSUME NEW dir \in Levels
               PROVE  /\ dir \in Directories
                      /\ \/ dir.path = <<>> /\ dir.node = Root /\ dir.links = 0
                         \/ dir.links <= MaxLinks /\ \E d \in Levels : \E name : Child(d, name, dir)
  OBVIOUS
<1>2. PICK k \in 0 .. MaxPath : dir \in Depth[k]
  BY DEF Levels
<1>3. dir \in Directories
  BY <1>2, DepthTyped
<1>4. CASE k = 0
  BY <1>2, <1>3, <1>4, DepthIs, TopIs
<1>5. CASE k # 0
  <2>1. MaxPath \in Nat
    BY WalkAssumption
  <2>2. k - 1 \in 0 .. MaxPath
    BY <1>5, <2>1
  <2>3. dir \in Deeper(Depth[k - 1])
    BY <1>2, <1>5, DepthIs
  <2>4. PICK d \in Depth[k - 1] : dir \in Below(d) /\ dir.links <= MaxLinks
    BY <2>3 DEF Deeper
  <2>5. d \in Levels /\ d \in Directories
    BY <2>2, <2>4, DepthTyped DEF Levels
  <2> QED  BY <1>3, <2>4, <2>5, BelowIs
<1> QED  BY <1>4, <1>5

LEMMA LinksFew ==
  ASSUME tree \in Trees, NEW dir \in Levels
  PROVE  dir.links <= MaxLinks
<1>1. MaxLinks \in Nat
  BY WalkAssumption
<1> QED  BY <1>1, LevelsAre

(* The directories on the way to one of Levels. *)
Prefix(d, path, n) ==
  /\ Len(d.path) = n /\ \A k \in 1 .. n : d.path[k] = path[k]
  /\ path[n + 1] \in Stay(d.node)

LEMMA OnTheWay ==
  ASSUME tree \in Trees
  PROVE  \A dir \in Levels : \A n \in Nat :
           n < Len(dir.path) => \E d \in Levels : Prefix(d, dir.path, n)
<1> DEFINE S == {k \in Nat : \A dir \in Levels : Len(dir.path) = k =>
                   \A n \in Nat : n < k => \E d \in Levels : Prefix(d, dir.path, n)}
<1>1. 0 \in S
  OBVIOUS
<1>2. ASSUME NEW k \in S  PROVE k + 1 \in S
  <2>1. SUFFICES ASSUME NEW dir \in Levels, Len(dir.path) = k + 1, NEW n \in Nat, n < k + 1
                 PROVE  \E d \in Levels : Prefix(d, dir.path, n)
    OBVIOUS
  <2>2. dir.path # <<>>
    BY <2>1
  <2>3. PICK d \in Levels : \E m : Child(d, m, dir)
    BY <2>2, LevelsAre
  <2>4. PICK name : Child(d, name, dir)
    BY <2>3
  <2>5. /\ d.path \in Seq(Name) /\ dir.path = Append(d.path, name) /\ name \in Name
        /\ name \in Stay(d.node)
    BY <2>4, LevelsAre DEF Child, Directories
  <2>6. /\ Len(d.path) = k /\ dir.path[k + 1] = name
        /\ \A i \in 1 .. k : dir.path[i] = d.path[i]
    BY <2>1, <2>5
  <2>7. CASE n = k
    BY <2>5, <2>6, <2>7 DEF Prefix
  <2>8. CASE n < k
    <3>1. PICK e \in Levels : Prefix(e, d.path, n)
      BY <2>6, <2>8
    <3>2. Prefix(e, dir.path, n)
      <4>1. n + 1 \in 1 .. k /\ \A i \in 1 .. n : i \in 1 .. k
        BY <2>8
      <4> QED  BY <2>6, <3>1, <4>1 DEF Prefix
    <3> QED  BY <3>2
  <2> QED  BY <2>1, <2>7, <2>8
<1>3. S = Nat
  <2> HIDE DEF S
  <2>1. S \in SUBSET Nat
    BY DEF S
  <2> QED  BY <1>1, <1>2, <2>1, Induction
<1>4. \A dir \in Levels : Len(dir.path) \in Nat
  BY LevelsAre DEF Directories
<1> QED  BY <1>3, <1>4

(* More changes leave fewer directories in Levels. *)
LEMMA LevelsShrink ==
  ASSUME tree \in Trees, tree' = tree, program' = program, changed \subseteq changed'
  PROVE  /\ \A d : Stay(d)' \subseteq Stay(d)
         /\ Levels' \subseteq Levels
         /\ \A dir \in Levels' : Wanted(dir)' \subseteq Wanted(dir)
<1>1. \A d : Stay(d)' \subseteq Stay(d)
  BY DEF Stay
<1>2. \A n : Follow(n)' = Follow(n) /\ IsDir(n)' = IsDir(n)
  BY DEF Follow, IsDir
<1>3. \A m, n : Descends(program, m, n)' = Descends(program, m, n)
  BY <1>2 DEF Descends
<1>4. \A d : Below(d)' \subseteq Below(d)
  BY <1>1, <1>2, <1>3 DEF Below
<1>5. \A dirs, more : dirs \subseteq more => Deeper(dirs)' \subseteq Deeper(more)
  BY <1>4 DEF Deeper
<1>6. \A k \in 0 .. MaxPath :
        (Depth[k])' = IF k = 0 THEN Top ELSE (Deeper(Depth[k - 1]))'
  <2>1. Stepwise'
    BY DepthStepwise, PTL
  <2> QED  BY <2>1 DEF Stepwise, Top
<1> DEFINE S == {k \in Nat : k <= MaxPath => (Depth')[k] \subseteq Depth[k]}
<1>7. 0 \in S
  BY <1>6, DepthIs, WalkAssumption DEF Top
<1>8. ASSUME NEW k \in S  PROVE k + 1 \in S
  <2>1. SUFFICES ASSUME k + 1 <= MaxPath  PROVE (Depth')[k + 1] \subseteq Depth[k + 1]
    OBVIOUS
  <2>2. k \in 0 .. MaxPath /\ k + 1 \in 0 .. MaxPath /\ k + 1 # 0 /\ (k + 1) - 1 = k
    BY <2>1, WalkAssumption
  <2>3. Depth[k + 1] = Deeper(Depth[k]) /\ (Depth')[k + 1] = Deeper(Depth[k])'
    BY <1>6, <2>2, DepthIs
  <2>4. (Depth')[k] \subseteq Depth[k]
    BY <2>2
  <2> QED  BY <1>5, <2>3, <2>4 DEF Deeper
<1>9. S = Nat
  <2> HIDE DEF S
  <2>1. S \in SUBSET Nat
    BY DEF S
  <2> QED  BY <1>7, <1>8, <2>1, Induction
<1>10. Levels' \subseteq Levels
  BY <1>9 DEF Levels
<1>11. \A n : Stays(n)' => Stays(n)
  BY <1>1 DEF Stays
<1>12. \A dir \in Levels' : Wanted(dir)' \subseteq Wanted(dir)
  BY <1>1, <1>2, <1>11 DEF Wanted, Listed
<1> QED  BY <1>1, <1>10, <1>12

(***************************************************************************)
(* The invariant.                                                          *)
(***************************************************************************)
Listing == [path : Seq(Name), node : Node, links : Nat, reading : BOOLEAN,
            left : Entries(Name \cup Dots)]

(* A call that will not open its node lists nothing; any other has yet to  *)
(* list the paths below its own whose next name it has not read.           *)
Dead(kind, c) == ~c.reading /\ kind[c.node] # "dir"
Under(path, c) == Len(path) > Len(c.path) /\ \A k \in 1 .. Len(c.path) : path[k] = c.path[k]
After(path, c) == path[Len(c.path) + 1]
Awaits(kind, c, path) ==
  ~Dead(kind, c) /\ Under(path, c) /\ (c.reading => After(path, c) \in DOMAIN c.left)

Typed ==
  /\ program \in {"find", "ld", "ldr"} /\ at \in {"start", "walk", "done", "refused"}
  /\ tree \in Trees /\ kids \in [Node -> Entries(Name)] /\ cut \in BOOLEAN
  /\ stack \in Seq(Listing) /\ (at # "walk" => stack = <<>>)
  /\ \A i \in 1 .. Len(stack) : /\ program # "find" => DOMAIN stack[i].left \subseteq Name
                                /\ Len(stack[i].path) <= MaxPath
  /\ IsABag(out) /\ DOMAIN out \subseteq Seq(Name \cup Dots) /\ (at = "start" => DOMAIN out = {})

(* All calls but the last one made have their directory open. *)
Counted(s, n) ==
  /\ \A i \in 2 .. Len(s) : s[i].reading
  /\ n = IF s # <<>> /\ ~s[1].reading THEN Len(s) - 1 ELSE Len(s)

(* What stayed is there, and what is not in the tree is empty. *)
StayKids == \A d \in Node : \A m \in Stay(d) : m \in DOMAIN kids[d] /\ kids[d][m] = tree.kids[d][m]
NoIslands == \A n \in Node : DOMAIN kids[n] # {} => Linked(n)
LeftStays ==
  \A i \in 1 .. Len(stack) : \A m \in DOMAIN stack[i].left :
    m \in Stay(stack[i].node) => stack[i].left[m] = tree.kids[stack[i].node][m]

(* Each call is for an entry that the one below it has read. *)
Spine(kind, s) ==
  \A i \in 1 .. Len(s) : ~Dead(kind, s[i]) =>
    /\ Len(s[i].path) = Len(s) - i
    /\ \A j \in i + 1 .. Len(s) :
         Under(s[i].path, s[j]) /\ After(s[i].path, s[j]) \notin DOMAIN s[j].left

Once(kind, s, bag) ==
  \A path \in DOMAIN bag :
    /\ bag[path] = 1 /\ \A i \in 1 .. Len(path) - 1 : path[i] \in Name
    /\ \A i \in 1 .. Len(s) : ~Awaits(kind, s[i], path)

(* A call for a directory of Levels has its node. *)
Match(kind, s, dirs) ==
  \A i \in 1 .. Len(s) : \A dir \in dirs :
    ~Dead(kind, s[i]) /\ s[i].path = dir.path
       => s[i].node = dir.node /\ s[i].links = dir.links

Asked ==
  UNION {{Append(dir.path, m) : m \in Wanted(dir)} : dir \in {d \in Levels : Len(d.path) < MaxOpen}}
Cover(kind, s, bag, asked) ==
  \A path \in asked : path \in DOMAIN bag \/ \E i \in 1 .. Len(s) : Awaits(kind, s[i], path)

Grounded == Typed /\ Counted(stack, opened) /\ StayKids /\ NoIslands /\ LeftStays
Complete ==
  /\ Match(tree.kind, stack, Levels)
  /\ at \in {"walk", "done"} => Cover(tree.kind, stack, out, Asked)
Inv == Grounded /\ (~cut => Spine(tree.kind, stack) /\ Once(tree.kind, stack, out) /\ Complete)

(***************************************************************************)
(* Sets of entries, and the calls.                                         *)
(***************************************************************************)
LEMMA EntriesAre ==
  ASSUME NEW N
  PROVE  /\ <<>> \in Entries(N) /\ DOMAIN <<>> = {}
         /\ \A e \in Entries(N) : /\ DOMAIN e \subseteq N /\ \A m \in DOMAIN e : e[m] \in Node
                                  /\ \A D \in SUBSET DOMAIN e : Restrict(e, D) \in Entries(N)
                                  /\ DOMAIN e = {} => e = <<>>
         /\ \A M : N \subseteq M => Entries(N) \subseteq Entries(M)
<1>1. <<>> \in [{} -> Node] /\ DOMAIN <<>> = {}
  OBVIOUS
<1>2. \A e \in Entries(N) : \E D \in SUBSET N : e \in [D -> Node]
  BY DEF Entries
<1>3. \A D \in SUBSET N : \A e \in [D -> Node] : e \in Entries(N)
  BY DEF Entries
<1>4. ASSUME NEW e \in Entries(N)
      PROVE  /\ DOMAIN e \subseteq N /\ \A m \in DOMAIN e : e[m] \in Node
             /\ \A D \in SUBSET DOMAIN e : Restrict(e, D) \in Entries(N)
             /\ DOMAIN e = {} => e = <<>>
  <2>1. PICK E \in SUBSET N : e \in [E -> Node]
    BY <1>2
  <2>2. ASSUME NEW D \in SUBSET DOMAIN e  PROVE Restrict(e, D) \in Entries(N)
    <3>1. D \in SUBSET N /\ Restrict(e, D) \in [D -> Node]
      BY <2>1 DEF Restrict
    <3> QED  BY <1>3, <3>1
  <2>3. DOMAIN e = {} => e = <<>>
    BY <1>1, <2>1
  <2> QED  BY <2>1, <2>2, <2>3
<1>5. ASSUME NEW M, N \subseteq M  PROVE Entries(N) \subseteq Entries(M)
  BY <1>5 DEF Entries
<1> QED  BY <1>1, <1>3, <1>4, <1>5

LEMMA ListingIs ==
  ASSUME NEW c \in Listing
  PROVE  /\ c.path \in Seq(Name) /\ c.node \in Node /\ c.links \in Nat /\ c.reading \in BOOLEAN
         /\ Len(c.path) \in Nat
         /\ c.left \in Entries(Name \cup Dots) /\ DOMAIN c.left \subseteq Name \cup Dots
         /\ \A m \in DOMAIN c.left : c.left[m] \in Node
<1>1. c.path \in Seq(Name) /\ c.left \in Entries(Name \cup Dots)
  BY DEF Listing
<1> QED  BY <1>1, EntriesAre DEF Listing

LEMMA CallIs ==
  ASSUME NEW path \in Seq(Name), NEW n \in Node, NEW links \in Nat
  PROVE  /\ Call(path, n, links) \in Listing /\ Call(path, n, links).path = path
         /\ Call(path, n, links).node = n /\ Call(path, n, links).links = links
         /\ ~Call(path, n, links).reading /\ DOMAIN Call(path, n, links).left = {}
<1>1. <<>> \in Entries(Name \cup Dots) /\ DOMAIN <<>> = {}
  BY EntriesAre
<1> QED  BY <1>1 DEF Call, Listing

(* The stack after its top call changed, and after one more was pushed. *)
LEMMA Replaced ==
  ASSUME NEW s \in Seq(Listing), s # <<>>, NEW u \in Listing
  PROVE  LET r == [s EXCEPT ![1] = u]
         IN  /\ r \in Seq(Listing) /\ Len(r) = Len(s) /\ Len(s) \in Nat /\ Len(s) >= 1
             /\ r # <<>> /\ r[1] = u /\ \A i \in 2 .. Len(s) : r[i] = s[i]
BY EmptySeq, LenProperties

LEMMA Pushed ==
  ASSUME NEW r \in Seq(Listing), NEW c \in Listing
  PROVE  /\ <<c>> \o r \in Seq(Listing) /\ Len(<<c>> \o r) = Len(r) + 1 /\ Len(r) \in Nat
         /\ (<<c>> \o r)[1] = c /\ \A i \in 1 .. Len(r) : (<<c>> \o r)[i + 1] = r[i]
         /\ \A i \in 2 .. Len(r) + 1 : (<<c>> \o r)[i] = r[i - 1] /\ i - 1 \in 1 .. Len(r)
         /\ <<c>> \o r # <<>>
<1>1. <<c>> \in Seq(Listing) /\ Len(<<c>>) = 1 /\ <<c>>[1] = c
  OBVIOUS
<1>2. /\ <<c>> \o r \in Seq(Listing) /\ Len(<<c>> \o r) = 1 + Len(r)
      /\ \A i \in 1 .. Len(<<c>>) + Len(r) :
           (<<c>> \o r)[i] = IF i <= Len(<<c>>) THEN <<c>>[i] ELSE r[i - Len(<<c>>)]
  BY <1>1, ConcatProperties
<1> QED  BY <1>1, <1>2, LenProperties, EmptySeq

LEMMA Popped ==
  ASSUME NEW s \in Seq(Listing), s # <<>>
  PROVE  /\ Tail(s) \in Seq(Listing) /\ Len(Tail(s)) = Len(s) - 1 /\ Len(s) \in Nat
         /\ Len(s) >= 1 /\ \A i \in 1 .. Len(s) - 1 : Tail(s)[i] = s[i + 1]
BY EmptySeq, LenProperties

(***************************************************************************)
(* The invariant under the operations on the stack.                        *)
(***************************************************************************)
LEMMA SpineReplaced ==
  ASSUME NEW kind, NEW s \in Seq(Listing), s # <<>>, NEW u \in Listing, Spine(kind, s),
         u.path = s[1].path, Dead(kind, s[1]) => Dead(kind, u),
         NEW r, r = [s EXCEPT ![1] = u]
  PROVE  Spine(kind, r)
<1>1. /\ Len(r) = Len(s) /\ Len(s) \in Nat /\ Len(s) >= 1
      /\ r[1] = u /\ \A i \in 2 .. Len(s) : r[i] = s[i]
  BY Replaced
<1>2. SUFFICES ASSUME NEW i \in 1 .. Len(s), ~Dead(kind, r[i])
               PROVE  /\ Len(r[i].path) = Len(s) - i
                      /\ \A j \in i + 1 .. Len(s) : Under(r[i].path, r[j])
                                                    /\ After(r[i].path, r[j]) \notin DOMAIN r[j].left
  BY <1>1 DEF Spine
<1>3. ~Dead(kind, s[i]) /\ r[i].path = s[i].path
  BY <1>1, <1>2
<1>4. \A j \in i + 1 .. Len(s) : j \in 2 .. Len(s)
  BY <1>1
<1> QED  BY <1>1, <1>3, <1>4 DEF Spine

LEMMA SpinePushed ==
  ASSUME NEW kind, NEW r \in Seq(Listing), r # <<>>, NEW c \in Listing, Spine(kind, r),
         ~Dead(kind, r[1]), NEW name \in Name, name \notin DOMAIN r[1].left,
         ~Dead(kind, c) => c.path = Append(r[1].path, name),
         NEW t, t = <<c>> \o r
  PROVE  Spine(kind, t)
<1>1. /\ Len(t) = Len(r) + 1 /\ Len(r) \in Nat /\ Len(r) >= 1 /\ t[1] = c
      /\ \A i \in 2 .. Len(r) + 1 : t[i] = r[i - 1] /\ i - 1 \in 1 .. Len(r)
  BY Pushed, EmptySeq, LenProperties
<1>2. r[1] \in Listing /\ r[1].path \in Seq(Name) /\ Len(r[1].path) = Len(r) - 1
  BY <1>1, ListingIs DEF Spine
<1>3. SUFFICES ASSUME NEW i \in 1 .. Len(t), ~Dead(kind, t[i])
               PROVE  /\ Len(t[i].path) = Len(t) - i
                      /\ \A j \in i + 1 .. Len(t) : Under(t[i].path, t[j])
                                                    /\ After(t[i].path, t[j]) \notin DOMAIN t[j].left
  BY DEF Spine
<1>4. CASE i = 1
  <2>1. c.path = Append(r[1].path, name)
    BY <1>1, <1>3, <1>4
  <2>2. /\ Len(c.path) = Len(r) /\ c.path[Len(r)] = name
        /\ \A k \in 1 .. Len(r) - 1 : c.path[k] = r[1].path[k]
    BY <1>1, <1>2, <2>1
  <2>3. ASSUME NEW j \in 2 .. Len(t)
        PROVE  Under(c.path, t[j]) /\ After(c.path, t[j]) \notin DOMAIN t[j].left
    <3>1. t[j] = r[j - 1] /\ j - 1 \in 1 .. Len(r)
      BY <1>1
    <3>2. CASE j = 2
      <4>1. t[j] = r[1] /\ Len(r[1].path) = Len(r) - 1 /\ Len(r) \in Nat
        BY <1>1, <1>2, <3>1, <3>2
      <4>2. Len(c.path) > Len(r[1].path) /\ c.path[Len(r[1].path) + 1] = name
        BY <2>2, <4>1
      <4> QED  BY <2>2, <4>1, <4>2 DEF Under, After
    <3>3. CASE j # 2
      <4>1. j - 1 \in 2 .. Len(r)
        BY <3>1, <3>3
      <4>2. /\ Under(r[1].path, r[j - 1])
            /\ After(r[1].path, r[j - 1]) \notin DOMAIN r[j - 1].left
        BY <1>1, <4>1 DEF Spine
      <4>3. Len(r[j - 1].path) \in Nat
        BY <3>1, ListingIs
      <4>4. Len(r[j - 1].path) < Len(r) - 1
        BY <1>2, <4>2 DEF Under
      <4>5. /\ \A k \in 1 .. Len(r[j - 1].path) : k \in 1 .. Len(r) - 1
            /\ Len(r[j - 1].path) + 1 \in 1 .. Len(r) - 1
            /\ Len(c.path) > Len(r[j - 1].path)
        BY <1>1, <2>2, <4>3, <4>4
      <4>6. Under(c.path, r[j - 1]) /\ After(c.path, r[j - 1]) = After(r[1].path, r[j - 1])
        BY <2>2, <4>2, <4>5 DEF Under, After
      <4> QED  BY <3>1, <4>2, <4>6
    <3> QED  BY <3>2, <3>3
  <2> QED  BY <1>1, <1>4, <2>2, <2>3
<1>5. CASE i # 1
  <2>1. i - 1 \in 1 .. Len(r) /\ t[i] = r[i - 1] /\ ~Dead(kind, r[i - 1])
    BY <1>1, <1>3, <1>5
  <2>2. /\ Len(r[i - 1].path) = Len(r) - (i - 1)
        /\ \A j \in (i - 1) + 1 .. Len(r) : /\ Under(r[i - 1].path, r[j])
                                            /\ After(r[i - 1].path, r[j]) \notin DOMAIN r[j].left
    BY <2>1 DEF Spine
  <2>3. ASSUME NEW j \in i + 1 .. Len(t)
        PROVE  Under(t[i].path, t[j]) /\ After(t[i].path, t[j]) \notin DOMAIN t[j].left
    <3>1. j - 1 \in (i - 1) + 1 .. Len(r) /\ t[j] = r[j - 1]
      BY <1>1, <2>1
    <3> QED  BY <2>1, <2>2, <3>1
  <2> QED  BY <1>1, <2>1, <2>2, <2>3
<1> QED  BY <1>4, <1>5

LEMMA SpinePopped ==
  ASSUME NEW kind, NEW s \in Seq(Listing), s # <<>>, Spine(kind, s)
  PROVE  Spine(kind, Tail(s))
<1>1. /\ Len(Tail(s)) = Len(s) - 1 /\ Len(s) \in Nat /\ Len(s) >= 1
      /\ \A i \in 1 .. Len(s) - 1 : Tail(s)[i] = s[i + 1]
  BY Popped
<1>2. SUFFICES ASSUME NEW i \in 1 .. Len(s) - 1, ~Dead(kind, s[i + 1])
               PROVE  /\ Len(s[i + 1].path) = (Len(s) - 1) - i
                      /\ \A j \in i + 1 .. Len(s) - 1 :
                           /\ Under(s[i + 1].path, Tail(s)[j])
                           /\ After(s[i + 1].path, Tail(s)[j]) \notin DOMAIN Tail(s)[j].left
  BY <1>1 DEF Spine
<1>3. i + 1 \in 1 .. Len(s) /\ Len(s) - (i + 1) = (Len(s) - 1) - i
  BY <1>1
<1>4. /\ Len(s[i + 1].path) = Len(s) - (i + 1)
      /\ \A j \in (i + 1) + 1 .. Len(s) : /\ Under(s[i + 1].path, s[j])
                                          /\ After(s[i + 1].path, s[j]) \notin DOMAIN s[j].left
  BY <1>2, <1>3 DEF Spine
<1>5. ASSUME NEW j \in i + 1 .. Len(s) - 1
      PROVE  /\ Under(s[i + 1].path, Tail(s)[j])
             /\ After(s[i + 1].path, Tail(s)[j]) \notin DOMAIN Tail(s)[j].left
  <2>1. j \in 1 .. Len(s) - 1 /\ j + 1 \in (i + 1) + 1 .. Len(s)
    BY <1>1
  <2> QED  BY <1>1, <1>4, <2>1
<1> QED  BY <1>3, <1>4, <1>5

(* One more path is listed. *)
Add(bag, q) == bag (+) SetToBag({q})

LEMMA Added ==
  ASSUME NEW bag, IsABag(bag), NEW q
  PROVE  /\ IsABag(Add(bag, q)) /\ DOMAIN Add(bag, q) = DOMAIN bag \cup {q}
         /\ q \notin DOMAIN bag => Add(bag, q)[q] = 1
         /\ \A path \in DOMAIN bag \ {q} : Add(bag, q)[path] = bag[path]
<1> DEFINE b == Add(bag, q)
<1>1. b = [e \in DOMAIN bag \cup {q} |->
             (IF e \in DOMAIN bag THEN bag[e] ELSE 0) + (IF e \in {q} THEN 1 ELSE 0)]
  BY DEF Add, SetToBag, (+)
<1>2. \A e \in DOMAIN bag : bag[e] \in Nat /\ bag[e] > 0
  BY DEF IsABag
<1>3. DOMAIN b = DOMAIN bag \cup {q}
  BY <1>1
<1>4. \A e \in DOMAIN b : b[e] \in {n \in Nat : n > 0}
  BY <1>1, <1>2
<1>5. IsABag(b)
  BY <1>1, <1>3, <1>4 DEF IsABag
<1> QED  BY <1>1, <1>2, <1>3, <1>5

LEMMA OnceReplaced ==
  ASSUME NEW kind, NEW s \in Seq(Listing), s # <<>>, NEW u \in Listing, NEW bag,
         Once(kind, s, bag),
         \A path \in DOMAIN bag : Awaits(kind, u, path) => Awaits(kind, s[1], path),
         NEW r, r = [s EXCEPT ![1] = u]
  PROVE  Once(kind, r, bag)
<1>1. /\ Len(r) = Len(s) /\ Len(s) \in Nat /\ Len(s) >= 1
      /\ r[1] = u /\ \A i \in 2 .. Len(s) : r[i] = s[i]
  BY Replaced
<1>2. ASSUME NEW path \in DOMAIN bag, NEW i \in 1 .. Len(s)  PROVE ~Awaits(kind, r[i], path)
  <2>1. ~Awaits(kind, s[i], path) /\ ~Awaits(kind, s[1], path)
    BY <1>1 DEF Once
  <2>2. CASE i = 1
    BY <1>1, <2>1, <2>2
  <2>3. CASE i # 1
    BY <1>1, <2>1, <2>3
  <2> QED  BY <2>2, <2>3
<1> QED  BY <1>1, <1>2 DEF Once

LEMMA OncePushed ==
  ASSUME NEW kind, NEW r \in Seq(Listing), NEW c \in Listing, NEW bag, Once(kind, r, bag),
         \A path \in DOMAIN bag : ~Awaits(kind, c, path),
         NEW t, t = <<c>> \o r
  PROVE  Once(kind, t, bag)
<1>1. /\ Len(t) = Len(r) + 1 /\ Len(r) \in Nat /\ t[1] = c
      /\ \A i \in 2 .. Len(r) + 1 : t[i] = r[i - 1] /\ i - 1 \in 1 .. Len(r)
  BY Pushed
<1>2. ASSUME NEW path \in DOMAIN bag, NEW i \in 1 .. Len(t)  PROVE ~Awaits(kind, t[i], path)
  <2>1. CASE i = 1
    BY <1>1, <2>1
  <2>2. CASE i # 1
    <3>1. i \in 2 .. Len(r) + 1
      BY <1>1, <2>2
    <3> QED  BY <1>1, <3>1 DEF Once
  <2> QED  BY <2>1, <2>2
<1> QED  BY <1>2 DEF Once

LEMMA OncePopped ==
  ASSUME NEW kind, NEW s \in Seq(Listing), s # <<>>, NEW bag, Once(kind, s, bag)
  PROVE  Once(kind, Tail(s), bag)
<1>1. /\ Len(Tail(s)) = Len(s) - 1 /\ Len(s) \in Nat
      /\ \A i \in 1 .. Len(s) - 1 : Tail(s)[i] = s[i + 1] /\ i + 1 \in 1 .. Len(s)
  BY Popped
<1> QED  BY <1>1 DEF Once

LEMMA OnceAdded ==
  ASSUME NEW kind, NEW s, NEW bag, IsABag(bag), Once(kind, s, bag), NEW q, q \notin DOMAIN bag,
         \A i \in 1 .. Len(q) - 1 : q[i] \in Name,
         \A i \in 1 .. Len(s) : ~Awaits(kind, s[i], q)
  PROVE  Once(kind, s, Add(bag, q))
<1> DEFINE b == Add(bag, q)
<1>1. /\ DOMAIN b = DOMAIN bag \cup {q} /\ b[q] = 1
      /\ \A path \in DOMAIN bag \ {q} : b[path] = bag[path]
  BY Added, Zenon
<1> HIDE DEF b
<1>2. Once(kind, s, b)
  BY <1>1 DEF Once
<1> QED  BY <1>2 DEF b

LEMMA CoverMoved ==
  ASSUME NEW kind, NEW s, NEW t, NEW bag, NEW more, NEW asked, NEW fewer,
         Cover(kind, s, bag, asked), DOMAIN bag \subseteq DOMAIN more, fewer \subseteq asked,
         \A i \in 1 .. Len(s) : \A path \in fewer : Awaits(kind, s[i], path) =>
           path \in DOMAIN more \/ \E j \in 1 .. Len(t) : Awaits(kind, t[j], path)
  PROVE  Cover(kind, t, more, fewer)
BY DEF Cover

(***************************************************************************)
(* What is asked for below a call: its next name is that of an entry that  *)
(* stayed, which is asked for itself or a directory on the way.            *)
(***************************************************************************)
Asks(c, name) ==
  \E dir \in Levels : dir.path = c.path /\ name \in Wanted(dir)
Leads(c, name) ==
  \E d, dir \in Levels : d.path = c.path /\ Child(d, name, dir) /\ Stay(dir.node) # {}
Matched(c) == \A dir \in Levels : c.path = dir.path => c.node = dir.node /\ c.links = dir.links

LEMMA SamePath ==
  ASSUME NEW a \in Seq(Name), NEW b \in Seq(Name), Len(a) = Len(b),
         \A k \in 1 .. Len(a) : a[k] = b[k]
  PROVE  a = b
BY SeqEqual

LEMMA Way ==
  ASSUME tree \in Trees, NEW c \in Listing, Matched(c), NEW path \in Asked, Under(path, c)
  PROVE  /\ path \in Seq(Name) /\ Len(c.path) < MaxOpen /\ c.links <= MaxLinks
         /\ After(path, c) \in Stay(c.node) /\ After(path, c) \in Name
         /\ \/ path = Append(c.path, After(path, c)) /\ Asks(c, After(path, c))
            \/ Leads(c, After(path, c)) /\ Len(path) > Len(c.path) + 1
<1> DEFINE n == Len(c.path)
           name == After(path, c)
<1>0. PICK dir \in Levels :
        Len(dir.path) < MaxOpen /\ \E m \in Wanted(dir) : path = Append(dir.path, m)
  BY DEF Asked
<1>1. PICK m \in Wanted(dir) : Len(dir.path) < MaxOpen /\ path = Append(dir.path, m)
  BY <1>0
<1>2. dir \in Directories /\ dir.path \in Seq(Name) /\ dir.node \in Node /\ m \in Stay(dir.node)
  BY LevelsAre DEF Directories, Wanted
<1>3. m \in Name
  BY <1>2, KidsOf DEF Stay
<1>4. c.path \in Seq(Name) /\ n \in Nat /\ Len(dir.path) \in Nat
  BY <1>2, ListingIs
<1>5. /\ path \in Seq(Name) /\ Len(path) = Len(dir.path) + 1 /\ path[Len(dir.path) + 1] = m
      /\ \A k \in 1 .. Len(dir.path) : path[k] = dir.path[k]
  BY <1>1, <1>2, <1>3
<1>6. n <= Len(dir.path) /\ \A k \in 1 .. n : path[k] = c.path[k]
  BY <1>4, <1>5 DEF Under
<1>7. n < MaxOpen
  BY <1>1, <1>4, <1>6, WalkAssumption
<1>8. name = path[n + 1]
  BY DEF After
<1> HIDE DEF n, name
<1>9. CASE n = Len(dir.path)
  <2>1. dir.path = c.path
    BY <1>2, <1>4, <1>5, <1>6, <1>9, SamePath DEF n
  <2>2. name = m
    BY <1>5, <1>8, <1>9
  <2>3. c.node = dir.node /\ c.links = dir.links /\ dir.links <= MaxLinks
    BY <2>1, LinksFew DEF Matched
  <2>4. Asks(c, name)
    BY <1>1, <2>1, <2>2 DEF Asks
  <2> QED  BY <1>1, <1>2, <1>3, <1>5, <1>7, <2>1, <2>2, <2>3, <2>4 DEF n, name
<1>10. CASE n < Len(dir.path)
  <2>1. PICK d \in Levels : /\ Len(d.path) = n + 1 /\ \A k \in 1 .. n + 1 : d.path[k] = dir.path[k]
                            /\ Stay(d.node) # {}
    <3>1. CASE n + 1 = Len(dir.path)
      BY <1>1, <1>2, <3>1
    <3>2. CASE n + 1 # Len(dir.path)
      <4>1. n + 1 \in Nat /\ n + 1 < Len(dir.path)
        BY <1>4, <1>10, <3>2
      <4>2. PICK d \in Levels : Prefix(d, dir.path, n + 1)
        BY <4>1, OnTheWay
      <4> QED  BY <4>2 DEF Prefix
    <3> QED  BY <3>1, <3>2
  <2>2. d \in Directories /\ d.path \in Seq(Name) /\ d.path # <<>>
    BY <1>4, <2>1, LevelsAre DEF Directories
  <2>3. PICK e \in Levels : \E m2 : Child(e, m2, d)
    BY <2>2, LevelsAre
  <2>4. PICK m2 : Child(e, m2, d)
    BY <2>3
  <2>5. /\ e.path \in Seq(Name) /\ d.path = Append(e.path, m2) /\ m2 \in Name
        /\ m2 \in Stay(e.node) /\ Len(e.path) \in Nat
    BY <2>4, LevelsAre DEF Child, Directories
  <2>6. /\ Len(e.path) = n /\ d.path[n + 1] = m2 /\ \A k \in 1 .. n : d.path[k] = e.path[k]
    BY <1>4, <2>1, <2>5
  <2>7. \A k \in 1 .. n : e.path[k] = c.path[k]
    <3>1. n \in Nat /\ \A k \in 1 .. n : k \in 1 .. n + 1 /\ k \in 1 .. Len(dir.path)
      BY <1>4, <1>10 DEF n
    <3> QED  BY <1>5, <1>6, <2>1, <2>6, <3>1
  <2>8. e.path = c.path
    <3>1. Len(c.path) = n /\ c.path \in Seq(Name) /\ e.path \in Seq(Name) /\ Len(e.path) = n
      BY <1>4, <2>5, <2>6 DEF n
    <3> QED  BY <2>7, <3>1, SamePath
  <2>9. m2 = name
    BY <1>4, <1>5, <1>8, <1>10, <2>1, <2>6
  <2>10. c.node = e.node /\ c.links = e.links /\ e.links <= MaxLinks
    BY <2>8, LinksFew DEF Matched
  <2>11. Leads(c, name)
    BY <2>1, <2>4, <2>8, <2>9 DEF Leads
  <2>12. Len(path) > n + 1
    BY <1>4, <1>5, <1>10
  <2> QED  BY <1>5, <1>7, <2>5, <2>9, <2>10, <2>11, <2>12 DEF n, name
<1> QED  BY <1>4, <1>6, <1>9, <1>10

(* The next entry of a call whose directory leads on. *)
LEMMA LeadsTo ==
  ASSUME tree \in Trees, NEW c \in Listing, Matched(c), NEW name, Leads(c, name)
  PROVE  /\ Descends(program, name, tree.kids[c.node][name])
         /\ IsDir(Follow(tree.kids[c.node][name])) /\ Stay(Follow(tree.kids[c.node][name])) # {}
         /\ c.links + (IF tree.kind[tree.kids[c.node][name]] = "link" THEN 1 ELSE 0) <= MaxLinks
<1>1. PICK d, dir \in Levels : d.path = c.path /\ Child(d, name, dir) /\ Stay(dir.node) # {}
  BY DEF Leads
<1>2. c.node = d.node /\ c.links = d.links /\ dir.links <= MaxLinks
  BY <1>1, LinksFew DEF Matched
<1> QED  BY <1>1, <1>2 DEF Child

(***************************************************************************)
(* One turn of the loop.                                                   *)
(***************************************************************************)
LEMMA DescendsIs ==
  ASSUME program \in {"find", "ld", "ldr"}, NEW name, NEW n
  PROVE  /\ Descends(program, name, n) =>
              /\ program \in {"find", "ldr"} /\ program = "find" => name \notin Dots
         /\ program = "ldr" =>
              /\ Descends(program, name, n) <=> name \notin Hidden /\ IsDir(Follow(n))
              /\ Listed(program, name) <=> name \notin Hidden
<1>1. CASE program = "find"
  BY <1>1, Zenon DEF Descends
<1>2. CASE program = "ldr"
  BY <1>2, Zenon DEF Descends, Listed
<1>3. CASE program = "ld"
  BY <1>3, Zenon DEF Descends
<1> QED  BY <1>1, <1>2, <1>3

Found(name) == Reached(stack[1], name)
Links(name) == stack[1].links + IF tree.kind[Found(name)] = "link" THEN 1 ELSE 0
Shows(name) ==
  Listed(program, name) /\ (program = "find" \/ Stats(Found(name), Links(name)))
Goes(name) ==
  Descends(program, name, IF program = "find" THEN stack[1].left[name] ELSE Found(name))
Blind(name) == program = "ldr" /\ Listed(program, name) /\ ~Stats(Found(name), Links(name))
Printed(name) ==
  IF program = "find" THEN Append(stack[1].path, name) ELSE Joined(stack[1].path, name)

Rest(name) == [stack[1] EXCEPT !.left = Restrict(@, DOMAIN @ \ {name})]
Inner(name) == Call(Joined(stack[1].path, name), Follow(Found(name)), Links(name))
Passed(name) == [stack EXCEPT ![1] = Rest(name)]
Turn(name) ==
  /\ out' = IF Shows(name) THEN Add(out, Printed(name)) ELSE out
  /\ \/ stack' = <<Inner(name)>> \o Passed(name) /\ (Goes(name) \/ Blind(name))
     \/ stack' = Passed(name) /\ (~Goes(name) \/ Blind(name))
  /\ cut' = (\/ cut
             \/ /\ ~Fits(stack[1].path)
                /\ Goes(name) \/ (program # "find" /\ Listed(program, name)))

LEMMA EntryIs ==
  ASSUME Typed, Entry
  PROVE  /\ at = "walk" /\ stack # <<>> /\ stack[1] \in Listing /\ stack[1].reading
         /\ Len(stack) \in Nat /\ 1 \in 1 .. Len(stack)
         /\ \E name \in DOMAIN stack[1].left : Turn(name)
<1>1. at = "walk" /\ stack # <<>> /\ stack \in Seq(Listing) /\ Head(stack) = stack[1]
      /\ stack[1].reading
  BY DEF Entry, AtCall, Typed
<1>2. Len(stack) \in Nat /\ 1 \in 1 .. Len(stack) /\ stack[1] \in Listing
  BY <1>1, EmptySeq, LenProperties
<1>3. PICK name \in DOMAIN stack[1].left :
        LET call == stack[1]
            n == Reached(call, name)
            links == call.links + IF tree.kind[n] = "link" THEN 1 ELSE 0
            path == Joined(call.path, name)
            rest == [stack EXCEPT ![1].left = Restrict(@, DOMAIN @ \ {name})]
            shows == Listed(program, name) /\ (program = "find" \/ Stats(n, links))
            goes == Descends(program, name, IF program = "find" THEN call.left[name] ELSE n)
        IN  /\ out' = IF ~shows THEN out
                      ELSE out (+) SetToBag({IF program = "find" THEN Append(call.path, name)
                                             ELSE path})
            /\ \/ goes /\ stack' = <<Call(path, Follow(n), links)>> \o rest
               \/ ~goes /\ stack' = rest
               \/ /\ program = "ldr" /\ Listed(program, name) /\ ~Stats(n, links)
                  /\ stack' \in {rest, <<Call(path, Follow(n), links)>> \o rest}
            /\ cut' = (\/ cut
                       \/ /\ ~Fits(call.path)
                          /\ goes \/ (program # "find" /\ Listed(program, name)))
  BY <1>1 DEF Entry
<1>4. [stack EXCEPT ![1].left = Restrict(@, DOMAIN @ \ {name})] = Passed(name)
  BY DEF Passed, Rest
<1>5. out' = IF Shows(name) THEN Add(out, Printed(name)) ELSE out
  BY <1>3 DEF Shows, Found, Links, Printed, Add
<1>6. \/ stack' = <<Inner(name)>> \o Passed(name) /\ (Goes(name) \/ Blind(name))
      \/ stack' = Passed(name) /\ (~Goes(name) \/ Blind(name))
  BY <1>3, <1>4 DEF Goes, Blind, Found, Links, Inner
<1>7. cut' = (\/ cut
              \/ /\ ~Fits(stack[1].path)
                 /\ Goes(name) \/ (program # "find" /\ Listed(program, name)))
  BY <1>3 DEF Goes, Found
<1> QED  BY <1>1, <1>2, <1>5, <1>6, <1>7 DEF Turn

(* The call that has read an entry, and the one it makes for it. *)
LEMMA TurnIs ==
  ASSUME Typed, stack # <<>>, stack[1].reading, NEW name \in DOMAIN stack[1].left
  PROVE  /\ Rest(name) \in Listing /\ Rest(name).path = stack[1].path /\ Rest(name).reading
         /\ Rest(name).node = stack[1].node /\ Rest(name).links = stack[1].links
         /\ DOMAIN Rest(name).left = DOMAIN stack[1].left \ {name}
         /\ \A m \in DOMAIN Rest(name).left : Rest(name).left[m] = stack[1].left[m]
         /\ Found(name) \in Node /\ Links(name) \in Nat /\ name \in Name \cup Dots
         /\ Goes(name) \/ Blind(name) =>
              /\ name \in Name /\ Joined(stack[1].path, name) \in Seq(Name)
              /\ Len(Joined(stack[1].path, name)) <= MaxPath
              /\ Inner(name) \in Listing /\ Inner(name).path = Joined(stack[1].path, name)
              /\ Inner(name).node = Follow(Found(name)) /\ Inner(name).links = Links(name)
              /\ ~Inner(name).reading /\ DOMAIN Inner(name).left = {}
<1>1. stack \in Seq(Listing) /\ Len(stack) \in Nat /\ 1 \in 1 .. Len(stack)
  BY EmptySeq, LenProperties DEF Typed
<1>2. stack[1] \in Listing /\ Len(stack[1].path) <= MaxPath
      /\ (program # "find" => DOMAIN stack[1].left \subseteq Name)
  BY <1>1 DEF Typed
<1> DEFINE c == stack[1]
           e == Restrict(c.left, DOMAIN c.left \ {name})
<1>3. /\ c.path \in Seq(Name) /\ c.node \in Node /\ c.links \in Nat /\ c.reading \in BOOLEAN
      /\ Len(c.path) \in Nat /\ c.left \in Entries(Name \cup Dots)
      /\ DOMAIN c.left \subseteq Name \cup Dots /\ c.left[name] \in Node
  BY <1>2, ListingIs
<1>4. e \in Entries(Name \cup Dots)
  BY <1>3, EntriesAre
<1>5. /\ DOMAIN e = DOMAIN c.left \ {name} /\ \A m \in DOMAIN e : e[m] = c.left[m]
  BY DEF Restrict
<1>6. Rest(name) = [c EXCEPT !.left = e]
  BY DEF Rest
<1> HIDE DEF e
<1>7. /\ Rest(name) \in Listing /\ Rest(name).path = c.path /\ Rest(name).reading
      /\ Rest(name).node = c.node /\ Rest(name).links = c.links /\ Rest(name).left = e
  BY <1>2, <1>3, <1>4, <1>6 DEF Listing
<1>8. Found(name) \in Node /\ Links(name) \in Nat /\ name \in Name \cup Dots
  BY <1>3 DEF Found, Reached, Links
<1>9. ASSUME Goes(name) \/ Blind(name)
      PROVE  /\ name \in Name /\ Joined(c.path, name) \in Seq(Name)
             /\ Len(Joined(c.path, name)) <= MaxPath
             /\ Inner(name) \in Listing /\ Inner(name).path = Joined(c.path, name)
             /\ Inner(name).node = Follow(Found(name)) /\ Inner(name).links = Links(name)
             /\ ~Inner(name).reading /\ DOMAIN Inner(name).left = {}
  <2>1. name \in Name
    <3>1. program \in {"find", "ld", "ldr"}
      BY DEF Typed
    <3>2. CASE Goes(name)
      BY <1>2, <1>8, <3>1, <3>2, DescendsIs DEF Goes
    <3>3. CASE Blind(name)
      BY <1>2, <3>3 DEF Blind
    <3> QED  BY <1>9, <3>2, <3>3
  <2>2. Joined(c.path, name) \in Seq(Name) /\ Len(Joined(c.path, name)) <= MaxPath
    BY <1>2, <1>3, <2>1, WalkAssumption DEF Joined, Fits
  <2>3. Follow(Found(name)) \in Node
    <3>1. tree.target \in [Node -> Node]
      BY WalkAssumption DEF Typed
    <3> QED  BY <1>8, <3>1 DEF Follow
  <2> QED  BY <1>8, <2>1, <2>2, <2>3, CallIs DEF Inner
<1> QED  BY <1>5, <1>7, <1>8, <1>9

(* While no path was cut, they are those of the entries. *)
LEMMA TurnFits ==
  ASSUME Typed, stack # <<>>, stack[1].reading, NEW name \in DOMAIN stack[1].left, Turn(name),
         ~cut'
  PROVE  /\ ~cut
         /\ Goes(name) \/ (program # "find" /\ Listed(program, name)) => Fits(stack[1].path)
         /\ Shows(name) => Printed(name) = Append(stack[1].path, name)
         /\ Goes(name) \/ Blind(name) =>
              Fits(stack[1].path) /\ Inner(name).path = Append(stack[1].path, name)
<1>1. cut \in BOOLEAN
  BY DEF Typed
<1>2. /\ ~cut
      /\ Goes(name) \/ (program # "find" /\ Listed(program, name)) => Fits(stack[1].path)
  BY <1>1 DEF Turn
<1>3. Fits(stack[1].path) => Joined(stack[1].path, name) = Append(stack[1].path, name)
  BY DEF Joined
<1>4. ASSUME Goes(name) \/ Blind(name)
      PROVE  Fits(stack[1].path) /\ Inner(name).path = Append(stack[1].path, name)
  <2>1. Inner(name).path = Joined(stack[1].path, name)
    BY <1>4, TurnIs
  <2>2. Fits(stack[1].path)
    BY <1>2, <1>4 DEF Blind
  <2> QED  BY <1>3, <2>1, <2>2
<1> QED  BY <1>2, <1>3, <1>4 DEF Printed, Shows

LEMMA EntryGrounded ==
  ASSUME Grounded, Entry
  PROVE  Grounded'
<1>1. /\ stack \in Seq(Listing) /\ at = "walk" /\ stack # <<>> /\ stack[1] \in Listing
      /\ stack[1].reading /\ Len(stack) \in Nat /\ 1 \in 1 .. Len(stack)
      /\ program' = program /\ at' = at /\ tree' = tree /\ kids' = kids /\ opened' = opened
      /\ changed' = changed
  BY EntryIs DEF Grounded, Typed, Entry
<1>2. PICK name \in DOMAIN stack[1].left : Turn(name)
  BY EntryIs DEF Grounded
<1> DEFINE r == Passed(name)
           t == <<Inner(name)>> \o r
<1>3. /\ Rest(name) \in Listing /\ Rest(name).path = stack[1].path /\ Rest(name).reading
      /\ Rest(name).node = stack[1].node
      /\ DOMAIN Rest(name).left = DOMAIN stack[1].left \ {name}
      /\ \A m \in DOMAIN Rest(name).left : Rest(name).left[m] = stack[1].left[m]
  BY <1>1, TurnIs DEF Grounded
<1>4. /\ r \in Seq(Listing) /\ Len(r) = Len(stack) /\ r # <<>> /\ r[1] = Rest(name)
      /\ \A i \in 2 .. Len(stack) : r[i] = stack[i]
  BY <1>1, <1>3, Replaced DEF Passed
<1> HIDE DEF r
<1>5. \A i \in 1 .. Len(r) : /\ r[i].reading /\ r[i].node = stack[i].node
                             /\ r[i].path = stack[i].path /\ i \in 1 .. Len(stack)
                             /\ DOMAIN r[i].left \subseteq DOMAIN stack[i].left
                             /\ \A m \in DOMAIN r[i].left : r[i].left[m] = stack[i].left[m]
  <2> SUFFICES ASSUME NEW i \in 1 .. Len(r)
               PROVE  /\ r[i].reading /\ r[i].node = stack[i].node
                      /\ r[i].path = stack[i].path /\ i \in 1 .. Len(stack)
                      /\ DOMAIN r[i].left \subseteq DOMAIN stack[i].left
                      /\ \A m \in DOMAIN r[i].left : r[i].left[m] = stack[i].left[m]
    OBVIOUS
  <2>1. CASE i = 1
    BY <1>3, <1>4, <2>1
  <2>2. CASE i # 1
    <3>1. i \in 2 .. Len(stack)
      BY <1>1, <1>4, <2>2
    <3>2. stack[i].reading
      BY <3>1 DEF Grounded, Counted
    <3> QED  BY <1>4, <3>1, <3>2
  <2> QED  BY <2>1, <2>2
<1>6. opened = Len(r)
  BY <1>1, <1>4 DEF Grounded, Counted
<1>7. /\ \A i \in 1 .. Len(r) : /\ program # "find" => DOMAIN r[i].left \subseteq Name
                                /\ Len(r[i].path) <= MaxPath
      /\ \A i \in 1 .. Len(r) : \A m \in DOMAIN r[i].left :
           m \in Stay(r[i].node) => r[i].left[m] = tree.kids[r[i].node][m]
  <2>1. /\ \A i \in 1 .. Len(stack) : /\ program # "find" => DOMAIN stack[i].left \subseteq Name
                                      /\ Len(stack[i].path) <= MaxPath
        /\ \A i \in 1 .. Len(stack) : \A m \in DOMAIN stack[i].left :
             m \in Stay(stack[i].node) => stack[i].left[m] = tree.kids[stack[i].node][m]
    BY DEF Grounded, Typed, LeftStays
  <2>2. ASSUME NEW i \in 1 .. Len(r)
        PROVE  /\ program # "find" => DOMAIN r[i].left \subseteq Name
               /\ Len(r[i].path) <= MaxPath
               /\ \A m \in DOMAIN r[i].left :
                    m \in Stay(r[i].node) => r[i].left[m] = tree.kids[r[i].node][m]
    <3>1. /\ i \in 1 .. Len(stack) /\ r[i].node = stack[i].node /\ r[i].path = stack[i].path
          /\ DOMAIN r[i].left \subseteq DOMAIN stack[i].left
          /\ \A m \in DOMAIN r[i].left : r[i].left[m] = stack[i].left[m]
      BY <1>5
    <3> QED  BY <2>1, <3>1
  <2> QED  BY <2>2
<1>8. IsABag(out') /\ DOMAIN out' \subseteq Seq(Name \cup Dots)
  <2>1. IsABag(out) /\ DOMAIN out \subseteq Seq(Name \cup Dots)
    BY DEF Grounded, Typed
  <2>2. CASE Shows(name)
    <3>1. stack[1].path \in Seq(Name) /\ name \in Name \cup Dots
      BY <1>1, TurnIs, ListingIs DEF Grounded
    <3>2. Append(stack[1].path, name) \in Seq(Name \cup Dots)
          /\ stack[1].path \in Seq(Name \cup Dots)
      BY <3>1
    <3>3. Printed(name) \in Seq(Name \cup Dots)
      BY <3>2 DEF Printed, Joined
    <3>4. out' = Add(out, Printed(name))
      BY <1>2, <2>2 DEF Turn
    <3>5. IsABag(out') /\ DOMAIN out' = DOMAIN out \cup {Printed(name)}
      BY <2>1, <3>4, Added
    <3> QED  BY <2>1, <3>3, <3>5
  <2>3. CASE ~Shows(name)
    BY <1>2, <2>1, <2>3 DEF Turn
  <2> QED  BY <2>2, <2>3
<1>9. cut' \in BOOLEAN
  BY <1>2 DEF Turn
<1>10. CASE stack' = r
  <2>1. Typed'
    BY <1>1, <1>4, <1>7, <1>8, <1>9, <1>10 DEF Grounded, Typed
  <2>2. Counted(stack, opened)'
    BY <1>1, <1>4, <1>5, <1>6, <1>10 DEF Counted
  <2>3. LeftStays'
    BY <1>1, <1>7, <1>10 DEF LeftStays, Stay
  <2> QED  BY <1>1, <2>1, <2>2, <2>3 DEF Grounded, StayKids, NoIslands, Stay, Linked
<1>11. CASE stack' = t /\ (Goes(name) \/ Blind(name))
  <2>1. /\ Inner(name) \in Listing /\ Len(Inner(name).path) <= MaxPath
        /\ ~Inner(name).reading /\ DOMAIN Inner(name).left = {}
    BY <1>1, <1>11, TurnIs DEF Grounded
  <2>2. /\ t \in Seq(Listing) /\ Len(t) = Len(r) + 1 /\ t[1] = Inner(name) /\ t # <<>>
        /\ \A i \in 2 .. Len(r) + 1 : t[i] = r[i - 1] /\ i - 1 \in 1 .. Len(r)
    BY <1>4, <2>1, Pushed
  <2> HIDE DEF t
  <2>3. \A i \in 1 .. Len(t) : i = 1 \/ i \in 2 .. Len(r) + 1
    BY <1>1, <1>4, <2>2
  <2>4. Typed'
    <3>1. \A i \in 1 .. Len(t) : /\ program # "find" => DOMAIN t[i].left \subseteq Name
                                 /\ Len(t[i].path) <= MaxPath
      BY <1>7, <2>1, <2>2, <2>3
    <3> QED  BY <1>1, <1>8, <1>9, <1>11, <2>2, <3>1 DEF Grounded, Typed
  <2>5. Counted(stack, opened)'
    BY <1>1, <1>4, <1>5, <1>6, <1>11, <2>1, <2>2 DEF Counted
  <2>6. LeftStays'
    <3>1. \A i \in 1 .. Len(t) : \A m \in DOMAIN t[i].left :
            m \in Stay(t[i].node) => t[i].left[m] = tree.kids[t[i].node][m]
      <4> SUFFICES ASSUME NEW i \in 1 .. Len(t)
                   PROVE  \A m \in DOMAIN t[i].left :
                            m \in Stay(t[i].node) => t[i].left[m] = tree.kids[t[i].node][m]
        OBVIOUS
      <4>1. CASE i = 1
        BY <2>1, <2>2, <4>1
      <4>2. CASE i \in 2 .. Len(r) + 1
        <5>1. t[i] = r[i - 1] /\ i - 1 \in 1 .. Len(r)
          BY <2>2, <4>2
        <5>2. \A m \in DOMAIN r[i - 1].left :
                m \in Stay(r[i - 1].node) => r[i - 1].left[m] = tree.kids[r[i - 1].node][m]
          BY <1>7, <5>1
        <5> QED  BY <5>1, <5>2
      <4> QED  BY <2>3, <4>1, <4>2
    <3> QED  BY <1>1, <1>11, <3>1 DEF LeftStays, Stay
  <2> QED  BY <1>1, <2>4, <2>5, <2>6 DEF Grounded, StayKids, NoIslands, Stay, Linked
<1> QED  BY <1>2, <1>10, <1>11 DEF Turn, r

(* What one turn does to the calls, and to what they await. *)
LEMMA PassedIs ==
  ASSUME Typed, stack # <<>>, stack[1].reading, NEW name \in DOMAIN stack[1].left
  PROVE  LET r == Passed(name)
         IN  /\ r \in Seq(Listing) /\ r # <<>> /\ Len(r) = Len(stack) /\ Len(stack) \in Nat
             /\ Len(stack) >= 1 /\ r[1] = Rest(name) /\ \A i \in 2 .. Len(stack) : r[i] = stack[i]
             /\ stack \in Seq(Listing) /\ stack[1] \in Listing /\ r = [stack EXCEPT ![1] = Rest(name)]
<1>1. stack \in Seq(Listing)
  BY DEF Typed
<1>2. Len(stack) \in Nat /\ 1 \in 1 .. Len(stack)
  BY <1>1, EmptySeq, LenProperties
<1>3. stack[1] \in Listing /\ Rest(name) \in Listing
  BY <1>1, <1>2, TurnIs
<1> QED  BY <1>1, <1>2, <1>3, Replaced DEF Passed

LEMMA EntrySpine ==
  ASSUME Typed, Spine(tree.kind, stack), stack # <<>>, stack[1].reading,
         NEW name \in DOMAIN stack[1].left, Turn(name), ~cut'
  PROVE  Spine(tree.kind, stack')
<1> DEFINE r == Passed(name)
<1>1. /\ r \in Seq(Listing) /\ r # <<>> /\ r[1] = Rest(name) /\ stack \in Seq(Listing)
      /\ r = [stack EXCEPT ![1] = Rest(name)]
  BY PassedIs
<1> HIDE DEF r
<1>2. /\ Rest(name) \in Listing /\ Rest(name).path = stack[1].path /\ Rest(name).reading
      /\ name \notin DOMAIN Rest(name).left
  BY TurnIs
<1>3. ~Dead(tree.kind, stack[1]) /\ ~Dead(tree.kind, Rest(name))
  BY <1>2 DEF Dead
<1>4. Spine(tree.kind, r)
  BY <1>1, <1>2, <1>3, SpineReplaced
<1>5. CASE stack' = r
  BY <1>4, <1>5
<1>6. CASE stack' = <<Inner(name)>> \o r /\ (Goes(name) \/ Blind(name))
  <2>1. Inner(name) \in Listing /\ name \in Name
    BY <1>6, TurnIs
  <2>2. ~Dead(tree.kind, Inner(name)) => Inner(name).path = Append(r[1].path, name)
    BY <1>1, <1>2, <1>6, TurnFits
  <2> QED  BY <1>1, <1>2, <1>3, <1>4, <1>6, <2>1, <2>2, SpinePushed
<1> QED  BY <1>5, <1>6 DEF Turn, r

(* The path of an entry, as the calls see it. *)
Beyond(q, c, name) ==
  /\ Len(q) = Len(c.path) + 1 /\ Len(c.path) \in Nat
  /\ \A k \in 1 .. Len(c.path) : q[k] \in Name /\ q[k] = c.path[k]
  /\ Under(q, c) /\ After(q, c) = name
  /\ \A d \in Listing : Under(c.path, d) => Under(q, d) /\ After(q, d) = After(c.path, d)
  /\ \A path : Len(path) \in Nat /\ Len(path) > Len(q) /\ (\A k \in 1 .. Len(q) : path[k] = q[k])
       => Under(path, c) /\ After(path, c) = name

LEMMA NextPath ==
  ASSUME NEW c \in Listing, NEW name
  PROVE  Beyond(Append(c.path, name), c, name)
<1> DEFINE q == Append(c.path, name)
           n == Len(c.path)
<1>1. c.path \in Seq(Name) /\ n \in Nat /\ c.path \in Seq(Name \cup {name})
  BY ListingIs
<1>2. /\ Len(q) = n + 1 /\ q[n + 1] = name
      /\ \A k \in 1 .. n : q[k] = c.path[k] /\ q[k] \in Name
  BY <1>1
<1> HIDE DEF q
<1>3. Under(q, c) /\ After(q, c) = name
  BY <1>1, <1>2 DEF Under, After
<1>4. ASSUME NEW d \in Listing, Under(c.path, d)
      PROVE  Under(q, d) /\ After(q, d) = After(c.path, d)
  <2>1. Len(d.path) \in Nat /\ Len(d.path) < n
    BY <1>4, ListingIs DEF Under
  <2>2. \A k \in 1 .. Len(d.path) : k \in 1 .. n
    BY <1>1, <2>1
  <2>3. Len(d.path) + 1 \in 1 .. n /\ Len(q) > Len(d.path)
    BY <1>1, <1>2, <2>1
  <2> QED  BY <1>2, <1>4, <2>2, <2>3 DEF Under, After
<1>5. ASSUME NEW path, Len(path) \in Nat, Len(path) > Len(q),
             \A k \in 1 .. Len(q) : path[k] = q[k]
      PROVE  Under(path, c) /\ After(path, c) = name
  <2>1. Len(path) > n /\ n + 1 \in 1 .. Len(q) /\ \A k \in 1 .. n : k \in 1 .. Len(q)
    BY <1>1, <1>2, <1>5
  <2> QED  BY <1>2, <1>5, <2>1 DEF Under, After
<1>6. Beyond(q, c, name)
  BY <1>1, <1>2, <1>3, <1>4, <1>5 DEF Beyond
<1> QED  BY <1>6 DEF q

LEMMA EntryOnce ==
  ASSUME Typed, Spine(tree.kind, stack), Once(tree.kind, stack, out), stack # <<>>,
         stack[1].reading, \A i \in 2 .. Len(stack) : stack[i].reading,
         NEW name \in DOMAIN stack[1].left, Turn(name), ~cut'
  PROVE  Once(tree.kind, stack', out')
<1> DEFINE r == Passed(name)
           q == Append(stack[1].path, name)
<1>1. /\ r \in Seq(Listing) /\ r # <<>> /\ r[1] = Rest(name) /\ stack \in Seq(Listing)
      /\ r = [stack EXCEPT ![1] = Rest(name)] /\ Len(r) = Len(stack) /\ Len(stack) \in Nat
      /\ Len(stack) >= 1 /\ \A i \in 2 .. Len(stack) : r[i] = stack[i]
      /\ stack[1] \in Listing
  BY PassedIs
<1> HIDE DEF r
<1>2. /\ Rest(name) \in Listing /\ Rest(name).path = stack[1].path /\ Rest(name).reading
      /\ DOMAIN Rest(name).left = DOMAIN stack[1].left \ {name}
  BY TurnIs
<1>3. /\ ~Dead(tree.kind, stack[1])
      /\ \A path : Awaits(tree.kind, stack[1], path)
                     <=> Under(path, stack[1]) /\ After(path, stack[1]) \in DOMAIN stack[1].left
      /\ \A path : Awaits(tree.kind, Rest(name), path)
                     <=> Under(path, stack[1]) /\ After(path, stack[1]) \in DOMAIN Rest(name).left
  BY <1>2 DEF Dead, Awaits, Under, After
<1>4. /\ Len(q) = Len(stack[1].path) + 1 /\ Len(stack[1].path) \in Nat
      /\ \A k \in 1 .. Len(stack[1].path) : q[k] \in Name
      /\ Under(q, stack[1]) /\ After(q, stack[1]) = name
      /\ \A d \in Listing : Under(stack[1].path, d) => /\ Under(q, d)
                                                       /\ After(q, d) = After(stack[1].path, d)
      /\ \A path : Len(path) \in Nat /\ Len(path) > Len(q)
                     /\ (\A k \in 1 .. Len(q) : path[k] = q[k])
                   => Under(path, stack[1]) /\ After(path, stack[1]) = name
  <2>1. Beyond(q, stack[1], name)
    BY <1>1, NextPath
  <2> HIDE DEF q
  <2> QED  BY <2>1 DEF Beyond
<1> HIDE DEF q
<1>5. Once(tree.kind, r, out)
  <2>1. \A path \in DOMAIN out : Awaits(tree.kind, Rest(name), path) => Awaits(tree.kind, stack[1], path)
    BY <1>2, <1>3
  <2> QED  BY <1>1, <1>2, <2>1, OnceReplaced
<1>6. \A path \in DOMAIN out : ~Awaits(tree.kind, stack[1], path)
  BY <1>1 DEF Once
<1>7. q \notin DOMAIN out
  BY <1>3, <1>4, <1>6
<1>8. \A i \in 1 .. Len(r) : ~Awaits(tree.kind, r[i], q)
  <2> SUFFICES ASSUME NEW i \in 1 .. Len(stack)  PROVE ~Awaits(tree.kind, r[i], q)
    BY <1>1
  <2>1. CASE i = 1
    BY <1>1, <1>2, <1>3, <1>4, <2>1
  <2>2. CASE i # 1
    <3>1. i \in 2 .. Len(stack) /\ i \in 1 + 1 .. Len(stack) /\ 1 \in 1 .. Len(stack)
      BY <1>1, <2>2
    <3>2. Under(stack[1].path, stack[i]) /\ After(stack[1].path, stack[i]) \notin DOMAIN stack[i].left
      BY <1>3, <3>1 DEF Spine
    <3>3. stack[i] \in Listing /\ stack[i].reading /\ r[i] = stack[i]
      BY <1>1, <3>1
    <3> QED  BY <1>4, <3>2, <3>3 DEF Awaits
  <2> QED  BY <2>1, <2>2
<1>9. /\ Once(tree.kind, r, out') /\ DOMAIN out' \subseteq DOMAIN out \cup {q}
      /\ IsABag(out) /\ DOMAIN out \subseteq Seq(Name \cup Dots)
  <2>1. IsABag(out) /\ DOMAIN out \subseteq Seq(Name \cup Dots)
    BY DEF Typed
  <2>2. CASE Shows(name)
    <3>1. out' = Add(out, q)
      BY <2>2, TurnFits DEF Turn, q
    <3>2. \A i \in 1 .. Len(q) - 1 : q[i] \in Name
      BY <1>4
    <3> QED  BY <1>5, <1>7, <1>8, <2>1, <3>1, <3>2, OnceAdded, Added
  <2>3. CASE ~Shows(name)
    BY <1>5, <2>1, <2>3 DEF Turn
  <2> QED  BY <2>2, <2>3
<1>10. CASE stack' = r
  BY <1>9, <1>10
<1>11. CASE stack' = <<Inner(name)>> \o r /\ (Goes(name) \/ Blind(name))
  <2>1. Inner(name) \in Listing /\ name \in Name
    BY <1>11, TurnIs
  <2>2. ~Dead(tree.kind, Inner(name)) => Inner(name).path = q
    BY <1>11, TurnFits DEF q
  <2>3. ASSUME NEW path \in DOMAIN out', Awaits(tree.kind, Inner(name), path)  PROVE FALSE
    <3>1. /\ Len(path) > Len(q) /\ \A k \in 1 .. Len(q) : path[k] = q[k]
      BY <2>2, <2>3 DEF Awaits, Under
    <3>2. CASE path = q
      BY <1>4, <3>1, <3>2
    <3>3. CASE path \in DOMAIN out
      <4>1. Len(path) \in Nat
        BY <1>9, <3>3
      <4> QED  BY <1>3, <1>4, <1>6, <3>1, <3>3, <4>1
    <3> QED  BY <1>9, <3>2, <3>3
  <2> QED  BY <1>1, <1>9, <1>11, <2>1, <2>3, OncePushed
<1> QED  BY <1>10, <1>11 DEF Turn, r

(* What a call has read of an entry that stayed is what is there. *)
LEMMA FoundStays ==
  ASSUME Grounded, stack # <<>>, stack[1].reading, NEW name \in DOMAIN stack[1].left,
         name \in Stay(stack[1].node), Fits(stack[1].path)
  PROVE  /\ Found(name) = tree.kids[stack[1].node][name]
         /\ Goes(name) <=> Descends(program, name, Found(name))
         /\ Linked(Found(name))
         /\ Stay(Follow(Found(name))) # {} \/ Stays(Follow(Found(name)))
              => Linked(Follow(Found(name)))
<1>1. stack \in Seq(Listing) /\ Len(stack) \in Nat /\ 1 \in 1 .. Len(stack) /\ stack[1] \in Listing
  BY EmptySeq, LenProperties DEF Grounded, Typed
<1>2. stack[1].node \in Node
  BY <1>1, ListingIs
<1>3. Found(name) = tree.kids[stack[1].node][name]
  BY <1>1 DEF Grounded, LeftStays, Found, Reached
<1>8. Goes(name) <=> Descends(program, name, Found(name))
  BY DEF Goes, Found, Reached
<1>4. \A d \in Node : \A m \in Stay(d) : Linked(tree.kids[d][m])
  BY DEF Grounded, StayKids, Linked, Range
<1>5. \A n : Stays(n) => Linked(n)
  BY <1>4 DEF Stays, Linked
<1>6. Follow(Found(name)) \in Node
  BY <1>2, <1>3, KidsOf DEF Grounded, Typed, Stay
<1>7. \A n \in Node : Stay(n) # {} => Linked(n)
  BY DEF Grounded, StayKids, NoIslands
<1> QED  BY <1>2, <1>3, <1>4, <1>5, <1>6, <1>7, <1>8

LEMMA EntryMatch ==
  ASSUME Grounded, Match(tree.kind, stack, Levels), stack # <<>>, stack[1].reading,
         NEW name \in DOMAIN stack[1].left, Turn(name), ~cut'
  PROVE  Match(tree.kind, stack', Levels)
<1> DEFINE r == Passed(name)
           t == <<Inner(name)>> \o r
<1>0. Typed
  BY DEF Grounded
<1>1. /\ r \in Seq(Listing) /\ r # <<>> /\ r[1] = Rest(name) /\ stack \in Seq(Listing)
      /\ Len(r) = Len(stack) /\ Len(stack) \in Nat
      /\ Len(stack) >= 1 /\ \A i \in 2 .. Len(stack) : r[i] = stack[i]
      /\ stack[1] \in Listing
  BY <1>0, PassedIs
<1> HIDE DEF r
<1>2. /\ Rest(name) \in Listing /\ Rest(name).path = stack[1].path /\ Rest(name).reading
      /\ Rest(name).node = stack[1].node /\ Rest(name).links = stack[1].links
  BY <1>0, TurnIs
<1>3. ~Dead(tree.kind, stack[1]) /\ 1 \in 1 .. Len(stack)
  BY <1>1 DEF Dead
<1>4. Matched(stack[1])
  BY <1>3 DEF Match, Matched
<1>5. Match(tree.kind, r, Levels)
  <2> SUFFICES ASSUME NEW i \in 1 .. Len(stack), NEW dir \in Levels,
                      ~Dead(tree.kind, r[i]), r[i].path = dir.path
               PROVE  r[i].node = dir.node /\ r[i].links = dir.links
    BY <1>1 DEF Match
  <2>1. CASE i = 1
    BY <1>1, <1>2, <1>4, <2>1 DEF Matched
  <2>2. CASE i # 1
    <3>1. r[i] = stack[i]
      BY <1>1, <2>2
    <3> QED  BY <3>1 DEF Match
  <2> QED  BY <2>1, <2>2
<1>6. CASE stack' = r
  BY <1>5, <1>6
<1>7. CASE stack' = t /\ (Goes(name) \/ Blind(name))
  <2>1. /\ Inner(name) \in Listing /\ name \in Name
        /\ Inner(name).node = Follow(Found(name)) /\ Inner(name).links = Links(name)
    BY <1>0, <1>7, TurnIs
  <2>2. Inner(name).path = Append(stack[1].path, name) /\ Fits(stack[1].path)
    BY <1>0, <1>7, TurnFits
  <2>3. /\ Len(t) = Len(r) + 1 /\ Len(r) \in Nat /\ t[1] = Inner(name)
        /\ \A i \in 2 .. Len(r) + 1 : t[i] = r[i - 1] /\ i - 1 \in 1 .. Len(r)
    BY <1>1, <2>1, Pushed
  <2> HIDE DEF t
  <2>4. ASSUME NEW dir \in Levels, ~Dead(tree.kind, Inner(name)), Inner(name).path = dir.path
        PROVE  Inner(name).node = dir.node /\ Inner(name).links = dir.links
    <3>1. stack[1].path \in Seq(Name) /\ Len(stack[1].path) \in Nat
      BY <1>1, ListingIs
    <3>2. dir.path = Append(stack[1].path, name) /\ dir.path # <<>>
      <4> DEFINE a == stack[1].path
      <4>1. dir.path = Append(a, name)
        BY <2>2, <2>4
      <4>2. a \in Seq(Name) /\ name \in Name
        BY <2>1, <3>1
      <4> HIDE DEF a
      <4>3. Append(a, name) # <<>>
        BY <4>2
      <4> QED  BY <4>1, <4>3 DEF a
    <3>3. PICK d \in Levels : \E m : Child(d, m, dir)
      BY <1>0, <3>2, LevelsAre DEF Typed
    <3>4. PICK m : Child(d, m, dir)
      BY <3>3
    <3>5. /\ d.path \in Seq(Name) /\ m \in Name /\ dir.path = Append(d.path, m)
          /\ m \in Stay(d.node)
      BY <1>0, <3>4, LevelsAre DEF Typed, Child, Directories
    <3>6. d.path = stack[1].path /\ m = name
      <4> DEFINE a == stack[1].path
                 b == d.path
      <4>1. a \in Seq(Name) /\ b \in Seq(Name) /\ Append(b, m) = Append(a, name)
        BY <3>1, <3>2, <3>5
      <4> HIDE DEF a, b
      <4>2. b = a /\ m = name
        BY <2>1, <3>5, <4>1, AppendInjective
      <4> QED  BY <4>2 DEF a, b
    <3>7. stack[1].node = d.node /\ stack[1].links = d.links
      BY <1>4, <3>6 DEF Matched
    <3>8. Found(name) = tree.kids[d.node][m]
      BY <2>2, <3>5, <3>6, <3>7, FoundStays
    <3> QED  BY <2>1, <3>4, <3>7, <3>8 DEF Child, Links
  <2>5. ASSUME NEW i \in 1 .. Len(t), NEW dir \in Levels,
               ~Dead(tree.kind, t[i]), t[i].path = dir.path
        PROVE  t[i].node = dir.node /\ t[i].links = dir.links
    <3>1. CASE i = 1
      BY <2>3, <2>4, <2>5, <3>1
    <3>2. CASE i # 1
      <4>1. i \in 2 .. Len(r) + 1
        BY <2>3, <3>2
      <4>2. t[i] = r[i - 1] /\ i - 1 \in 1 .. Len(r)
        BY <2>3, <4>1
      <4> QED  BY <1>5, <2>5, <4>2 DEF Match
    <3> QED  BY <3>1, <3>2
  <2> QED  BY <1>7, <2>5 DEF Match
<1> QED  BY <1>6, <1>7 DEF Turn, r

(* What the call that has read an entry awaited below it is listed, or is  *)
(* awaited by the call it makes.                                           *)
LEMMA TurnCovers ==
  ASSUME Grounded, stack # <<>>, stack[1].reading, Matched(stack[1]),
         NEW name \in DOMAIN stack[1].left, Turn(name), ~cut',
         NEW path \in Asked, Under(path, stack[1]), After(path, stack[1]) = name
  PROVE  \/ path \in DOMAIN out'
         \/ stack' = <<Inner(name)>> \o Passed(name) /\ (Goes(name) \/ Blind(name))
            /\ Awaits(tree.kind, Inner(name), path)
<1>0. Typed
  BY DEF Grounded
<1>1. stack \in Seq(Listing) /\ stack[1] \in Listing /\ tree \in Trees
      /\ program \in {"find", "ld", "ldr"}
  BY <1>0, PassedIs DEF Typed
<1>2. /\ path \in Seq(Name) /\ stack[1].links <= MaxLinks
      /\ name \in Stay(stack[1].node) /\ name \in Name
      /\ \/ path = Append(stack[1].path, name) /\ Asks(stack[1], name)
         \/ Leads(stack[1], name) /\ Len(path) > Len(stack[1].path) + 1
  BY <1>1, Way
<1>3. Fits(stack[1].path) =>
        /\ Found(name) = tree.kids[stack[1].node][name] /\ Linked(Found(name))
        /\ Goes(name) <=> Descends(program, name, Found(name))
        /\ Stay(Follow(Found(name))) # {} \/ Stays(Follow(Found(name)))
             => Linked(Follow(Found(name)))
  BY <1>2, FoundStays
<1>4. CASE path = Append(stack[1].path, name) /\ Asks(stack[1], name)
  <2>1. PICK dir \in Levels : dir.path = stack[1].path /\ name \in Wanted(dir)
    BY <1>4 DEF Asks
  <2>2. dir.node = stack[1].node /\ dir.links = stack[1].links
    BY <2>1 DEF Matched
  <2>3. /\ Listed(program, name) /\ (program # "find" => Fits(stack[1].path))
        /\ program # "find" /\ tree.kind[Found(name)] = "link"
             => stack[1].links < MaxLinks /\ Stays(Follow(Found(name)))
    <3>1. Listed(program, name)
      BY <2>1 DEF Wanted
    <3>2. program # "find" => Fits(stack[1].path)
      BY <1>0, <3>1, TurnFits
    <3> QED  BY <1>3, <2>1, <2>2, <3>1, <3>2 DEF Wanted
  <2>4. ASSUME program # "find"
        PROVE  Stats(Found(name), Links(name))
    <3>0. /\ Found(name) = tree.kids[stack[1].node][name] /\ Linked(Found(name))
          /\ Stays(Follow(Found(name))) => Linked(Follow(Found(name)))
      BY <1>3, <2>3, <2>4
    <3>1. stack[1].links \in Nat /\ MaxLinks \in Nat
      BY <1>1, ListingIs, WalkAssumption
    <3>2. CASE tree.kind[Found(name)] = "link"
      BY <2>3, <2>4, <3>0, <3>1, <3>2 DEF Stats, Links
    <3>3. CASE tree.kind[Found(name)] # "link"
      BY <1>2, <3>0, <3>1, <3>3 DEF Stats, Links, Follow
    <3> QED  BY <3>2, <3>3
  <2>5. Shows(name)
    BY <2>3, <2>4 DEF Shows
  <2>6. out' = Add(out, path)
    BY <1>0, <1>4, <2>5, TurnFits DEF Turn
  <2>7. IsABag(out)
    BY <1>0 DEF Typed
  <2>8. DOMAIN Add(out, path) = DOMAIN out \cup {path}
    BY <2>7, Added, Zenon
  <2> QED  BY <2>6, <2>8
<1>5. CASE Leads(stack[1], name) /\ Len(path) > Len(stack[1].path) + 1
  <2> DEFINE n == tree.kids[stack[1].node][name]
  <2>8. Descends(program, name, n)
    BY <1>1, <1>5, LeadsTo
  <2>9. Fits(stack[1].path)
    <3>1. stack[1].left[name] = n
      BY <1>1, <1>2, PassedIs DEF Grounded, LeftStays
    <3> HIDE DEF n
    <3>2. CASE program = "find"
      BY <1>0, <2>8, <3>1, <3>2, TurnFits DEF Goes
    <3>3. CASE program = "ldr"
      BY <1>0, <1>1, <2>8, <3>3, TurnFits, DescendsIs
    <3>4. program # "ld"
      BY <2>8 DEF Descends
    <3> QED  BY <1>1, <3>2, <3>3, <3>4
  <2>1. /\ Descends(program, name, Found(name)) /\ IsDir(Follow(Found(name)))
        /\ Stay(Follow(Found(name))) # {} /\ Links(name) <= MaxLinks
    BY <1>1, <1>3, <1>5, <2>9, LeadsTo DEF Links
  <2>2. Goes(name) /\ ~Blind(name)
    BY <1>3, <2>1, <2>9 DEF Blind, Stats
  <2>3. stack' = <<Inner(name)>> \o Passed(name)
    BY <2>2 DEF Turn
  <2>4. Inner(name).node = Follow(Found(name)) /\ ~Inner(name).reading
    BY <1>0, <2>2, TurnIs
  <2>5. ~Dead(tree.kind, Inner(name))
    BY <2>1, <2>4 DEF Dead, IsDir
  <2>6. Inner(name).path = Append(stack[1].path, name)
    BY <1>0, <2>2, <2>5, TurnFits
  <2>7. Under(path, Inner(name))
    <3> DEFINE q == Append(stack[1].path, name)
    <3>1. Beyond(q, stack[1], name)
      BY <1>1, NextPath
    <3>2. Inner(name).path = q
      BY <2>6
    <3> HIDE DEF q
    <3>3. Len(q) = Len(stack[1].path) + 1 /\ Len(stack[1].path) \in Nat
          /\ q[Len(stack[1].path) + 1] = name
          /\ \A k \in 1 .. Len(stack[1].path) : q[k] = stack[1].path[k]
      BY <3>1 DEF Beyond, After
    <3>4. \A k \in 1 .. Len(q) : path[k] = q[k]
      BY <3>3 DEF Under, After
    <3> QED  BY <1>5, <3>2, <3>3, <3>4 DEF Under
  <2> QED  BY <2>2, <2>3, <2>4, <2>5, <2>7 DEF Awaits
<1> QED  BY <1>2, <1>4, <1>5

LEMMA EntryCover ==
  ASSUME Grounded, Match(tree.kind, stack, Levels), Cover(tree.kind, stack, out, Asked),
         stack # <<>>, stack[1].reading, NEW name \in DOMAIN stack[1].left, Turn(name), ~cut'
  PROVE  Cover(tree.kind, stack', out', Asked)
<1> DEFINE r == Passed(name)
           t == <<Inner(name)>> \o r
<1>0. Typed
  BY DEF Grounded
<1>1. /\ r \in Seq(Listing) /\ r # <<>> /\ r[1] = Rest(name) /\ stack \in Seq(Listing)
      /\ Len(r) = Len(stack) /\ Len(stack) \in Nat
      /\ Len(stack) >= 1 /\ \A i \in 2 .. Len(stack) : r[i] = stack[i]
      /\ stack[1] \in Listing
  BY <1>0, PassedIs
<1>2. /\ Rest(name).path = stack[1].path /\ Rest(name).reading
      /\ DOMAIN Rest(name).left = DOMAIN stack[1].left \ {name}
  BY <1>0, TurnIs
<1>3. (stack' = t /\ (Goes(name) \/ Blind(name))) \/ stack' = r
  BY DEF Turn
<1> HIDE DEF r
<1>4. ~Dead(tree.kind, stack[1]) /\ 1 \in 1 .. Len(stack)
  BY <1>1 DEF Dead
<1>5. Matched(stack[1])
  BY <1>4 DEF Match, Matched
<1>6. DOMAIN out \subseteq DOMAIN out'
  <2>1. IsABag(out)
    BY <1>0 DEF Typed
  <2>2. DOMAIN Add(out, Printed(name)) = DOMAIN out \cup {Printed(name)}
    BY <2>1, Added, Zenon
  <2> QED  BY <2>2 DEF Turn
<1>7. ASSUME Goes(name) \/ Blind(name)
      PROVE  /\ Len(t) = Len(r) + 1 /\ t[1] = Inner(name)
             /\ \A i \in 2 .. Len(r) + 1 : t[i] = r[i - 1] /\ i - 1 \in 1 .. Len(r)
  <2>1. Inner(name) \in Listing
    BY <1>0, <1>7, TurnIs
  <2> QED  BY <1>1, <2>1, Pushed
<1> HIDE DEF t
<1>8. ASSUME NEW i \in 1 .. Len(r), NEW path, Awaits(tree.kind, r[i], path)
      PROVE  \E j \in 1 .. Len(stack') : Awaits(tree.kind, stack'[j], path)
  <2>1. CASE stack' = r
    BY <1>8, <2>1
  <2>2. CASE stack' = t /\ (Goes(name) \/ Blind(name))
    <3>1. i + 1 \in 2 .. Len(r) + 1 /\ i + 1 \in 1 .. Len(t) /\ (i + 1) - 1 = i
      BY <1>1, <1>7, <2>2
    <3>2. t[i + 1] = r[i]
      BY <1>7, <2>2, <3>1
    <3> QED  BY <1>8, <2>2, <3>1, <3>2
  <2> QED  BY <1>3, <2>1, <2>2
<1>9. ASSUME NEW i \in 1 .. Len(stack), NEW path \in Asked, Awaits(tree.kind, stack[i], path)
      PROVE  \/ path \in DOMAIN out'
             \/ \E j \in 1 .. Len(stack') : Awaits(tree.kind, stack'[j], path)
  <2>1. CASE i # 1
    <3>1. r[i] = stack[i] /\ i \in 1 .. Len(r)
      BY <1>1, <2>1
    <3> QED  BY <1>8, <1>9, <3>1
  <2>2. CASE i = 1 /\ ~(After(path, stack[1]) = name)
    <3>1. Awaits(tree.kind, Rest(name), path)
      BY <1>2, <1>9, <2>2 DEF Awaits, Dead, Under, After
    <3>2. 1 \in 1 .. Len(r)
      BY <1>1
    <3> QED  BY <1>1, <1>8, <3>1, <3>2
  <2>3. CASE i = 1 /\ After(path, stack[1]) = name
    <3>1. Under(path, stack[1])
      BY <1>9, <2>3 DEF Awaits
    <3>2. \/ path \in DOMAIN out'
          \/ /\ stack' = t /\ (Goes(name) \/ Blind(name)) /\ Awaits(tree.kind, Inner(name), path)
      BY <1>5, <2>3, <3>1, TurnCovers DEF t, r
    <3>3. ASSUME stack' = t, Goes(name) \/ Blind(name), Awaits(tree.kind, Inner(name), path)
          PROVE  \E j \in 1 .. Len(stack') : Awaits(tree.kind, stack'[j], path)
      <4>1. 1 \in 1 .. Len(t) /\ t[1] = Inner(name)
        BY <1>1, <1>7, <3>3
      <4> QED  BY <3>3, <4>1
    <3> QED  BY <3>2, <3>3
  <2> QED  BY <2>1, <2>2, <2>3
<1> QED  BY <1>6, <1>9, CoverMoved

(***************************************************************************)
(* The steps.                                                              *)
(***************************************************************************)
LEMMA Fewer ==
  ASSUME tree \in Trees, tree' = tree, program' = program, changed \subseteq changed'
  PROVE  /\ \A d : Stay(d)' \subseteq Stay(d)
         /\ Levels' \subseteq Levels /\ Asked' \subseteq Asked
<1>1. Levels' \subseteq Levels /\ \A dir \in Levels' : Wanted(dir)' \subseteq Wanted(dir)
  BY LevelsShrink
<1> QED  BY <1>1, LevelsShrink DEF Asked

(* What is left of the invariant when only the stack changes. *)
LEMMA StackStep ==
  ASSUME Grounded, ~cut => Spine(tree.kind, stack) /\ Once(tree.kind, stack, out) /\ Complete,
         UNCHANGED <<program, at, tree, kids, out, cut, changed>>, at = "walk",
         stack' \in Seq(Listing), Counted(stack', opened'),
         \A i \in 1 .. Len(stack') :
           /\ program # "find" => DOMAIN stack'[i].left \subseteq Name
           /\ Len(stack'[i].path) <= MaxPath
           /\ \A m \in DOMAIN stack'[i].left :
                m \in Stay(stack'[i].node) => stack'[i].left[m] = tree.kids[stack'[i].node][m],
         ~cut => /\ Spine(tree.kind, stack') /\ Once(tree.kind, stack', out)
                 /\ Match(tree.kind, stack', Levels) /\ Cover(tree.kind, stack', out, Asked)
  PROVE  Inv'
<1>1. Typed'
  BY DEF Grounded, Typed
<1>2. LeftStays'
  BY DEF LeftStays, Stay
<1>3. Grounded'
  BY <1>1, <1>2 DEF Grounded, StayKids, NoIslands, Stay, Linked, Counted
<1>4. Levels' \subseteq Levels /\ Asked' \subseteq Asked
  BY Fewer DEF Grounded, Typed
<1>5. ~cut => Complete'
  <2>1. ASSUME ~cut  PROVE Match(tree.kind, stack', Levels') /\ Cover(tree.kind, stack', out, Asked')
    BY <1>4, <2>1 DEF Match, Cover
  <2> QED  BY <2>1 DEF Complete, Match, Cover, Awaits, Under, After, Dead
<1>6. ~cut => Spine(tree.kind, stack)' /\ Once(tree.kind, stack, out)'
  BY DEF Spine, Once, Awaits, Under, After, Dead
<1> QED  BY <1>3, <1>5, <1>6 DEF Inv

LEMMA EntryKeeps ==
  ASSUME Inv, Entry
  PROVE  Inv'
<1>0. Grounded /\ Typed
  BY DEF Inv, Grounded
<1>1. /\ at = "walk" /\ stack # <<>> /\ stack[1].reading /\ stack[1] \in Listing
      /\ Len(stack) \in Nat /\ 1 \in 1 .. Len(stack)
  BY <1>0, EntryIs
<1>2. PICK name \in DOMAIN stack[1].left : Turn(name)
  BY <1>0, EntryIs
<1>3. UNCHANGED <<program, at, tree, kids, opened, changed>>
  BY DEF Entry
<1>4. Grounded'
  BY <1>0, EntryGrounded
<1>5. Levels' \subseteq Levels /\ Asked' \subseteq Asked
  BY <1>0, <1>3, Fewer DEF Typed
<1>6. ASSUME ~cut'
      PROVE  /\ Spine(tree.kind, stack') /\ Once(tree.kind, stack', out')
             /\ Match(tree.kind, stack', Levels) /\ Cover(tree.kind, stack', out', Asked)
  <2>1. ~cut
    BY <1>0, <1>1, <1>2, <1>6, TurnFits
  <2>2. /\ Spine(tree.kind, stack) /\ Once(tree.kind, stack, out)
        /\ Match(tree.kind, stack, Levels) /\ Cover(tree.kind, stack, out, Asked)
    BY <1>1, <2>1 DEF Inv, Complete
  <2>3. \A i \in 2 .. Len(stack) : stack[i].reading
    BY <1>0 DEF Grounded, Counted
  <2>4. Spine(tree.kind, stack')
    BY <1>0, <1>1, <1>2, <1>6, <2>2, EntrySpine
  <2>5. Once(tree.kind, stack', out')
    BY <1>0, <1>1, <1>2, <1>6, <2>2, <2>3, EntryOnce
  <2>6. Match(tree.kind, stack', Levels)
    BY <1>0, <1>1, <1>2, <1>6, <2>2, EntryMatch
  <2>7. Cover(tree.kind, stack', out', Asked)
    BY <1>0, <1>1, <1>2, <1>6, <2>2, EntryCover
  <2> QED  BY <2>4, <2>5, <2>6, <2>7
<1>7. ~cut' => Spine(tree.kind, stack)' /\ Once(tree.kind, stack, out)'
  BY <1>3, <1>6 DEF Spine, Once, Awaits, Under, After, Dead
<1>8. ~cut' => Complete'
  <2>1. ASSUME ~cut'  PROVE Match(tree.kind, stack', Levels') /\ Cover(tree.kind, stack', out', Asked')
    BY <1>5, <1>6, <2>1 DEF Match, Cover
  <2> QED  BY <1>3, <2>1 DEF Complete, Match, Cover, Awaits, Under, After, Dead
<1> QED  BY <1>4, <1>7, <1>8 DEF Inv

(* The top call. *)
LEMMA AtCallIs ==
  ASSUME Grounded, NEW b \in BOOLEAN, AtCall(b)
  PROVE  /\ at = "walk" /\ stack # <<>> /\ stack \in Seq(Listing) /\ stack[1] \in Listing
         /\ Len(stack) \in Nat /\ Len(stack) >= 1 /\ 1 \in 1 .. Len(stack)
         /\ Head(stack) = stack[1] /\ stack[1].reading = b
         /\ stack[1].node \in Node /\ stack[1].links \in Nat /\ Len(stack[1].path) \in Nat
         /\ \A i \in 1 .. Len(stack) :
              /\ program # "find" => DOMAIN stack[i].left \subseteq Name
              /\ Len(stack[i].path) <= MaxPath
              /\ \A m \in DOMAIN stack[i].left :
                   m \in Stay(stack[i].node) => stack[i].left[m] = tree.kids[stack[i].node][m]
         /\ \A i \in 2 .. Len(stack) : stack[i].reading
         /\ opened = IF b THEN Len(stack) ELSE Len(stack) - 1
<1>1. at = "walk" /\ stack # <<>> /\ stack \in Seq(Listing) /\ Head(stack) = stack[1]
      /\ stack[1].reading = b
  BY DEF AtCall, Grounded, Typed
<1>2. Len(stack) \in Nat /\ Len(stack) >= 1 /\ 1 \in 1 .. Len(stack) /\ stack[1] \in Listing
  BY <1>1, EmptySeq, LenProperties
<1>3. stack[1].node \in Node /\ stack[1].links \in Nat /\ Len(stack[1].path) \in Nat
  BY <1>2, ListingIs
<1>4. \A i \in 1 .. Len(stack) :
        /\ program # "find" => DOMAIN stack[i].left \subseteq Name
        /\ Len(stack[i].path) <= MaxPath
        /\ \A m \in DOMAIN stack[i].left :
             m \in Stay(stack[i].node) => stack[i].left[m] = tree.kids[stack[i].node][m]
  BY DEF Grounded, Typed, LeftStays
<1>5. /\ \A i \in 2 .. Len(stack) : stack[i].reading
      /\ opened = IF b THEN Len(stack) ELSE Len(stack) - 1
  BY <1>1 DEF Grounded, Counted
<1> QED  BY <1>1, <1>2, <1>3, <1>4, <1>5

LEMMA OpendirKeeps ==
  ASSUME Inv, Opendir
  PROVE  Inv'
<1>0. Grounded /\ Typed
  BY DEF Inv, Grounded
<1> DEFINE c == stack[1]
           k == kids[c.node]
           e == IF program # "find" THEN k
                ELSE [m \in Dots \cup DOMAIN k |-> IF m \in Dots THEN c.node ELSE k[m]]
           u == [c EXCEPT !.reading = TRUE, !.left = e]
<1>1. /\ at = "walk" /\ stack # <<>> /\ stack \in Seq(Listing) /\ c \in Listing
      /\ Len(stack) \in Nat /\ Len(stack) >= 1 /\ 1 \in 1 .. Len(stack) /\ ~c.reading
      /\ Head(stack) = c /\ c.node \in Node /\ opened = Len(stack) - 1
      /\ \A i \in 1 .. Len(stack) :
           /\ program # "find" => DOMAIN stack[i].left \subseteq Name
           /\ Len(stack[i].path) <= MaxPath
           /\ \A m \in DOMAIN stack[i].left :
                m \in Stay(stack[i].node) => stack[i].left[m] = tree.kids[stack[i].node][m]
      /\ \A i \in 2 .. Len(stack) : stack[i].reading
  BY <1>0, AtCallIs DEF Opendir
<1>2. /\ IsDir(c.node) /\ opened' = opened + 1 /\ stack' = [stack EXCEPT ![1] = u]
      /\ UNCHANGED <<program, at, tree, kids, out, cut, changed>>
  BY <1>1 DEF Opendir, CanOpen
<1>3. /\ e \in Entries(Name \cup Dots) /\ (program # "find" => DOMAIN e \subseteq Name)
      /\ \A m \in Stay(c.node) : m \in DOMAIN e /\ e[m] = tree.kids[c.node][m]
  <2> DEFINE f == [m \in Dots \cup DOMAIN k |-> IF m \in Dots THEN c.node ELSE k[m]]
  <2>1. k \in Entries(Name)
    BY <1>0, <1>1 DEF Typed
  <2>2. PICK N \in SUBSET Name : k \in [N -> Node]
    BY <2>1 DEF Entries
  <2>3. \A m \in Stay(c.node) : m \in DOMAIN k /\ k[m] = tree.kids[c.node][m]
    BY <1>0, <1>1 DEF Grounded, StayKids
  <2>4. f \in [N \cup Dots -> Node] /\ \A m \in N : f[m] = k[m]
    BY <1>1, <2>2, WalkAssumption
  <2>5. N \cup Dots \in SUBSET (Name \cup Dots) /\ N \in SUBSET (Name \cup Dots)
    BY <2>2
  <2>6. k \in Entries(Name \cup Dots) /\ f \in Entries(Name \cup Dots)
    BY <2>2, <2>4, <2>5 DEF Entries
  <2>7. \A m \in Stay(c.node) : m \in DOMAIN f /\ f[m] = tree.kids[c.node][m]
    BY <2>2, <2>3, <2>4
  <2>8. e = k \/ (program = "find" /\ e = f)
    OBVIOUS
  <2> HIDE DEF e, f, k
  <2> QED  BY <2>2, <2>3, <2>6, <2>7, <2>8
<1> HIDE DEF e
<1>4. /\ u \in Listing /\ u.path = c.path /\ u.node = c.node /\ u.links = c.links
      /\ u.reading /\ u.left = e
  BY <1>1, <1>3 DEF Listing
<1> HIDE DEF u
<1>5. /\ stack' \in Seq(Listing) /\ Len(stack') = Len(stack) /\ stack' # <<>>
      /\ stack'[1] = u /\ \A i \in 2 .. Len(stack) : stack'[i] = stack[i]
  BY <1>1, <1>2, <1>4, Replaced
<1>6. Counted(stack', opened')
  BY <1>1, <1>2, <1>4, <1>5 DEF Counted
<1>7. \A i \in 1 .. Len(stack') :
        /\ program # "find" => DOMAIN stack'[i].left \subseteq Name
        /\ Len(stack'[i].path) <= MaxPath
        /\ \A m \in DOMAIN stack'[i].left :
             m \in Stay(stack'[i].node) => stack'[i].left[m] = tree.kids[stack'[i].node][m]
  <2> SUFFICES ASSUME NEW i \in 1 .. Len(stack)
               PROVE  /\ program # "find" => DOMAIN stack'[i].left \subseteq Name
                      /\ Len(stack'[i].path) <= MaxPath
                      /\ \A m \in DOMAIN stack'[i].left :
                           m \in Stay(stack'[i].node)
                             => stack'[i].left[m] = tree.kids[stack'[i].node][m]
    BY <1>5
  <2>1. CASE i = 1
    BY <1>1, <1>3, <1>4, <1>5, <2>1
  <2>2. CASE i # 1
    <3>1. stack'[i] = stack[i]
      BY <1>5, <2>2
    <3> QED  BY <1>1, <3>1
  <2> QED  BY <2>1, <2>2
<1>8. ASSUME ~cut
      PROVE  /\ Spine(tree.kind, stack') /\ Once(tree.kind, stack', out)
             /\ Match(tree.kind, stack', Levels) /\ Cover(tree.kind, stack', out, Asked)
  <2>1. /\ Spine(tree.kind, stack) /\ Once(tree.kind, stack, out)
        /\ Match(tree.kind, stack, Levels) /\ Cover(tree.kind, stack, out, Asked)
    BY <1>1, <1>8 DEF Inv, Complete
  <2>2. ~Dead(tree.kind, c) /\ ~Dead(tree.kind, u)
    BY <1>2, <1>4 DEF Dead, IsDir
  <2>3. /\ \A path : Awaits(tree.kind, u, path) => Awaits(tree.kind, c, path)
        /\ \A path : Awaits(tree.kind, c, path) <=> Under(path, c)
        /\ \A path : Under(path, c) /\ After(path, c) \in DOMAIN e => Awaits(tree.kind, u, path)
    BY <1>1, <1>4, <2>2 DEF Awaits, Under, After
  <2>4. Spine(tree.kind, stack')
    BY <1>1, <1>2, <1>4, <2>1, <2>2, SpineReplaced
  <2>5. Once(tree.kind, stack', out)
    BY <1>1, <1>2, <1>4, <2>1, <2>3, OnceReplaced
  <2>6. Matched(c)
    BY <1>1, <2>1, <2>2 DEF Match, Matched
  <2>7. Match(tree.kind, stack', Levels)
    <3> SUFFICES ASSUME NEW i \in 1 .. Len(stack), NEW dir \in Levels,
                        ~Dead(tree.kind, stack'[i]), stack'[i].path = dir.path
                 PROVE  stack'[i].node = dir.node /\ stack'[i].links = dir.links
      BY <1>5 DEF Match
    <3>1. CASE i = 1
      BY <1>4, <1>5, <2>6, <3>1 DEF Matched
    <3>2. CASE i # 1
      <4>1. stack'[i] = stack[i]
        BY <1>5, <3>2
      <4> QED  BY <2>1, <4>1 DEF Match
    <3> QED  BY <3>1, <3>2
  <2>8. ASSUME NEW i \in 1 .. Len(stack), NEW path \in Asked, Awaits(tree.kind, stack[i], path)
        PROVE  \E j \in 1 .. Len(stack') : Awaits(tree.kind, stack'[j], path)
    <3>1. CASE i = 1
      <4>1. After(path, c) \in DOMAIN e
        <5>1. tree \in Trees /\ Under(path, c)
          BY <1>0, <2>3, <2>8, <3>1 DEF Typed
        <5>2. After(path, c) \in Stay(c.node)
          BY <1>1, <2>6, <5>1, Way
        <5> QED  BY <1>3, <5>2
      <4> QED  BY <1>1, <1>5, <2>3, <2>8, <3>1, <4>1
    <3>2. CASE i # 1
      <4>1. stack'[i] = stack[i] /\ i \in 1 .. Len(stack')
        BY <1>5, <3>2
      <4> QED  BY <2>8, <4>1
    <3> QED  BY <3>1, <3>2
  <2>9. Cover(tree.kind, stack', out, Asked)
    BY <2>1, <2>8, CoverMoved
  <2> QED  BY <2>4, <2>5, <2>7, <2>9
<1> QED  BY <1>0, <1>1, <1>2, <1>5, <1>6, <1>7, <1>8, StackStep DEF Inv

(* The stack without its top call, when nothing asked for awaited it. *)
LEMMA ReturnKeeps ==
  ASSUME Inv, NEW b \in BOOLEAN, AtCall(b), Return, opened' = Len(stack) - 1,
         UNCHANGED <<program, at, tree, kids, out, cut, changed>>,
         ~cut => \A path \in Asked : ~Awaits(tree.kind, stack[1], path)
  PROVE  Inv'
<1>0. Grounded /\ Typed
  BY DEF Inv, Grounded
<1>1. /\ at = "walk" /\ stack # <<>> /\ stack \in Seq(Listing) /\ Len(stack) \in Nat
      /\ Len(stack) >= 1
      /\ \A i \in 1 .. Len(stack) :
           /\ program # "find" => DOMAIN stack[i].left \subseteq Name
           /\ Len(stack[i].path) <= MaxPath
           /\ \A m \in DOMAIN stack[i].left :
                m \in Stay(stack[i].node) => stack[i].left[m] = tree.kids[stack[i].node][m]
      /\ \A i \in 2 .. Len(stack) : stack[i].reading
  BY <1>0, AtCallIs
<1> DEFINE t == Tail(stack)
<1>2. /\ t \in Seq(Listing) /\ Len(t) = Len(stack) - 1
      /\ \A i \in 1 .. Len(stack) - 1 : t[i] = stack[i + 1]
  BY <1>1, Popped
<1>3. stack' = t
  BY DEF Return
<1> HIDE DEF t
<1>4. \A i \in 1 .. Len(t) : t[i] = stack[i + 1] /\ i + 1 \in 2 .. Len(stack) /\ i + 1 \in 1 .. Len(stack)
  BY <1>1, <1>2
<1>5. Counted(t, opened')
  <2>1. \A i \in 1 .. Len(t) : t[i].reading
    BY <1>1, <1>4
  <2>2. \A i \in 2 .. Len(t) : i \in 1 .. Len(t)
    BY <1>1, <1>2
  <2>3. t # <<>> => 1 \in 1 .. Len(t)
    BY <1>2, EmptySeq, LenProperties
  <2> QED  BY <1>2, <2>1, <2>2, <2>3 DEF Counted
<1>6. \A i \in 1 .. Len(t) :
        /\ program # "find" => DOMAIN t[i].left \subseteq Name
        /\ Len(t[i].path) <= MaxPath
        /\ \A m \in DOMAIN t[i].left :
             m \in Stay(t[i].node) => t[i].left[m] = tree.kids[t[i].node][m]
  <2> SUFFICES ASSUME NEW i \in 1 .. Len(t)
               PROVE  /\ program # "find" => DOMAIN t[i].left \subseteq Name
                      /\ Len(t[i].path) <= MaxPath
                      /\ \A m \in DOMAIN t[i].left :
                           m \in Stay(t[i].node) => t[i].left[m] = tree.kids[t[i].node][m]
    OBVIOUS
  <2>1. PICK k \in 1 .. Len(stack) : t[i] = stack[k]
    BY <1>4
  <2> QED  BY <1>1, <2>1
<1>7. ASSUME ~cut
      PROVE  /\ Spine(tree.kind, t) /\ Once(tree.kind, t, out)
             /\ Match(tree.kind, t, Levels) /\ Cover(tree.kind, t, out, Asked)
  <2>1. /\ Spine(tree.kind, stack) /\ Once(tree.kind, stack, out)
        /\ Match(tree.kind, stack, Levels) /\ Cover(tree.kind, stack, out, Asked)
    BY <1>1, <1>7 DEF Inv, Complete
  <2>2. Spine(tree.kind, t)
    BY <1>1, <2>1, SpinePopped DEF t
  <2>3. Once(tree.kind, t, out)
    BY <1>1, <2>1, OncePopped DEF t
  <2>4. Match(tree.kind, t, Levels)
    BY <1>4, <2>1 DEF Match
  <2>5. ASSUME NEW i \in 1 .. Len(stack), NEW path \in Asked, Awaits(tree.kind, stack[i], path)
        PROVE  \E j \in 1 .. Len(t) : Awaits(tree.kind, t[j], path)
    <3>1. i # 1
      BY <1>7, <2>5
    <3>2. i - 1 \in 1 .. Len(t) /\ (i - 1) + 1 = i
      BY <1>1, <1>2, <3>1
    <3>3. t[i - 1] = stack[i]
      BY <1>4, <3>2
    <3> QED  BY <2>5, <3>2, <3>3
  <2>6. Cover(tree.kind, t, out, Asked)
    BY <2>1, <2>5, CoverMoved
  <2> QED  BY <2>2, <2>3, <2>4, <2>6
<1> QED  BY <1>0, <1>1, <1>2, <1>3, <1>5, <1>6, <1>7, StackStep DEF Inv

(* A directory on the way to what is asked for can be opened. *)
LEMMA OpenFailsKeeps ==
  ASSUME Inv, OpenFails
  PROVE  Inv'
<1>0. Grounded /\ Typed
  BY DEF Inv, Grounded
<1>1. AtCall(FALSE) /\ ~CanOpen(Head(stack)) /\ Return
      /\ UNCHANGED <<program, at, tree, kids, opened, out, cut, changed>>
  BY DEF OpenFails
<1>2. /\ at = "walk" /\ stack[1] \in Listing /\ Len(stack) \in Nat /\ 1 \in 1 .. Len(stack)
      /\ Head(stack) = stack[1] /\ ~stack[1].reading /\ stack[1].node \in Node
      /\ opened = Len(stack) - 1
  BY <1>0, <1>1, AtCallIs
<1>3. ASSUME ~cut, NEW path \in Asked, Awaits(tree.kind, stack[1], path)  PROVE FALSE
  <2>1. Spine(tree.kind, stack) /\ Match(tree.kind, stack, Levels)
    BY <1>2, <1>3 DEF Inv, Complete
  <2>2. ~Dead(tree.kind, stack[1]) /\ Under(path, stack[1])
    BY <1>3 DEF Awaits
  <2>3. Matched(stack[1])
    BY <1>2, <2>1, <2>2 DEF Match, Matched
  <2>4. tree \in Trees
    BY <1>0 DEF Typed
  <2>5. /\ Len(stack[1].path) < MaxOpen /\ stack[1].links <= MaxLinks
        /\ After(path, stack[1]) \in Stay(stack[1].node)
    BY <1>2, <2>2, <2>3, <2>4, Way
  <2>6. IsDir(stack[1].node)
    BY <1>2, <2>2 DEF Dead, IsDir
  <2>7. Linked(stack[1].node)
    BY <1>0, <1>2, <2>5 DEF Grounded, StayKids, NoIslands
  <2>8. opened = Len(stack[1].path)
    BY <1>2, <2>1, <2>2 DEF Spine
  <2> QED  BY <1>1, <1>2, <2>5, <2>6, <2>7, <2>8 DEF CanOpen
<1> QED  BY <1>1, <1>2, <1>3, ReturnKeeps

LEMMA ClosedirKeeps ==
  ASSUME Inv, Closedir
  PROVE  Inv'
<1>0. Grounded /\ Typed
  BY DEF Inv, Grounded
<1>1. AtCall(TRUE) /\ Head(stack).left = <<>> /\ opened' = opened - 1 /\ Return
      /\ UNCHANGED <<program, at, tree, kids, out, cut, changed>>
  BY DEF Closedir
<1>2. Head(stack) = stack[1] /\ stack[1].reading /\ opened = Len(stack)
  BY <1>0, <1>1, AtCallIs
<1>3. DOMAIN stack[1].left = {}
  <2>1. DOMAIN <<>> = {}
    BY EntriesAre
  <2> QED  BY <1>1, <1>2, <2>1
<1>4. \A path : ~Awaits(tree.kind, stack[1], path)
  BY <1>2, <1>3 DEF Awaits
<1> QED  BY <1>1, <1>2, <1>4, ReturnKeeps

LEMMA StartKeeps ==
  ASSUME Inv, Start
  PROVE  Inv'
<1>0. Grounded /\ Typed
  BY DEF Inv, Grounded
<1>1. /\ at = "start" /\ stack = <<>> /\ DOMAIN out = {} /\ tree \in Trees
      /\ UNCHANGED <<tree, kids, opened, out, cut, changed>>
      /\ program \in {"find", "ld", "ldr"}
  BY <1>0 DEF Start, Typed
<1>2. opened = 0
  BY <1>0, <1>1 DEF Grounded, Counted
<1> DEFINE c == Call(<<>>, Root, 0)
<1>3. /\ c \in Listing /\ c.path = <<>> /\ c.node = Root /\ c.links = 0 /\ ~c.reading
      /\ DOMAIN c.left = {}
  <2> DEFINE e == <<>>
             z == 0
  <2>1. e \in Seq(Name) /\ Root \in Node /\ z \in Nat
    BY WalkAssumption
  <2> HIDE DEF c
  <2>2. c = Call(e, Root, z)
    BY DEF c
  <2> HIDE DEF e, z
  <2>3. /\ Call(e, Root, z) \in Listing /\ Call(e, Root, z).path = e
        /\ Call(e, Root, z).node = Root /\ Call(e, Root, z).links = z
        /\ ~Call(e, Root, z).reading /\ DOMAIN Call(e, Root, z).left = {}
    BY <2>1, CallIs
  <2>4. /\ c \in Listing /\ c.path = e /\ c.node = Root /\ c.links = z /\ ~c.reading
        /\ DOMAIN c.left = {}
    BY <2>2, <2>3
  <2> QED  BY <2>4 DEF e, z
<1>4. at' \in {"walk", "refused", "start"} /\ program' \in {"find", "ld", "ldr"}
      /\ (stack' = <<>> \/ (at' = "walk" /\ stack' = <<c>> /\ program' = program))
      /\ (at' = "walk" => stack' = <<c>>)
  BY <1>1 DEF Start
<1> HIDE DEF c
<1>5. CASE stack' = <<>> /\ at' # "walk"
  <2>1. Grounded'
    <3>1. stack' \in Seq(Listing) /\ Len(stack') = 0
      BY <1>5
    <3>2. Typed'
      BY <1>0, <1>1, <1>4, <1>5, <3>1 DEF Typed
    <3>3. Counted(stack, opened)' /\ LeftStays'
      BY <1>1, <1>2, <1>5, <3>1 DEF Counted, LeftStays
    <3> QED  BY <1>0, <1>1, <3>2, <3>3 DEF Grounded, StayKids, NoIslands, Stay, Linked
  <2>2. Spine(tree.kind, stack)' /\ Once(tree.kind, stack, out)' /\ Complete'
    <3>1. Len(stack') = 0 /\ at' \notin {"walk", "done"}
      BY <1>4, <1>5
    <3> QED  BY <1>1, <3>1 DEF Spine, Once, Complete, Match
  <2> QED  BY <2>1, <2>2 DEF Inv
<1>6. CASE at' = "walk" /\ stack' = <<c>> /\ program' = program
  <2>1. /\ stack' \in Seq(Listing) /\ Len(stack') = 1 /\ stack'[1] = c /\ stack' # <<>>
        /\ \A i \in 1 .. 1 : i = 1
    BY <1>3, <1>6
  <2>2. Grounded'
    <3>1. MaxPath \in Nat /\ Len(c.path) = 0
      BY <1>3, WalkAssumption
    <3>2. \A i \in 1 .. Len(stack') : stack'[i] = c
      BY <2>1
    <3>3. Typed'
      BY <1>0, <1>1, <1>3, <1>6, <2>1, <3>1, <3>2 DEF Typed
    <3>4. Counted(stack, opened)' /\ LeftStays'
      BY <1>1, <1>2, <1>3, <2>1, <3>2 DEF Counted, LeftStays
    <3> QED  BY <1>0, <1>1, <3>3, <3>4 DEF Grounded, StayKids, NoIslands, Stay, Linked
  <2>3. Levels' \subseteq Levels /\ Asked' \subseteq Asked
    BY <1>1, <1>6, Fewer
  <2>4. tree.kind[Root] = "dir"
    BY <1>1, WalkAssumption
  <2>5. ~Dead(tree.kind, c)
    BY <1>3, <2>4 DEF Dead
  <2>6. \A path : Len(path) > 0 => Awaits(tree.kind, c, path)
    <3>1. Len(c.path) = 0
      BY <1>3
    <3> QED  BY <1>3, <2>5, <3>1 DEF Awaits, Under
  <2>7. \A path \in Asked : Len(path) > 0
    <3> SUFFICES ASSUME NEW path \in Asked  PROVE Len(path) > 0
      OBVIOUS
    <3>1. PICK dir \in Levels : \E m \in Wanted(dir) : path = Append(dir.path, m)
      BY DEF Asked
    <3>2. PICK m \in Wanted(dir) : path = Append(dir.path, m)
      BY <3>1
    <3>3. dir.path \in Seq(Name) /\ dir.node \in Node /\ m \in Stay(dir.node)
      BY <1>1, LevelsAre DEF Directories, Wanted
    <3>4. m \in Name
      BY <1>1, <3>3, KidsOf DEF Stay
    <3> QED  BY <3>2, <3>3, <3>4
  <2>8. Spine(tree.kind, stack')
    <3>1. Len(c.path) = 1 - 1
      BY <1>3
    <3> QED  BY <2>1, <3>1 DEF Spine
  <2>9. Match(tree.kind, stack', Levels')
    <3>1. ASSUME NEW dir \in Levels, dir.path = <<>>  PROVE dir.node = Root /\ dir.links = 0
      <4>1. ASSUME NEW d \in Levels, NEW m, Child(d, m, dir)  PROVE FALSE
        <5>1. d.path \in Seq(Name) /\ m \in Name /\ dir.path = Append(d.path, m)
          BY <1>1, <4>1, LevelsAre DEF Child, Directories
        <5>2. Len(dir.path) = Len(d.path) + 1 /\ Len(d.path) \in Nat /\ Len(dir.path) = 0
          BY <3>1, <5>1
        <5> QED  BY <5>2
      <4> QED  BY <1>1, <4>1, LevelsAre
    <3> QED  BY <1>3, <2>1, <2>3, <3>1 DEF Match
  <2>10. Cover(tree.kind, stack', out, Asked')
    BY <2>1, <2>3, <2>6, <2>7 DEF Cover
  <2>11. Once(tree.kind, stack', out)
    BY <1>1 DEF Once
  <2> QED  BY <1>1, <2>2, <2>8, <2>9, <2>10, <2>11
           DEF Inv, Complete, Spine, Once, Match, Cover, Awaits, Under, After, Dead
<1> QED  BY <1>4, <1>5, <1>6

LEMMA EndKeeps ==
  ASSUME Inv, End
  PROVE  Inv'
<1>0. Grounded /\ Typed
  BY DEF Inv, Grounded
<1>1. /\ at = "walk" /\ at' = "done" /\ stack = <<>> /\ tree \in Trees
      /\ UNCHANGED <<program, tree, kids, stack, opened, out, cut, changed>>
  BY <1>0 DEF End, Typed
<1>2. Typed'
  BY <1>0, <1>1 DEF Typed
<1>3. Grounded'
  BY <1>0, <1>1, <1>2 DEF Grounded, Counted, LeftStays, StayKids, NoIslands, Stay, Linked
<1>4. Levels' \subseteq Levels /\ Asked' \subseteq Asked
  BY <1>1, Fewer
<1>5. ASSUME ~cut
      PROVE  /\ Spine(tree.kind, stack) /\ Once(tree.kind, stack, out)
             /\ Match(tree.kind, stack, Levels') /\ Cover(tree.kind, stack, out, Asked')
  BY <1>1, <1>4, <1>5 DEF Inv, Complete, Match, Cover
<1> QED  BY <1>1, <1>3, <1>5 DEF Inv, Complete, Spine, Once, Match, Cover, Awaits, Under, After, Dead

(* Others take away what does not count any more, or add to it. *)
LEMMA TreeStep ==
  ASSUME Inv, UNCHANGED <<program, at, tree, stack, opened, out, cut>>,
         changed \subseteq changed', kids' \in [Node -> Entries(Name)], StayKids', NoIslands'
  PROVE  Inv'
<1>0. Grounded /\ Typed /\ tree \in Trees
  BY DEF Inv, Grounded, Typed
<1>1. /\ \A d : Stay(d)' \subseteq Stay(d)
      /\ Levels' \subseteq Levels /\ Asked' \subseteq Asked
  BY <1>0, Fewer
<1>2. Typed' /\ LeftStays'
  BY <1>0, <1>1 DEF Typed, Grounded, LeftStays
<1>3. Grounded'
  BY <1>0, <1>2 DEF Grounded, Counted
<1>4. ASSUME ~cut
      PROVE  /\ Spine(tree.kind, stack) /\ Once(tree.kind, stack, out)
             /\ Match(tree.kind, stack, Levels')
             /\ at \in {"walk", "done"} => Cover(tree.kind, stack, out, Asked')
  BY <1>1, <1>4 DEF Inv, Complete, Match, Cover
<1> QED  BY <1>3, <1>4 DEF Inv, Complete, Spine, Once, Match, Cover, Awaits, Under, After, Dead

LEMMA UnlinkKeeps ==
  ASSUME Inv, Unlink
  PROVE  Inv'
<1>0. kids \in [Node -> Entries(Name)] /\ StayKids /\ NoIslands /\ tree \in Trees
  BY DEF Inv, Grounded, Typed
<1>1. PICK d \in Node : \E m \in DOMAIN kids[d] :
         /\ kids[kids[d][m]] = <<>>
         /\ kids' = [kids EXCEPT ![d] = Restrict(@, DOMAIN @ \ {m})]
         /\ changed' = changed \cup {<<d, m>>}
  BY DEF Unlink
<1>2. PICK name \in DOMAIN kids[d] :
         /\ kids[kids[d][name]] = <<>>
         /\ kids' = [kids EXCEPT ![d] = Restrict(@, DOMAIN @ \ {name})]
         /\ changed' = changed \cup {<<d, name>>}
  BY <1>1
<1>3. UNCHANGED <<program, at, tree, stack, opened, out, cut>> /\ changed \subseteq changed'
  BY <1>2 DEF Unlink
<1> DEFINE e == Restrict(kids[d], DOMAIN kids[d] \ {name})
<1>4. /\ e \in Entries(Name) /\ DOMAIN e = DOMAIN kids[d] \ {name}
      /\ \A m \in DOMAIN e : e[m] = kids[d][m]
  <2>1. e \in Entries(Name)
    BY <1>0, EntriesAre
  <2> QED  BY <2>1 DEF Restrict
<1> HIDE DEF e
<1>5. /\ kids' \in [Node -> Entries(Name)] /\ kids'[d] = e
      /\ \A n \in Node : n # d => kids'[n] = kids[n]
  BY <1>0, <1>2, <1>4 DEF e
<1>6. StayKids'
  <2> SUFFICES ASSUME NEW n \in Node, NEW m \in Stay(n)'
               PROVE  m \in DOMAIN kids'[n] /\ kids'[n][m] = tree.kids[n][m]
    BY <1>3 DEF StayKids
  <2>1. m \in Stay(n) /\ <<n, m>> # <<d, name>>
    BY <1>2, <1>3 DEF Stay
  <2>2. m \in DOMAIN kids[n] /\ kids[n][m] = tree.kids[n][m]
    BY <1>0, <2>1 DEF StayKids
  <2> QED  BY <1>4, <1>5, <2>1, <2>2
<1>7. NoIslands'
  <2> SUFFICES ASSUME NEW n \in Node, DOMAIN kids'[n] # {}, n # Root
               PROVE  \E x \in Node : n \in Range(kids'[x])
    BY DEF NoIslands, Linked
  <2>1. DOMAIN kids[n] # {}
    BY <1>4, <1>5
  <2>2. PICK x \in Node : n \in Range(kids[x])
    BY <1>0, <2>1 DEF NoIslands, Linked
  <2>3. PICK m \in DOMAIN kids[x] : kids[x][m] = n
    BY <2>2 DEF Range
  <2>4. kids[n] # <<>>
    BY <2>1, EntriesAre
  <2>5. <<x, m>> # <<d, name>>
    BY <1>2, <2>3, <2>4
  <2>6. m \in DOMAIN kids'[x] /\ kids'[x][m] = n
    BY <1>4, <1>5, <2>3, <2>5
  <2> QED  BY <2>6 DEF Range
<1> QED  BY <1>3, <1>5, <1>6, <1>7, TreeStep

LEMMA CreateKeeps ==
  ASSUME Inv, Create
  PROVE  Inv'
<1>0. kids \in [Node -> Entries(Name)] /\ StayKids /\ NoIslands /\ tree \in Trees
  BY DEF Inv, Grounded, Typed
<1>1. PICK d \in Node, new \in Node, name \in Name :
        /\ Linked(d) /\ name \notin DOMAIN kids[d]
        /\ kids' = [kids EXCEPT ![d] = [m \in {name} \cup DOMAIN @ |-> IF m = name THEN new ELSE @[m]]]
        /\ changed' = changed \cup {<<d, name>>}
  BY DEF Create
<1>2. UNCHANGED <<program, at, tree, stack, opened, out, cut>> /\ changed \subseteq changed'
  BY <1>1 DEF Create
<1> DEFINE e == [m \in {name} \cup DOMAIN kids[d] |-> IF m = name THEN new ELSE kids[d][m]]
<1>3. /\ e \in Entries(Name) /\ DOMAIN kids[d] \subseteq DOMAIN e
      /\ \A m \in DOMAIN kids[d] : e[m] = kids[d][m]
  <2>1. DOMAIN kids[d] \subseteq Name /\ \A m \in DOMAIN kids[d] : kids[d][m] \in Node
    BY <1>0, EntriesAre
  <2>2. {name} \cup DOMAIN kids[d] \in SUBSET Name /\ e \in [{name} \cup DOMAIN kids[d] -> Node]
    BY <2>1
  <2>3. e \in Entries(Name)
    BY <2>2 DEF Entries
  <2> QED  BY <1>1, <2>3
<1>4. kids' = [kids EXCEPT ![d] = e]
  BY <1>1
<1> HIDE DEF e
<1>5. /\ kids' \in [Node -> Entries(Name)]
      /\ \A n \in Node : n # d => kids'[n] = kids[n]
      /\ kids'[d] = e
  BY <1>0, <1>3, <1>4
<1>6. \A n \in Node : /\ DOMAIN kids[n] \subseteq DOMAIN kids'[n]
                      /\ \A m \in DOMAIN kids[n] : kids'[n][m] = kids[n][m]
  BY <1>3, <1>5
<1>7. \A n : Linked(n) => Linked(n)'
  BY <1>6 DEF Linked, Range
<1>8. StayKids'
  <2> SUFFICES ASSUME NEW n \in Node, NEW m \in Stay(n)'
               PROVE  m \in DOMAIN kids'[n] /\ kids'[n][m] = tree.kids[n][m]
    BY <1>2 DEF StayKids
  <2>1. m \in Stay(n)
    BY <1>2 DEF Stay
  <2> QED  BY <1>0, <1>6, <2>1 DEF StayKids
<1>9. NoIslands'
  <2> SUFFICES ASSUME NEW n \in Node, DOMAIN kids'[n] # {}  PROVE Linked(n)'
    BY DEF NoIslands
  <2>1. Linked(n)
    BY <1>0, <1>1, <1>5 DEF NoIslands
  <2> QED  BY <1>7, <2>1
<1> QED  BY <1>2, <1>5, <1>8, <1>9, TreeStep

LEMMA InvInit ==
  ASSUME Init
  PROVE  Inv
<1>1. /\ program \in {"find", "ld", "ldr"} /\ at = "start" /\ tree \in Trees /\ kids = tree.kids
      /\ stack = <<>> /\ opened = 0 /\ out = EmptyBag /\ cut = FALSE
  BY DEF Init
<1>2. IsABag(out) /\ DOMAIN out = {}
  BY <1>1 DEF EmptyBag, SetToBag, IsABag
<1>3. stack \in Seq(Listing) /\ Len(stack) = 0
  BY <1>1
<1>4. kids \in [Node -> Entries(Name)]
  BY <1>1, WalkAssumption
<1>5. Typed /\ Counted(stack, opened) /\ LeftStays
  <2>1. Len(stack) = 0 /\ opened = 0 /\ stack = <<>>
    BY <1>1, <1>3
  <2>2. Counted(stack, opened) /\ LeftStays
    BY <2>1 DEF Counted, LeftStays
  <2>3. Typed
    <3>1. \A i \in 1 .. Len(stack) : FALSE
      BY <2>1
    <3>2. cut \in BOOLEAN /\ at \in {"start", "walk", "done", "refused"}
      BY <1>1
    <3> QED  BY <1>1, <1>2, <1>3, <1>4, <3>1, <3>2, Zenon DEF Typed
  <2> QED  BY <2>2, <2>3
<1>6. StayKids
  BY <1>1 DEF StayKids, Stay
<1>7. NoIslands
  <2> SUFFICES ASSUME NEW n \in Node \ {Root}, DOMAIN kids[n] # {}
               PROVE  \E d \in Node : n \in Range(kids[d])
    BY DEF NoIslands, Linked
  <2>1. kids[n] # <<>>
    BY EntriesAre
  <2> QED  BY <1>1, <2>1, WalkAssumption
<1>8. Spine(tree.kind, stack) /\ Once(tree.kind, stack, out) /\ Match(tree.kind, stack, Levels)
  BY <1>2, <1>3 DEF Spine, Once, Match
<1> QED  BY <1>1, <1>5, <1>6, <1>7, <1>8 DEF Inv, Grounded, Complete

LEMMA InvStutters ==
  ASSUME Inv, UNCHANGED vars
  PROVE  Inv'
<1>1. /\ UNCHANGED <<program, at, tree, stack, opened, out, cut>> /\ UNCHANGED kids
      /\ changed \subseteq changed'
  BY DEF vars
<1>2. kids' \in [Node -> Entries(Name)]
  BY <1>1 DEF Inv, Grounded, Typed
<1>3. StayKids' /\ NoIslands'
  BY DEF vars, Inv, Grounded, StayKids, NoIslands, Stay, Linked
<1> QED  BY <1>1, <1>2, <1>3, TreeStep

LEMMA InvMeans ==
  ASSUME Inv
  PROVE  EachOnce
<1>1. SUFFICES ASSUME ~cut
               PROVE  /\ \A path \in BagToSet(out) :
                           out[path] = 1 /\ \A i \in 1 .. Len(path) - 1 : path[i] \in Name
                      /\ at = "done" =>
                           /\ opened = 0
                           /\ \/ \E dir \in Levels : Len(dir.path) >= MaxOpen
                              \/ Expected \subseteq BagToSet(out)
  BY DEF EachOnce
<1>2. \A path \in BagToSet(out) :
        out[path] = 1 /\ \A i \in 1 .. Len(path) - 1 : path[i] \in Name
  BY <1>1 DEF Inv, Once, BagToSet
<1>3. ASSUME at = "done"
      PROVE  /\ opened = 0
             /\ \/ \E dir \in Levels : Len(dir.path) >= MaxOpen
                \/ Expected \subseteq BagToSet(out)
  <2>1. stack = <<>> /\ Len(stack) = 0 /\ tree \in Trees
    BY <1>3 DEF Inv, Grounded, Typed
  <2>2. opened = 0
    BY <2>1 DEF Inv, Grounded, Counted
  <2>3. Asked \subseteq DOMAIN out
    BY <1>1, <1>3, <2>1 DEF Inv, Complete, Cover
  <2>4. ASSUME \A dir \in Levels : ~(Len(dir.path) >= MaxOpen)
        PROVE  Expected \subseteq Asked
    <3>1. \A dir \in Levels : Len(dir.path) < MaxOpen
      <4>1. \A dir \in Levels : Len(dir.path) \in Nat
        BY <2>1, LevelsAre DEF Directories
      <4> QED  BY <2>4, <4>1, WalkAssumption
    <3> QED  BY <3>1 DEF Expected, Asked
  <2> QED  BY <2>2, <2>3, <2>4 DEF BagToSet
<1> QED  BY <1>2, <1>3

(* What is asked for is listed or awaited, and never both, in every state *)
(* of find, ld and ldr in which no path has been cut.                      *)
THEOREM ListedOrAwaited == Spec => []Inv
<1>1. Init => Inv
  BY InvInit
<1>2. Inv /\ [Next]_vars => Inv'
  <2> SUFFICES ASSUME Inv, [Next]_vars  PROVE Inv'
    OBVIOUS
  <2>1. CASE Start
    BY <2>1, StartKeeps
  <2>2. CASE Opendir
    BY <2>2, OpendirKeeps
  <2>3. CASE OpenFails
    BY <2>3, OpenFailsKeeps
  <2>4. CASE Entry
    BY <2>4, EntryKeeps
  <2>5. CASE Closedir
    BY <2>5, ClosedirKeeps
  <2>6. CASE End
    BY <2>6, EndKeeps
  <2>7. CASE Unlink
    BY <2>7, UnlinkKeeps
  <2>8. CASE Create
    BY <2>8, CreateKeeps
  <2>9. CASE UNCHANGED vars
    BY <2>9, InvStutters
  <2> QED  BY <2>1, <2>2, <2>3, <2>4, <2>5, <2>6, <2>7, <2>8, <2>9 DEF Next, Program
<1> QED  BY <1>1, <1>2, PTL DEF Spec

(* Whatever others do to the tree meanwhile, find, ld and ldr list nothing *)
(* twice, leave no directory open, and list all that stayed and was asked  *)
(* for, as long as the paths fit their buffers and a directory can be      *)
(* opened for each level.                                                  *)
THEOREM ListedOnce == Spec => []EachOnce
<1>1. Inv => EachOnce
  BY InvMeans
<1> QED  BY <1>1, ListedOrAwaited, PTL
=============================================================================
