--------------------------- MODULE PrintingProofs ---------------------------
(***************************************************************************)
(* PrintedOnce and PrintedThere of Printing, for every rc file, line and   *)
(* size of the buffer.                                                     *)
(*                                                                         *)
(* PrintedOnce is about the moments when a prompt is shown, so it is not   *)
(* inductive: the invariant says of every moment where a unit that the     *)
(* shell printed is, in the shell's buffer or out of it (Placed), and that *)
(* nothing is left of a line or in the buffer when a prompt is shown.      *)
(*                                                                         *)
(* PrintedThere also needs to know where descriptor 1 is at every call,    *)
(* and so which calls can follow which (Chain): Tidy.  Modes and OnLine    *)
(* are for a session at a terminal, Pending is for one in a script.        *)
(***************************************************************************)
EXTENDS Printing, SequenceTheorems, WellFoundedInduction, TLAPS

(***************************************************************************)
(* Sequences: what is in one, and what is in it once.                      *)
(***************************************************************************)
LEMMA NeverConcat ==
  ASSUME NEW S, NEW s \in Seq(S), NEW t \in Seq(S), NEW u
  PROVE  Never(u, s \o t) <=> Never(u, s) /\ Never(u, t)
<1> DEFINE r == s \o t
<1>1. /\ r \in Seq(S) /\ Len(r) = Len(s) + Len(t)
      /\ \A i \in 1 .. Len(s) + Len(t) : r[i] = IF i <= Len(s) THEN s[i] ELSE t[i - Len(s)]
  BY ConcatProperties
<1>2. /\ Len(s) \in Nat /\ Len(t) \in Nat
      /\ DOMAIN s = 1 .. Len(s) /\ DOMAIN t = 1 .. Len(t) /\ DOMAIN r = 1 .. Len(r)
  BY <1>1
<1> HIDE DEF r
<1>3. \A i \in DOMAIN s : i \in DOMAIN r /\ r[i] = s[i]
  BY <1>1, <1>2
<1>4. \A i \in DOMAIN t : i + Len(s) \in DOMAIN r /\ r[i + Len(s)] = t[i]
  BY <1>1, <1>2
<1>5. \A i \in DOMAIN r :
        \/ i \in DOMAIN s /\ r[i] = s[i]
        \/ i - Len(s) \in DOMAIN t /\ r[i] = t[i - Len(s)]
  BY <1>1, <1>2
<1>6. Never(u, r) <=> Never(u, s) /\ Never(u, t)
  BY <1>3, <1>4, <1>5 DEF Never
<1> QED  BY <1>6 DEF r

LEMMA OnceConcat ==
  ASSUME NEW S, NEW s \in Seq(S), NEW t \in Seq(S), NEW u
  PROVE  Once(u, s \o t) <=> (Once(u, s) /\ Never(u, t)) \/ (Never(u, s) /\ Once(u, t))
<1> DEFINE r == s \o t
<1>1. /\ r \in Seq(S) /\ Len(r) = Len(s) + Len(t)
      /\ \A i \in 1 .. Len(s) + Len(t) : r[i] = IF i <= Len(s) THEN s[i] ELSE t[i - Len(s)]
  BY ConcatProperties
<1>2. /\ Len(s) \in Nat /\ Len(t) \in Nat
      /\ DOMAIN s = 1 .. Len(s) /\ DOMAIN t = 1 .. Len(t) /\ DOMAIN r = 1 .. Len(r)
  BY <1>1
<1> HIDE DEF r
<1>3. \A i \in DOMAIN s : i \in DOMAIN r /\ r[i] = s[i]
  BY <1>1, <1>2
<1>4. \A i \in DOMAIN t : i + Len(s) \in DOMAIN r /\ r[i + Len(s)] = t[i] /\ i + Len(s) \notin DOMAIN s
  BY <1>1, <1>2
<1>5. \A i \in DOMAIN r :
        \/ i \in DOMAIN s /\ r[i] = s[i]
        \/ i - Len(s) \in DOMAIN t /\ r[i] = t[i - Len(s)] /\ i = (i - Len(s)) + Len(s) /\ i \notin DOMAIN s
  BY <1>1, <1>2
<1>6. ASSUME Once(u, s), Never(u, t)  PROVE Once(u, r)
  <2>1. PICK i \in DOMAIN s : \A j \in DOMAIN s : s[j] = u <=> j = i
    BY <1>6 DEF Once
  <2>2. \A j \in DOMAIN r : r[j] = u <=> j = i
    BY <1>3, <1>5, <1>6, <2>1 DEF Never
  <2> QED  BY <1>3, <2>2 DEF Once
<1>7. ASSUME Never(u, s), Once(u, t)  PROVE Once(u, r)
  <2>1. PICK i \in DOMAIN t : \A j \in DOMAIN t : t[j] = u <=> j = i
    BY <1>7 DEF Once
  <2>2. \A j \in DOMAIN r : r[j] = u <=> j = i + Len(s)
    <3>1. ASSUME NEW j \in DOMAIN r, r[j] = u  PROVE j = i + Len(s)
      BY <1>5, <1>7, <2>1, <3>1 DEF Never
    <3>2. r[i + Len(s)] = u
      BY <1>4, <2>1
    <3> QED  BY <3>1, <3>2
  <2> QED  BY <1>4, <2>2 DEF Once
<1>8. ASSUME Once(u, r)  PROVE (Once(u, s) /\ Never(u, t)) \/ (Never(u, s) /\ Once(u, t))
  <2>1. PICK i \in DOMAIN r : \A j \in DOMAIN r : r[j] = u <=> j = i
    BY <1>8 DEF Once
  <2>2. CASE i \in DOMAIN s
    <3>1. \A j \in DOMAIN s : s[j] = u <=> j = i
      BY <1>3, <2>1
    <3>2. \A j \in DOMAIN t : t[j] # u
      BY <1>4, <2>1, <2>2
    <3> QED  BY <2>2, <3>1, <3>2 DEF Once, Never
  <2>3. CASE i \notin DOMAIN s
    <3>1. \A j \in DOMAIN s : s[j] # u
      BY <1>3, <2>1, <2>3
    <3>2. i - Len(s) \in DOMAIN t /\ i = (i - Len(s)) + Len(s)
      BY <1>5, <2>3
    <3>3. \A j \in DOMAIN t : t[j] = u <=> j = i - Len(s)
      <4>1. \A j \in DOMAIN t : t[j] = u <=> j + Len(s) = i
        BY <1>4, <2>1
      <4>2. \A j \in DOMAIN t : j \in Int
        BY <1>2
      <4>3. i \in Int
        BY <1>1, <1>2
      <4> QED  BY <1>2, <4>1, <4>2, <4>3
    <3> QED  BY <3>1, <3>2, <3>3 DEF Once, Never
  <2> QED  BY <2>2, <2>3
<1>9. Once(u, r) <=> (Once(u, s) /\ Never(u, t)) \/ (Never(u, s) /\ Once(u, t))
  BY <1>6, <1>7, <1>8
<1> QED  BY <1>9 DEF r

LEMMA NeverEmpty == ASSUME NEW u  PROVE Never(u, <<>>) /\ ~Once(u, <<>>)
BY DEF Never, Once

LEMMA OnceOne == ASSUME NEW u, NEW v  PROVE Once(u, <<u>>) /\ (v # u => Never(v, <<u>>))
<1>1. <<u>>[1] = u /\ DOMAIN <<u>> = 1 .. 1
  OBVIOUS
<1> DEFINE s == <<u>>
<1>2. s[1] = u /\ \A j \in DOMAIN s : j = 1 /\ s[j] = u
  BY <1>1
<1>3. 1 \in DOMAIN s
  BY <1>1
<1> HIDE DEF s
<1>4. Once(u, s) /\ (v # u => Never(v, s))
  BY <1>2, <1>3 DEF Once, Never
<1> QED  BY <1>4 DEF s

(***************************************************************************)
(* Where a unit is: in a buffer, or where one has got.                     *)
(***************************************************************************)
Phase == {"rc", "prompt", "read", "left"}
Units == [id : Nat, by : Process, to : Place, line : Line \cup {<<>>}, phase : Phase]

OnlyAt(v, place, r) == Once(v, r[place]) /\ \A other \in Place \ {place} : Never(v, r[other])
Nowhere(v, r) == \A place \in Place : Never(v, r[place])
Placed(v, b, r) ==
  \/ Once(v, b) /\ Nowhere(v, r)
  \/ Never(v, b) /\ \E place \in Place : OnlyAt(v, place, r)

(* s gets to a place; what happens to v then. *)
Gets(r, at, s, q) == q = [r EXCEPT ![at] = @ \o s]
Moves(v, s, at, r, q) ==
  /\ Never(v, s) => /\ Nowhere(v, r) => Nowhere(v, q)
                    /\ \A place \in Place : OnlyAt(v, place, r) => OnlyAt(v, place, q)
  /\ Once(v, s) /\ Nowhere(v, r) => OnlyAt(v, at, q)
  /\ \A place \in Place : ~Never(v, r[place]) => ~Never(v, q[place])
  /\ ~Never(v, s) => ~Never(v, q[at])

LEMMA MovesIs ==
  ASSUME NEW r \in [Place -> Seq(Units)], NEW s \in Seq(Units), NEW at \in Place,
         NEW q, Gets(r, at, s, q), NEW v
  PROVE  q \in [Place -> Seq(Units)] /\ Moves(v, s, at, r, q)
<1> DEFINE t == r[at] \o s
<1>1. r[at] \in Seq(Units) /\ q = [r EXCEPT ![at] = t]
  BY DEF Gets
<1>2. t \in Seq(Units)
  BY <1>1, ConcatProperties
<1>3. /\ Never(v, t) <=> Never(v, r[at]) /\ Never(v, s)
      /\ Once(v, t) <=> (Once(v, r[at]) /\ Never(v, s)) \/ (Never(v, r[at]) /\ Once(v, s))
  BY <1>1, NeverConcat, OnceConcat
<1> HIDE DEF t
<1>4. q \in [Place -> Seq(Units)]
  BY <1>1, <1>2
<1>5. q[at] = t /\ \A place \in Place \ {at} : q[place] = r[place]
  BY <1>1
<1>6. ASSUME Never(v, s), Nowhere(v, r)  PROVE Nowhere(v, q)
  BY <1>3, <1>5, <1>6 DEF Nowhere
<1>7. ASSUME Never(v, s), NEW place \in Place, OnlyAt(v, place, r)  PROVE OnlyAt(v, place, q)
  BY <1>3, <1>5, <1>7 DEF OnlyAt
<1>8. ASSUME Once(v, s), Nowhere(v, r)  PROVE OnlyAt(v, at, q)
  BY <1>3, <1>5, <1>8 DEF Nowhere, OnlyAt
<1>9. \A place \in Place : ~Never(v, r[place]) => ~Never(v, q[place])
  BY <1>3, <1>5
<1>10. ~Never(v, s) => ~Never(v, q[at])
  BY <1>3, <1>5
<1> QED  BY <1>4, <1>6, <1>7, <1>8, <1>9, <1>10 DEF Moves

(* What was in the buffer, with what was added to it, has moved in part.   *)
LEMMA PlacedMoves ==
  ASSUME NEW r \in [Place -> Seq(Units)], NEW s \in Seq(Units), NEW at \in Place,
         NEW q, Gets(r, at, s, q), NEW v,
         NEW d \in Seq(Units), Placed(v, s \o d, r)
  PROVE  Placed(v, d, q)
<1>1. Moves(v, s, at, r, q)
  BY MovesIs
<1>2. /\ Never(v, s \o d) <=> Never(v, s) /\ Never(v, d)
      /\ Once(v, s \o d) <=> (Once(v, s) /\ Never(v, d)) \/ (Never(v, s) /\ Once(v, d))
  BY NeverConcat, OnceConcat
<1> DEFINE t == s \o d
<1>3. CASE Never(v, t)
  <2>1. Never(v, s) /\ Never(v, d)
    BY <1>2, <1>3
  <2>2. ~Once(v, t)
    BY <1>3 DEF Once, Never
  <2>3. PICK place \in Place : OnlyAt(v, place, r)
    BY <2>2 DEF Placed
  <2> QED  BY <1>1, <2>1, <2>3 DEF Placed, Moves
<1>4. CASE ~Never(v, t)
  <2>1. Once(v, t) /\ Nowhere(v, r)
    BY <1>4 DEF Placed
  <2>2. CASE Once(v, s) /\ Never(v, d)
    BY <1>1, <2>1, <2>2 DEF Placed, Moves
  <2>3. CASE Never(v, s) /\ Once(v, d)
    BY <1>1, <2>1, <2>3 DEF Placed, Moves
  <2> QED  BY <1>2, <2>1, <2>2, <2>3
<1> QED  BY <1>3, <1>4

LEMMA PlacedApart ==
  ASSUME NEW r \in [Place -> Seq(Units)], NEW s \in Seq(Units), NEW at \in Place,
         NEW q, Gets(r, at, s, q), NEW v, NEW b, Never(v, s), Placed(v, b, r)
  PROVE  Placed(v, b, q)
<1>1. Moves(v, s, at, r, q)
  BY MovesIs
<1> QED  BY <1>1 DEF Placed, Moves

(* A unit that is printed: it was nowhere before. *)
Known(s, n) == \A i \in DOMAIN s : s[i].id <= n

LEMMA NewUnit ==
  ASSUME NEW n \in Nat, NEW u, u.id = n + 1, NEW s \in Seq(Units), Known(s, n)
  PROVE  Never(u, s)
<1>1. \A i \in DOMAIN s : s[i].id <= n
  BY DEF Known
<1>2. ~(n + 1 <= n)
  OBVIOUS
<1> QED  BY <1>1, <1>2 DEF Never

LEMMA KnownConcat ==
  ASSUME NEW n \in Nat, NEW s \in Seq(Units), NEW t \in Seq(Units), Known(s, n), Known(t, n)
  PROVE  Known(s \o t, n)
<1> DEFINE r == s \o t
<1>1. /\ r \in Seq(Units) /\ Len(r) = Len(s) + Len(t)
      /\ \A i \in 1 .. Len(s) + Len(t) : r[i] = IF i <= Len(s) THEN s[i] ELSE t[i - Len(s)]
  BY ConcatProperties
<1>2. /\ Len(s) \in Nat /\ Len(t) \in Nat
      /\ DOMAIN s = 1 .. Len(s) /\ DOMAIN t = 1 .. Len(t) /\ DOMAIN r = 1 .. Len(r)
  BY <1>1
<1> HIDE DEF r
<1>3. \A i \in DOMAIN r :
        \/ i \in DOMAIN s /\ r[i] = s[i]
        \/ i - Len(s) \in DOMAIN t /\ r[i] = t[i - Len(s)]
  BY <1>1, <1>2
<1>4. Known(r, n)
  BY <1>3 DEF Known
<1> QED  BY <1>4 DEF r

LEMMA KnownMore ==
  ASSUME NEW n \in Nat, NEW s \in Seq(Units), Known(s, n)
  PROVE  Known(s, n + 1)
<1>1. \A i \in DOMAIN s : s[i].id \in Nat
  <2>1. \A i \in DOMAIN s : s[i] \in Units
    OBVIOUS
  <2>2. \A w \in Units : w.id \in Nat
    BY DEF Units
  <2> QED  BY <2>1, <2>2
<1>2. \A i \in DOMAIN s : s[i].id <= n
  BY DEF Known
<1>3. ASSUME NEW i \in DOMAIN s  PROVE s[i].id <= n + 1
  <2> DEFINE k == s[i].id
  <2>1. k \in Nat /\ k <= n
    BY <1>1, <1>2
  <2> HIDE DEF k
  <2>2. k <= n + 1
    BY <2>1
  <2> QED  BY <2>2 DEF k
<1> QED  BY <1>3 DEF Known

(***************************************************************************)
(* The effects a call has on what was printed.                             *)
(***************************************************************************)
LEMMA PlacedMore ==
  ASSUME NEW b \in Seq(Units), NEW u \in Units, NEW r, NEW v,
         \/ v # u /\ Placed(v, b, r)
         \/ v = u /\ Never(u, b) /\ Nowhere(u, r)
  PROVE  Placed(v, b \o <<u>>, r)
<1> DEFINE o == <<u>>
<1>1. o \in Seq(Units) /\ Once(u, o) /\ (v # u => Never(v, o))
  BY OnceOne
<1> HIDE DEF o
<1> DEFINE t == b \o o
<1>2. /\ Never(v, t) <=> Never(v, b) /\ Never(v, o)
      /\ Once(v, t) <=> (Once(v, b) /\ Never(v, o)) \/ (Never(v, b) /\ Once(v, o))
  BY <1>1, NeverConcat, OnceConcat
<1> SUFFICES Placed(v, t, r)
  BY DEF t, o
<1> HIDE DEF t
<1>3. CASE v # u /\ Placed(v, b, r)
  BY <1>1, <1>2, <1>3 DEF Placed
<1>4. CASE v = u /\ Never(u, b) /\ Nowhere(u, r)
  BY <1>1, <1>2, <1>4 DEF Placed
<1> QED  BY <1>3, <1>4

LEMMA AppendIs ==
  ASSUME NEW b \in Seq(Units), NEW u \in Units
  PROVE  /\ Append(b, u) = b \o <<u>> /\ Append(b, u) \in Seq(Units)
         /\ <<u>> \in Seq(Units) /\ <<u>> = <<>> \o <<u>>
OBVIOUS

(* What is written at once. *)
LEMMA PlacedWritten ==
  ASSUME NEW r \in [Place -> Seq(Units)], NEW at \in Place, NEW u \in Units,
         NEW q, Gets(r, at, <<u>>, q), NEW b, NEW v,
         \/ v # u /\ Placed(v, b, r)
         \/ v = u /\ Never(u, b) /\ Nowhere(u, r)
  PROVE  Placed(v, b, q)
<1> DEFINE o == <<u>>
<1>1. o \in Seq(Units) /\ Once(u, o) /\ (v # u => Never(v, o))
  BY OnceOne
<1>2. Gets(r, at, o, q)
  OBVIOUS
<1> HIDE DEF o
<1>3. Moves(v, o, at, r, q)
  BY <1>1, <1>2, MovesIs
<1>4. CASE v # u /\ Placed(v, b, r)
  BY <1>1, <1>2, <1>4, PlacedApart
<1>5. CASE v = u /\ Never(u, b) /\ Nowhere(u, r)
  BY <1>1, <1>3, <1>5 DEF Placed, Moves
<1> QED  BY <1>4, <1>5

(***************************************************************************)
(* The inductive invariant of PrintedOnce: until a prompt is shown a unit  *)
(* of the shell is in the shell's own buffer or has come out, never both,  *)
(* and of the shell's units a child brings out only those of `copied`.     *)
(***************************************************************************)
Control ==
  /\ rc \in Seq(Line) /\ line \in Line \cup {<<>>} /\ phase \in Phase
  /\ todo = [p \in Process |-> todo[p]] /\ fd \in [Process -> Place]

Output ==
  /\ printed \in Seq(Units) /\ mode = [p \in Process |-> mode[p]]
  /\ buf \in [Process -> Seq(Units)] /\ reached \in [Place -> Seq(Units)]
  /\ Known(printed, Len(printed))
  /\ \A p \in Process : Known(buf[p], Len(printed))
  /\ \A place \in Place : Known(reached[place], Len(printed))

Kept ==
  \A i \in DOMAIN printed :
    printed[i].by = "shell" /\ printed[i].id \notin copied =>
      Placed(printed[i], buf["shell"], reached)

Shown == phase \in {"read", "left"} => todo["shell"] = <<>> /\ buf["shell"] = <<>>

Inv == Control /\ Output /\ Kept /\ Shown

(* A new unit is nowhere yet, and no other has its number. *)
LEMMA UnitIs ==
  ASSUME Control, Output, NEW p \in Process, NEW to \in Place
  PROVE  /\ Unit(p, to) \in Units /\ Unit(p, to).id = Len(printed) + 1
         /\ Unit(p, to).by = p
         /\ \A x \in Process : Never(Unit(p, to), buf[x])
         /\ Nowhere(Unit(p, to), reached) /\ Never(Unit(p, to), printed)
<1> DEFINE u == Unit(p, to)
           n == Len(printed)
<1>1. n \in Nat
  BY DEF Output
<1>2. u \in Units /\ u.id = n + 1 /\ u.by = p
  BY <1>1 DEF Unit, Units, Control
<1> HIDE DEF u, n
<1>3. /\ printed \in Seq(Units) /\ Known(printed, n)
      /\ \A x \in Process : buf[x] \in Seq(Units) /\ Known(buf[x], n)
      /\ \A place \in Place : reached[place] \in Seq(Units) /\ Known(reached[place], n)
  BY DEF Output, n
<1>4. Never(u, printed)
  BY <1>1, <1>2, <1>3, NewUnit
<1>5. ASSUME NEW x \in Process  PROVE Never(u, buf[x])
  BY <1>1, <1>2, <1>3, NewUnit
<1>6. ASSUME NEW place \in Place  PROVE Never(u, reached[place])
  BY <1>1, <1>2, <1>3, NewUnit
<1> QED  BY <1>2, <1>4, <1>5, <1>6 DEF u, n, Nowhere

LEMMA PrintedMore ==
  ASSUME NEW a \in Seq(Units), NEW u \in Units, Known(a, Len(a)), u.id = Len(a) + 1,
         NEW b, b = Append(a, u)
  PROVE  /\ b \in Seq(Units) /\ Len(b) = Len(a) + 1 /\ Known(b, Len(b))
         /\ \A s \in Seq(Units) : Known(s, Len(a)) => Known(s, Len(b))
         /\ Known(<<u>>, Len(b)) /\ Known(<<>>, Len(b))
         /\ \A i \in DOMAIN b : b[i] = u \/ (i \in DOMAIN a /\ b[i] = a[i])
<1> DEFINE n == Len(a)
<1>1. n \in Nat /\ b \in Seq(Units) /\ Len(b) = n + 1
  OBVIOUS
<1>2. \A i \in DOMAIN b : b[i] = u \/ (i \in DOMAIN a /\ b[i] = a[i])
  OBVIOUS
<1>3. <<u>> \in Seq(Units) /\ <<>> \in Seq(Units) /\ \A i \in DOMAIN <<u>> : <<u>>[i] = u
  OBVIOUS
<1>4. Known(a, n) /\ u.id = n + 1
  OBVIOUS
<1>5. n + 1 <= n + 1
  BY <1>1
<1> HIDE DEF n
<1>6. ASSUME NEW s \in Seq(Units), Known(s, n)  PROVE Known(s, n + 1)
  BY <1>1, <1>6, KnownMore
<1>7. Known(<<u>>, n + 1) /\ Known(<<>>, n + 1)
  BY <1>3, <1>4, <1>5 DEF Known
<1>8. \A i \in DOMAIN a : a[i].id <= n + 1
  BY <1>4, <1>6 DEF Known
<1>9. Known(b, n + 1)
  BY <1>2, <1>4, <1>5, <1>8 DEF Known
<1> QED  BY <1>1, <1>2, <1>6, <1>7, <1>9 DEF n

(* What gets to a place of what is known keeps what is known. *)
LEMMA ReachKnown ==
  ASSUME NEW n \in Nat, NEW r \in [Place -> Seq(Units)], NEW s \in Seq(Units), NEW at \in Place,
         NEW q, Gets(r, at, s, q), Known(s, n),
         \A place \in Place : Known(r[place], n)
  PROVE  q \in [Place -> Seq(Units)] /\ \A place \in Place : Known(q[place], n)
<1> DEFINE t == r[at] \o s
<1>1. r[at] \in Seq(Units) /\ Known(r[at], n)
  OBVIOUS
<1>2. t \in Seq(Units) /\ Known(t, n)
  BY <1>1, KnownConcat, ConcatProperties
<1>3. q = [r EXCEPT ![at] = t]
  BY DEF Gets
<1> HIDE DEF t
<1> QED  BY <1>2, <1>3

(* printf(): the unit is in the buffer, or has come out with it. *)
LEMMA PrintsOutput ==
  ASSUME Control, Output, NEW p \in Process, NEW at \in Place, NEW to \in Place,
         Prints(p, at, to)
  PROVE  Output' /\ \A x \in Process \ {p} : buf'[x] = buf[x]
<1> DEFINE u == Unit(p, to)
           n == Len(printed)
           k == Len(printed')
           b == buf[p]
           m == Append(b, u)
           one == <<u>>
<1>1. u \in Units /\ u.id = n + 1 /\ n \in Nat
  BY UnitIs DEF Output
<1>2. b \in Seq(Units) /\ Known(b, n)
  BY DEF Output
<1>3. printed' = Append(printed, u)
  BY DEF Prints
<1> HIDE DEF u
<1>4. printed \in Seq(Units) /\ Known(printed, n)
  BY DEF Output
<1>5. /\ printed' \in Seq(Units) /\ k = n + 1 /\ Known(printed', k)
      /\ \A s \in Seq(Units) : Known(s, n) => Known(s, k)
      /\ Known(one, k) /\ Known(<<>>, k)
  BY <1>1, <1>3, <1>4, PrintedMore
<1>6. one \in Seq(Units) /\ m = b \o one /\ m \in Seq(Units)
  BY <1>1, <1>2, AppendIs
<1>7. /\ mode' = [x \in Process |-> mode'[x]]
      /\ \/ Reach(at, m) /\ buf' = [buf EXCEPT ![p] = <<>>]
         \/ buf' = [buf EXCEPT ![p] = m] /\ UNCHANGED reached
         \/ Reach(at, b) /\ buf' = [buf EXCEPT ![p] = one]
  <2>1. mode' = [x \in Process |-> mode'[x]]
    BY DEF Prints, Output
  <2>2. \/ Reach(at, m) /\ buf' = [buf EXCEPT ![p] = <<>>]
        \/ buf' = [buf EXCEPT ![p] = m] /\ UNCHANGED reached
        \/ Reach(at, b) /\ buf' = [buf EXCEPT ![p] = one]
    BY DEF Prints, u
  <2> QED  BY <2>1, <2>2
<1>8. k \in Nat
  BY <1>1, <1>5
<1> HIDE DEF one, n, k
<1>9. Known(m, k) /\ Known(b, k)
  BY <1>2, <1>5, <1>6, <1>8, KnownConcat
<1>10. /\ \A x \in Process : buf[x] \in Seq(Units) /\ Known(buf[x], k)
       /\ \A place \in Place : Known(reached[place], k)
       /\ buf \in [Process -> Seq(Units)] /\ reached \in [Place -> Seq(Units)]
  BY <1>5 DEF Output, n
<1> HIDE DEF m, b
<1>11. /\ reached' \in [Place -> Seq(Units)]
       /\ \A place \in Place : Known(reached'[place], k)
  <2>1. CASE Reach(at, m)
    <3>1. Gets(reached, at, m, reached') /\ m \in Seq(Units) /\ Known(m, k)
      BY <1>6, <1>9, <2>1 DEF Reach, Gets
    <3> QED  BY <1>8, <1>10, <3>1, ReachKnown
  <2>2. CASE Reach(at, b)
    <3>1. Gets(reached, at, b, reached') /\ b \in Seq(Units) /\ Known(b, k)
      BY <1>2, <1>9, <2>2 DEF Reach, Gets
    <3> QED  BY <1>8, <1>10, <3>1, ReachKnown
  <2>3. CASE UNCHANGED reached
    BY <1>10, <2>3
  <2> QED  BY <1>7, <2>1, <2>2, <2>3
<1>12. <<>> \in Seq(Units)
  OBVIOUS
<1>13. PICK c \in Seq(Units) : buf' = [buf EXCEPT ![p] = c] /\ Known(c, k)
  BY <1>5, <1>6, <1>7, <1>9, <1>12
<1>14. /\ buf' \in [Process -> Seq(Units)]
       /\ \A x \in Process : Known(buf'[x], k)
       /\ \A x \in Process \ {p} : buf'[x] = buf[x]
  BY <1>10, <1>13
<1> QED  BY <1>5, <1>7, <1>11, <1>14 DEF Output, k

LEMMA PrintsKept ==
  ASSUME Control, Output, Kept, NEW p \in Process, NEW at \in Place, NEW to \in Place,
         Prints(p, at, to)
  PROVE  Kept'
<1> DEFINE u == Unit(p, to)
           b == buf[p]
           m == Append(b, u)
           one == <<u>>
           none == <<>>
<1>1. /\ u \in Units /\ u.by = p /\ Never(u, b) /\ Nowhere(u, reached) /\ Never(u, printed)
  BY UnitIs
<1>2. printed' = Append(printed, u) /\ printed \in Seq(Units)
  BY DEF Prints, Output
<1>3. \/ Reach(at, m) /\ buf' = [buf EXCEPT ![p] = <<>>]
      \/ buf' = [buf EXCEPT ![p] = m] /\ UNCHANGED reached
      \/ Reach(at, b) /\ buf' = [buf EXCEPT ![p] = one]
  BY DEF Prints
<1>4. copied' = IF p = "shell" \/ reached' = reached THEN copied ELSE copied \cup Ids(b)
  BY DEF Prints
<1>5. /\ b \in Seq(Units) /\ buf \in [Process -> Seq(Units)]
      /\ reached \in [Place -> Seq(Units)] /\ buf["shell"] \in Seq(Units)
  BY DEF Output, Process
<1> HIDE DEF u
<1>6. one \in Seq(Units) /\ m = b \o one /\ m \in Seq(Units) /\ m = m \o none
      /\ none \in Seq(Units)
  BY <1>1, <1>5, AppendIs
<1> SUFFICES ASSUME NEW i \in DOMAIN printed', printed'[i].by = "shell",
                    printed'[i].id \notin copied'
             PROVE  Placed(printed'[i], buf'["shell"], reached')
  BY DEF Kept
<1> DEFINE v == printed'[i]
<1>7. v = u \/ (v # u /\ i \in DOMAIN printed /\ v = printed[i])
  BY <1>1, <1>2 DEF Never
<1>8. v.by = "shell" /\ v.id \notin copied' /\ v.id \notin copied
  BY <1>4
<1> HIDE DEF v
<1>9. \/ v # u /\ Placed(v, buf["shell"], reached)
      \/ v = u
  BY <1>7, <1>8 DEF Kept
<1> HIDE DEF m
<1>10. CASE p = "shell"
  <2>1. Placed(v, m, reached)
    <3>1. \/ v # u /\ Placed(v, b, reached)
          \/ v = u /\ Never(u, b) /\ Nowhere(u, reached)
      BY <1>1, <1>9, <1>10
    <3> QED  BY <1>1, <1>5, <1>6, <3>1, PlacedMore
  <2> HIDE DEF one, b
  <2>2. CASE Reach(at, m) /\ buf' = [buf EXCEPT ![p] = <<>>]
    <3> HIDE DEF none
    <3>1. /\ Gets(reached, at, m, reached') /\ Placed(v, m \o none, reached)
          /\ m \in Seq(Units) /\ none \in Seq(Units)
      BY <1>6, <2>1, <2>2 DEF Reach, Gets
    <3>2. Placed(v, none, reached')
      BY <1>5, <3>1, PlacedMoves
    <3> QED  BY <1>5, <1>10, <2>2, <3>2 DEF v, none
  <2>3. CASE buf' = [buf EXCEPT ![p] = m] /\ UNCHANGED reached
    BY <1>5, <1>10, <2>1, <2>3 DEF v
  <2>4. CASE Reach(at, b) /\ buf' = [buf EXCEPT ![p] = one]
    <3>1. /\ Gets(reached, at, b, reached') /\ Placed(v, b \o one, reached)
          /\ b \in Seq(Units) /\ one \in Seq(Units)
      BY <1>5, <1>6, <2>1, <2>4 DEF Reach, Gets
    <3>2. Placed(v, one, reached')
      BY <1>5, <3>1, PlacedMoves
    <3> QED  BY <1>5, <1>10, <2>4, <3>2 DEF v
  <2> QED  BY <1>3, <2>2, <2>3, <2>4
<1>11. CASE p # "shell"
  <2>1. v # u /\ Placed(v, buf["shell"], reached)
    BY <1>1, <1>8, <1>9, <1>11
  <2>2. buf'["shell"] = buf["shell"]
    BY <1>3, <1>5, <1>11 DEF Process
  <2>3. CASE reached' = reached
    BY <2>1, <2>2, <2>3 DEF v
  <2>4. CASE reached' # reached
    <3>1. Never(v, b)
      BY <1>4, <1>8, <1>11, <2>4 DEF Ids, Never
    <3>2. Never(v, one)
      BY <1>1, <2>1, OnceOne
    <3>3. Never(v, m)
      BY <1>5, <1>6, <3>1, <3>2, NeverConcat
    <3> DEFINE sb == buf["shell"]
    <3>4. Placed(v, sb, reached)
      BY <2>1
    <3> HIDE DEF sb, one, b
    <3>5. CASE Reach(at, m)
      <4>0. Gets(reached, at, m, reached') /\ m \in Seq(Units)
        BY <1>6, <3>5 DEF Reach, Gets
      <4>1. Placed(v, sb, reached')
        BY <1>5, <3>3, <3>4, <4>0, PlacedApart
      <4> QED  BY <2>2, <4>1 DEF sb, v
    <3>6. CASE Reach(at, b)
      <4>0. Gets(reached, at, b, reached') /\ b \in Seq(Units)
        BY <1>5, <3>6 DEF Reach, Gets
      <4>1. Placed(v, sb, reached')
        BY <1>5, <3>1, <3>4, <4>0, PlacedApart
      <4> QED  BY <2>2, <4>1 DEF sb, v
    <3> QED  BY <1>3, <2>4, <3>5, <3>6
  <2> QED  BY <2>3, <2>4
<1> QED  BY <1>10, <1>11

(* write(), and exit() of a process whose ft_open() failed: what is in its *)
(* buffer comes out with it.                                               *)
LEMMA WritesOutput ==
  ASSUME Control, Output, Kept, NEW p \in Process, NEW to \in Place, WritesUnit(p, to)
  PROVE  Output' /\ Kept' /\ buf' = buf
<1> DEFINE u == Unit(p, to)
           n == Len(printed)
           k == Len(printed')
           one == <<u>>
           at == fd[p]
<1>1. /\ u \in Units /\ u.id = n + 1 /\ n \in Nat /\ u.by = p
      /\ Nowhere(u, reached) /\ Never(u, printed) /\ Never(u, buf["shell"])
  BY UnitIs DEF Output, Process
<1>2. /\ printed' = Append(printed, u) /\ Gets(reached, at, one, reached')
      /\ mode' = mode /\ buf' = buf /\ copied' = copied
  BY DEF WritesUnit, Reach, Gets
<1>3. at \in Place
  BY DEF Control
<1> HIDE DEF u, at
<1>4. printed \in Seq(Units) /\ Known(printed, n)
  BY DEF Output
<1>5. /\ printed' \in Seq(Units) /\ k = n + 1 /\ Known(printed', k)
      /\ \A s \in Seq(Units) : Known(s, n) => Known(s, k)
      /\ Known(one, k)
  BY <1>1, <1>2, <1>4, PrintedMore
<1>6. one \in Seq(Units)
  BY <1>1, AppendIs
<1>7. k \in Nat
  BY <1>1, <1>5
<1>8. ASSUME NEW i \in DOMAIN printed', printed'[i].by = "shell", printed'[i].id \notin copied'
      PROVE  Placed(printed'[i], buf'["shell"], reached')
  <2> DEFINE v == printed'[i]
             b == buf["shell"]
  <2>1. v = u \/ (v # u /\ i \in DOMAIN printed /\ v = printed[i])
    BY <1>1, <1>2, <1>4 DEF Never
  <2>2. v.by = "shell" /\ v.id \notin copied
    BY <1>2, <1>8
  <2> HIDE DEF v
  <2>3. \/ v # u /\ Placed(v, b, reached)
        \/ v = u /\ Never(u, b) /\ Nowhere(u, reached)
    BY <1>1, <2>1, <2>2 DEF Kept
  <2>4. reached \in [Place -> Seq(Units)]
    BY DEF Output
  <2> HIDE DEF b
  <2>5. Gets(reached, at, <<u>>, reached')
    BY <1>2
  <2> HIDE DEF one
  <2>6. Placed(v, b, reached')
    BY <1>1, <1>3, <2>3, <2>4, <2>5, PlacedWritten
  <2> QED  BY <1>2, <2>6 DEF v, b
<1> HIDE DEF one, n, k
<1>9. /\ \A x \in Process : Known(buf[x], k)
      /\ \A place \in Place : Known(reached[place], k)
      /\ reached \in [Place -> Seq(Units)]
  BY <1>5 DEF Output, n
<1>10. /\ reached' \in [Place -> Seq(Units)]
       /\ \A place \in Place : Known(reached'[place], k)
  BY <1>2, <1>3, <1>5, <1>6, <1>7, <1>9, ReachKnown
<1>11. Output'
  BY <1>2, <1>5, <1>9, <1>10 DEF Output, k
<1> QED  BY <1>2, <1>8, <1>11 DEF Kept

Ends(p, u) ==
  /\ printed' = Append(printed, u) /\ Reach(fd[p], Append(buf[p], u))
  /\ buf' = [buf EXCEPT ![p] = <<>>] /\ mode' = mode
  /\ copied' = IF p = "shell" THEN copied ELSE copied \cup Ids(buf[p])

LEMMA EndsOutput ==
  ASSUME Control, Output, Kept, NEW p \in Process, NEW to \in Place, Ends(p, Unit(p, to))
  PROVE  Output' /\ Kept'
<1> DEFINE u == Unit(p, to)
           n == Len(printed)
           k == Len(printed')
           b == buf[p]
           m == Append(b, u)
           one == <<u>>
           none == <<>>
           at == fd[p]
<1>1. /\ u \in Units /\ u.id = n + 1 /\ n \in Nat /\ u.by = p
      /\ Nowhere(u, reached) /\ Never(u, printed) /\ Never(u, b)
  BY UnitIs DEF Output, Process
<1>2. /\ printed' = Append(printed, u) /\ Gets(reached, at, m, reached')
      /\ mode' = mode /\ buf' = [buf EXCEPT ![p] = none]
  BY DEF Ends, Reach, Gets
<1>3. copied' = IF p = "shell" THEN copied ELSE copied \cup Ids(b)
  BY DEF Ends
<1>4. at \in Place
  BY DEF Control
<1>5. /\ printed \in Seq(Units) /\ Known(printed, n) /\ b \in Seq(Units) /\ Known(b, n)
      /\ buf \in [Process -> Seq(Units)] /\ reached \in [Place -> Seq(Units)]
  BY DEF Output
<1> HIDE DEF u, at
<1>6. /\ printed' \in Seq(Units) /\ k = n + 1 /\ Known(printed', k)
      /\ \A s \in Seq(Units) : Known(s, n) => Known(s, k)
      /\ Known(one, k) /\ Known(none, k)
  BY <1>1, <1>2, <1>5, PrintedMore
<1>7. /\ one \in Seq(Units) /\ m = b \o one /\ m \in Seq(Units) /\ m = m \o none
      /\ none \in Seq(Units)
  BY <1>1, <1>5, AppendIs
<1>8. k \in Nat
  BY <1>1, <1>6
<1> HIDE DEF one, none, n, k
<1>9. Known(m, k)
  BY <1>5, <1>6, <1>7, <1>8, KnownConcat
<1>10. /\ \A x \in Process : Known(buf[x], k)
       /\ \A place \in Place : Known(reached[place], k)
  BY <1>6 DEF Output, n
<1> HIDE DEF m, b
<1>11. /\ reached' \in [Place -> Seq(Units)]
       /\ \A place \in Place : Known(reached'[place], k)
  BY <1>2, <1>4, <1>5, <1>7, <1>8, <1>9, <1>10, ReachKnown
<1>12. buf' \in [Process -> Seq(Units)] /\ \A x \in Process : Known(buf'[x], k)
  BY <1>2, <1>5, <1>6, <1>7, <1>10
<1>13. mode' = [x \in Process |-> mode'[x]]
  BY <1>2 DEF Output
<1>14. Output'
  BY <1>6, <1>11, <1>12, <1>13 DEF Output, k
<1>15. ASSUME NEW i \in DOMAIN printed', printed'[i].by = "shell", printed'[i].id \notin copied'
       PROVE  Placed(printed'[i], buf'["shell"], reached')
  <2> DEFINE v == printed'[i]
  <2>1. v = u \/ (v # u /\ i \in DOMAIN printed /\ v = printed[i])
    BY <1>1, <1>2, <1>5 DEF Never
  <2>2. v.by = "shell" /\ v.id \notin copied'
    BY <1>15
  <2> HIDE DEF v
  <2>3. v # u => Placed(v, buf["shell"], reached)
    BY <1>3, <2>1, <2>2 DEF Kept
  <2>4. CASE p = "shell"
    <3>1. \/ v # u /\ Placed(v, b, reached)
          \/ v = u /\ Never(u, b) /\ Nowhere(u, reached)
      BY <1>1, <2>3, <2>4 DEF b
    <3>2. Placed(v, m, reached)
      BY <1>1, <1>5, <1>7, <3>1, PlacedMore DEF one
    <3>3. Placed(v, m \o none, reached)
      BY <1>7, <3>2
    <3>4. Placed(v, none, reached')
      BY <1>2, <1>4, <1>5, <1>7, <3>3, PlacedMoves
    <3>5. buf'["shell"] = none
      BY <1>2, <1>5, <2>4
    <3> QED  BY <3>4, <3>5 DEF v
  <2>5. CASE p # "shell"
    <3> DEFINE sb == buf["shell"]
    <3>1. v # u
      BY <1>1, <2>2, <2>5
    <3>2. Never(v, b)
      BY <1>3, <2>2, <2>5 DEF Ids, Never
    <3>3. Never(v, one)
      BY <1>1, <3>1, OnceOne DEF one
    <3>4. Never(v, m)
      BY <1>5, <1>7, <3>2, <3>3, NeverConcat
    <3>5. Placed(v, sb, reached)
      BY <2>3, <3>1
    <3>6. buf'["shell"] = sb
      BY <1>2, <1>5, <2>5 DEF Process
    <3> HIDE DEF sb
    <3>7. Placed(v, sb, reached')
      BY <1>2, <1>4, <1>5, <1>7, <3>4, <3>5, PlacedApart
    <3> QED  BY <3>6, <3>7 DEF v
  <2> QED  BY <2>4, <2>5
<1> QED  BY <1>14, <1>15 DEF Kept

(* A copy of the shell's buffer comes out: its units are `copied`. *)
LEMMA CopyOutput ==
  ASSUME Output, Kept, Reach("out", buf["shell"]), copied' = copied \cup Ids(buf["shell"]),
         UNCHANGED <<printed, mode, buf>>
  PROVE  Output' /\ Kept'
<1> DEFINE b == buf["shell"]
           n == Len(printed)
           at == "out"
<1>1. /\ printed \in Seq(Units) /\ b \in Seq(Units) /\ Known(b, n) /\ n \in Nat
      /\ reached \in [Place -> Seq(Units)] /\ \A place \in Place : Known(reached[place], n)
      /\ at \in Place
  BY DEF Output, Process, Place
<1>2. Gets(reached, at, b, reached') /\ copied' = copied \cup Ids(b)
  BY DEF Reach, Gets
<1> HIDE DEF b, at
<1>3. reached' \in [Place -> Seq(Units)] /\ \A place \in Place : Known(reached'[place], n)
  BY <1>1, <1>2, ReachKnown
<1>4. Output'
  BY <1>3 DEF Output
<1>5. ASSUME NEW i \in DOMAIN printed, printed[i].by = "shell", printed[i].id \notin copied'
      PROVE  Placed(printed[i], b, reached')
  <2> DEFINE v == printed[i]
  <2>1. Placed(v, b, reached)
    BY <1>2, <1>5 DEF Kept, b
  <2>2. Never(v, b)
    BY <1>2, <1>5 DEF Ids, Never
  <2> HIDE DEF v
  <2>3. Placed(v, b, reached')
    BY <1>1, <1>2, <2>1, <2>2, PlacedApart
  <2> QED  BY <2>3 DEF v
<1>6. Kept'
  BY <1>5 DEF Kept, b
<1> QED  BY <1>4, <1>6

(* The shell's buffer is flushed. *)
LEMMA FlushOutput ==
  ASSUME Control, Output, Kept, Reach(fd["shell"], buf["shell"]),
         buf' = [buf EXCEPT !["shell"] = <<>>], UNCHANGED <<printed, mode, copied>>
  PROVE  Output' /\ Kept'
<1> DEFINE b == buf["shell"]
           n == Len(printed)
           at == fd["shell"]
           none == <<>>
<1>1. /\ printed \in Seq(Units) /\ b \in Seq(Units) /\ Known(b, n) /\ n \in Nat
      /\ reached \in [Place -> Seq(Units)] /\ \A place \in Place : Known(reached[place], n)
      /\ buf \in [Process -> Seq(Units)] /\ "shell" \in Process
  BY DEF Output, Process
<1>2. Gets(reached, at, b, reached') /\ buf' = [buf EXCEPT !["shell"] = none]
  BY DEF Reach, Gets
<1>3. at \in Place
  BY DEF Control, Process
<1>4. none \in Seq(Units) /\ Known(none, n) /\ b = b \o none
  BY <1>1 DEF Known
<1> HIDE DEF b, at, none
<1>5. reached' \in [Place -> Seq(Units)] /\ \A place \in Place : Known(reached'[place], n)
  BY <1>1, <1>2, <1>3, ReachKnown
<1>6. /\ buf' \in [Process -> Seq(Units)] /\ buf'["shell"] = none
      /\ \A x \in Process : Known(buf'[x], n)
  BY <1>1, <1>2, <1>4 DEF Output
<1>7. Output'
  BY <1>5, <1>6 DEF Output
<1>8. ASSUME NEW i \in DOMAIN printed, printed[i].by = "shell", printed[i].id \notin copied
      PROVE  Placed(printed[i], none, reached')
  <2> DEFINE v == printed[i]
  <2>1. Placed(v, b, reached)
    BY <1>8 DEF Kept, b
  <2> HIDE DEF v
  <2>2. Placed(v, b \o none, reached)
    BY <1>4, <2>1
  <2>3. Placed(v, none, reached')
    BY <1>1, <1>2, <1>3, <1>4, <2>2, PlacedMoves
  <2> QED  BY <2>3 DEF v
<1>9. Kept'
  BY <1>6, <1>8 DEF Kept
<1> QED  BY <1>7, <1>9

(* A child gets a copy of the shell's buffer, or drops its own. *)
LEMMA CopyKept ==
  ASSUME Output, Kept, NEW p \in {"left", "right"}, NEW s \in Seq(Units),
         Known(s, Len(printed)), buf' = [buf EXCEPT ![p] = s],
         mode' = [x \in Process |-> mode'[x]], UNCHANGED <<printed, reached, copied>>
  PROVE  Output' /\ Kept'
<1>1. /\ buf \in [Process -> Seq(Units)] /\ p \in Process /\ p # "shell"
      /\ \A x \in Process : Known(buf[x], Len(printed))
  BY DEF Output, Process
<1>2. /\ buf' \in [Process -> Seq(Units)] /\ buf'["shell"] = buf["shell"]
      /\ \A x \in Process : Known(buf'[x], Len(printed))
  BY <1>1 DEF Process
<1>3. Output'
  BY <1>2 DEF Output
<1>4. Kept'
  BY <1>2 DEF Kept
<1> QED  BY <1>3, <1>4

LEMMA Start == Init => Inv
<1> SUFFICES ASSUME Init  PROVE Inv
  OBVIOUS
<1>1. /\ rc \in Seq(Line) /\ line = <<>> /\ phase = "rc" /\ printed = <<>>
      /\ todo = [p \in Process |-> <<>>] /\ mode = [p \in Process |-> "undecided"]
      /\ buf = [p \in Process |-> <<>>] /\ fd = [p \in Process |-> "out"]
      /\ reached = [place \in Place |-> <<>>]
  BY PrintingAssumption DEF Init
<1>2. /\ \A p \in Process : todo[p] = <<>> /\ mode[p] = "undecided" /\ buf[p] = <<>>
      /\ \A place \in Place : reached[place] = <<>>
  BY <1>1
<1>3. Control
  BY <1>1, <1>2 DEF Control, Phase, Place
<1> DEFINE none == <<>>
<1>4. none \in Seq(Units) /\ DOMAIN none = {} /\ \A n : Known(none, n)
  BY DEF Known
<1> HIDE DEF none
<1>5. /\ mode = [p \in Process |-> mode[p]] /\ buf \in [Process -> Seq(Units)]
      /\ reached \in [Place -> Seq(Units)] /\ printed = none
      /\ \A p \in Process : buf[p] = none
      /\ \A place \in Place : reached[place] = none
  BY <1>1, <1>2, <1>4 DEF none
<1>6. Output
  BY <1>4, <1>5 DEF Output
<1>7. Kept
  BY <1>4, <1>5 DEF Kept
<1>8. Shown
  BY <1>1 DEF Shown
<1> QED  BY <1>3, <1>6, <1>7, <1>8 DEF Inv

(* No handler of the shell runs when a prompt is shown. *)
LEMMA Working ==
  ASSUME Control, Shown, NEW p \in Process, NEW f, Frame(p, f), phase' = phase,
         todo' = [x \in Process |-> todo'[x]], fd' \in [Process -> Place],
         \A x \in Process \ {p} : todo'[x] = todo[x] /\ buf'[x] = buf[x],
         UNCHANGED <<rc, line>>
  PROVE  Control' /\ Shown'
<1>1. Control'
  BY DEF Control
<1>2. CASE p = "shell"
  BY <1>1, <1>2 DEF Shown, Frame
<1>3. CASE p # "shell"
  BY <1>1, <1>3 DEF Shown, Process
<1> QED  BY <1>1, <1>2, <1>3

LEMMA BelongsIs == ASSUME NEW l, NEW i, NEW to  PROVE Belongs(l, i, to) \in Place
BY DEF Belongs, Place

LEMMA LeavesFrame ==
  ASSUME Control, NEW p \in Process, Returns(p) \/ Refuses(p) \/ todo' = [todo EXCEPT ![p] = <<>>]
  PROVE  /\ todo' = [x \in Process |-> todo'[x]]
         /\ \A x \in Process \ {p} : todo'[x] = todo[x]
<1>1. PICK s : todo' = [todo EXCEPT ![p] = s]
  BY DEF Returns, Refuses
<1>2. todo = [x \in Process |-> todo[x]]
  BY DEF Control
<1> QED  BY <1>1, <1>2

LEMMA DocStep == ASSUME Inv, Doc  PROVE Inv'
<1>1. /\ Frame("shell", "doc") /\ "shell" \in Process /\ (Returns("shell") \/ Refuses("shell"))
      /\ phase' = phase /\ fd' = fd /\ rc' = rc /\ line' = line
      /\ buf' = buf /\ printed' = printed /\ mode' = mode
      /\ \/ /\ Reach("out", buf["shell"]) /\ copied' = copied \cup Ids(buf["shell"])
         \/ UNCHANGED <<reached, copied>>
  BY DEF Doc, Process
<1>2. Control' /\ Shown'
  BY <1>1, LeavesFrame, Working DEF Inv, Control
<1>3. Output' /\ Kept'
  <2>1. CASE UNCHANGED <<reached, copied>>
    BY <1>1, <2>1 DEF Inv, Output, Kept
  <2> QED  BY <1>1, <2>1, CopyOutput DEF Inv
<1> QED  BY <1>2, <1>3 DEF Inv

LEMMA QuietStep ==
  ASSUME Inv, NEW p \in Process, NEW f, Frame(p, f), Returns(p), fd' \in [Process -> Place],
         UNCHANGED <<rc, line, phase, mode, buf, reached, printed, copied>>
  PROVE  Inv'
<1>1. Control' /\ Shown'
  BY LeavesFrame, Working DEF Inv
<1>2. Output' /\ Kept'
  BY DEF Inv, Output, Kept
<1> QED  BY <1>1, <1>2 DEF Inv

LEMMA PrintsStep ==
  ASSUME Inv, NEW p \in Process, NEW f, Frame(p, f), Returns(p) \/ Refuses(p),
         fd' \in [Process -> Place], NEW at \in Place, NEW to \in Place, Prints(p, at, to),
         UNCHANGED <<rc, line, phase>>
  PROVE  Inv'
<1>1. Control /\ Output /\ Kept /\ Shown
  BY DEF Inv
<1>2. Output' /\ \A x \in Process \ {p} : buf'[x] = buf[x]
  BY <1>1, PrintsOutput
<1>3. Kept'
  BY <1>1, PrintsKept
<1>4. Control' /\ Shown'
  BY <1>1, <1>2, LeavesFrame, Working
<1> QED  BY <1>2, <1>3, <1>4 DEF Inv

LEMMA RedirectStep == ASSUME Inv, NEW p \in Process, Redirect(p)  PROVE Inv'
<1>1. fd' \in [Process -> Place]
  BY DEF Redirect, Inv, Control, Place
<1> QED  BY <1>1, QuietStep DEF Redirect

LEMMA RedirectRefusedStep == ASSUME Inv, NEW p \in Process, RedirectRefused(p)  PROVE Inv'
<1>1. fd' \in [Process -> Place] /\ "out" \in Place
  BY DEF RedirectRefused, Inv, Control, Place
<1>2. Returns(p) \/ Refuses(p)
  BY DEF RedirectRefused, GivesUp
<1> QED  BY <1>1, <1>2, PrintsStep DEF RedirectRefused

LEMMA CommandStep == ASSUME Inv, NEW p \in Process, Command(p)  PROVE Inv'
<1> DEFINE i == Head(todo[p])[2]
           to == Belongs(line, i, line[i].to)
           at == fd[p]
<1>1. /\ Frame(p, "command") /\ Returns(p) /\ fd' = fd
      /\ UNCHANGED <<rc, line, phase>>
      /\ Prints(p, at, to) \/ WritesUnit(p, to)
  BY DEF Command
<1>2. to \in Place /\ at \in Place /\ fd \in [Process -> Place]
  BY BelongsIs DEF Inv, Control
<1> HIDE DEF at, to
<1>3. CASE Prints(p, at, to)
  BY <1>1, <1>2, <1>3, PrintsStep
<1>4. CASE WritesUnit(p, to)
  <2>1. Output' /\ Kept' /\ buf' = buf
    BY <1>2, <1>4, WritesOutput DEF Inv
  <2>2. Control' /\ Shown'
    BY <1>1, <1>2, <2>1, LeavesFrame, Working DEF Inv
  <2> QED  BY <2>1, <2>2 DEF Inv
<1> QED  BY <1>1, <1>3, <1>4

LEMMA OpenFailsStep == ASSUME Inv, NEW p \in Process, OpenFails(p)  PROVE Inv'
<1> DEFINE to == Belongs(line, Head(todo[p])[2], "stdout")
<1>1. to \in Place
  BY BelongsIs
<1>2. Ends(p, Unit(p, to))
  BY DEF OpenFails, Ends
<1> HIDE DEF to
<1>3. Output' /\ Kept'
  BY <1>1, <1>2, EndsOutput DEF Inv
<1>4. /\ Frame(p, "redirect") /\ todo' = [todo EXCEPT ![p] = <<>>]
      /\ buf' = [buf EXCEPT ![p] = <<>>] /\ UNCHANGED <<rc, line, fd>>
      /\ IF p = "shell" THEN phase' = "left" ELSE phase' = phase
  BY DEF OpenFails
<1>5. /\ buf \in [Process -> Seq(Units)] /\ fd \in [Process -> Place]
      /\ todo = [x \in Process |-> todo[x]]
  BY DEF Inv, Output, Control
<1>6. /\ todo' = [x \in Process |-> todo'[x]] /\ todo'[p] = <<>> /\ buf'[p] = <<>>
      /\ \A x \in Process \ {p} : todo'[x] = todo[x] /\ buf'[x] = buf[x]
  <2>1. todo' = [x \in Process |-> IF x = p THEN <<>> ELSE todo[x]]
    BY <1>4, <1>5
  <2>2. buf' = [x \in Process |-> IF x = p THEN <<>> ELSE buf[x]]
    BY <1>4, <1>5
  <2> QED  BY <2>1, <2>2
<1>7. CASE p = "shell"
  <2>1. Control'
    BY <1>4, <1>6, <1>7 DEF Inv, Control, Phase
  <2>2. Shown'
    BY <1>6, <1>7 DEF Shown
  <2> QED  BY <1>3, <2>1, <2>2 DEF Inv
<1>8. CASE p # "shell"
  <2>1. Control' /\ Shown'
    BY <1>4, <1>5, <1>6, <1>8, Working DEF Inv
  <2> QED  BY <1>3, <2>1 DEF Inv
<1> QED  BY <1>7, <1>8

LEMMA RestoreStep == ASSUME Inv, NEW p \in Process, Restore(p)  PROVE Inv'
<1>1. fd' \in [Process -> Place]
  BY DEF Restore, Inv, Control, Place
<1> QED  BY <1>1, QuietStep DEF Restore

LEMMA ChildExitStep == ASSUME Inv, NEW p \in {"left", "right"}, ChildExit(p)  PROVE Inv'
<1> DEFINE none == <<>>
<1>1. /\ p \in Process /\ Frame(p, "exit") /\ Returns(p) /\ buf' = [buf EXCEPT ![p] = none]
      /\ UNCHANGED <<rc, line, phase, mode, fd, reached, printed, copied>>
  BY DEF ChildExit, Process
<1>2. /\ none \in Seq(Units) /\ Known(none, Len(printed)) /\ fd \in [Process -> Place]
      /\ mode = [x \in Process |-> mode[x]] /\ buf \in [Process -> Seq(Units)]
  BY DEF Known, Inv, Output, Control
<1> HIDE DEF none
<1>3. Output' /\ Kept'
  BY <1>1, <1>2, CopyKept DEF Inv
<1>4. \A x \in Process \ {p} : buf'[x] = buf[x]
  BY <1>1, <1>2
<1>5. Control' /\ Shown'
  BY <1>1, <1>2, <1>4, LeavesFrame, Working DEF Inv
<1> QED  BY <1>3, <1>5 DEF Inv

LEMMA ForkedStep ==
  ASSUME Inv, NEW p \in {"left", "right"}, NEW f, Frame("shell", f), NEW calls,
         NEW at \in Place, Forked(p, calls, at)
  PROVE  Inv'
<1> DEFINE s == buf["shell"]
<1>1. /\ p \in Process /\ p # "shell" /\ "shell" \in Process /\ fd \in [Process -> Place]
      /\ s \in Seq(Units) /\ Known(s, Len(printed))
      /\ mode = [x \in Process |-> mode[x]] /\ todo = [x \in Process |-> todo[x]]
  BY DEF Process, Inv, Control, Output
<1>2. /\ buf' = [buf EXCEPT ![p] = s] /\ fd' = [fd EXCEPT ![p] = at]
      /\ mode' = [mode EXCEPT ![p] = mode["shell"]]
      /\ todo' = [todo EXCEPT !["shell"] = Tail(@), ![p] = calls \o <<<<"exit", 0>>>>]
      /\ UNCHANGED <<rc, line, phase, reached, printed, copied>>
  BY DEF Forked
<1> HIDE DEF s
<1>3. mode' = [x \in Process |-> mode'[x]] /\ fd' \in [Process -> Place]
      /\ todo' = [x \in Process |-> todo'[x]]
  BY <1>1, <1>2
<1>4. Output' /\ Kept'
  BY <1>1, <1>2, <1>3, CopyKept DEF Inv
<1>5. Control' /\ Shown'
  <2>1. Control'
    BY <1>2, <1>3 DEF Inv, Control
  <2>2. phase \notin {"read", "left"}
    BY DEF Inv, Shown, Frame
  <2> QED  BY <1>2, <2>1, <2>2 DEF Shown
<1> QED  BY <1>4, <1>5 DEF Inv

LEMMA PipeStep == ASSUME Inv, ToPipe \/ Wait \/ ForkLeft \/ ForkRight  PROVE Inv'
<1>1. "shell" \in Process /\ "pipe" \in Place /\ fd \in [Process -> Place]
  BY DEF Inv, Control, Process, Place
<1>2. CASE ToPipe
  <2>1. fd' \in [Process -> Place]
    BY <1>1, <1>2 DEF ToPipe
  <2> QED  BY <1>1, <1>2, <2>1, QuietStep DEF ToPipe
<1>3. CASE Wait
  <2>1. fd' \in [Process -> Place]
    BY <1>1, <1>3 DEF Wait
  <2> QED  BY <1>1, <1>3, <2>1, QuietStep DEF Wait
<1>4. CASE ForkLeft
  BY <1>1, <1>4, ForkedStep DEF ForkLeft
<1>5. CASE ForkRight
  BY <1>1, <1>5, ForkedStep DEF ForkRight
<1> QED  BY <1>2, <1>3, <1>4, <1>5

LEMMA RunsLine ==
  ASSUME Control, NEW l \in Line, Runs(l), fd' = fd, rc' \in Seq(Line),
         phase' \in {"rc", "prompt"}
  PROVE  Control' /\ Shown'
<1>1. todo' = [x \in Process |-> todo'[x]] /\ line' = l
  BY DEF Runs, Control
<1> QED  BY <1>1 DEF Control, Shown, Phase

LEMMA RcLineStep == ASSUME Inv, RcLine  PROVE Inv'
<1>1. Head(rc) \in Line /\ Tail(rc) \in Seq(Line)
  BY DEF RcLine, Inv, Control
<1>2. Control' /\ Shown'
  BY <1>1, RunsLine DEF RcLine, Inv
<1>3. Output' /\ Kept'
  BY DEF RcLine, Inv, Output, Kept
<1> QED  BY <1>2, <1>3 DEF Inv

LEMMA ReadlineStep == ASSUME Inv, Readline  PROVE Inv'
<1>1. PICK l \in Typed : Runs(l)
  BY DEF Readline
<1>2. l \in Line /\ rc \in Seq(Line)
  BY PrintingAssumption DEF Inv, Control
<1>3. Control' /\ Shown'
  BY <1>1, <1>2, RunsLine DEF Readline, Inv
<1>4. Output' /\ Kept'
  BY DEF Readline, Inv, Output, Kept
<1> QED  BY <1>3, <1>4 DEF Inv

LEMMA BannerStep == ASSUME Inv, PrintBanner  PROVE Inv'
<1>1. /\ "shell" \in Process /\ fd["shell"] \in Place /\ "out" \in Place
  BY DEF Inv, Control, Process, Place
<1>2. Prints("shell", fd["shell"], "out")
  BY DEF PrintBanner
<1>3. Output' /\ Kept'
  BY <1>1, <1>2, PrintsOutput, PrintsKept DEF Inv
<1>4. Control' /\ Shown'
  BY DEF PrintBanner, Inv, Control, Shown, Phase
<1> QED  BY <1>3, <1>4 DEF Inv

LEMMA FlushesStep == ASSUME Inv, NEW next \in {"read", "left"}, Flushes(next)  PROVE Inv'
<1>1. /\ Reach(fd["shell"], buf["shell"]) /\ buf' = [buf EXCEPT !["shell"] = <<>>]
      /\ UNCHANGED <<printed, mode, copied>>
  BY DEF Flushes
<1>2. Output' /\ Kept'
  BY <1>1, FlushOutput DEF Inv
<1>3. buf'["shell"] = <<>>
  BY <1>1 DEF Inv, Output, Process
<1>4. Control' /\ Shown'
  BY <1>3 DEF Flushes, Inv, Control, Shown, Phase
<1> QED  BY <1>2, <1>4 DEF Inv

LEMMA Step == Inv /\ [Next]_vars => Inv'
<1> SUFFICES ASSUME Inv, [Next]_vars  PROVE Inv'
  OBVIOUS
<1>1. CASE RcLine
  BY <1>1, RcLineStep
<1>2. CASE PrintBanner
  BY <1>2, BannerStep
<1>3. CASE Prompt \/ Leaves
  BY <1>3, FlushesStep DEF Prompt, Leaves
<1>4. CASE Readline
  BY <1>4, ReadlineStep
<1>5. CASE Doc
  BY <1>5, DocStep
<1>6. CASE ToPipe \/ ForkLeft \/ ForkRight \/ Wait
  BY <1>6, PipeStep
<1>7. ASSUME NEW p \in Process,
             Redirect(p) \/ RedirectRefused(p) \/ OpenFails(p) \/ Command(p) \/ Restore(p)
      PROVE  Inv'
  BY <1>7, RedirectStep, RedirectRefusedStep, OpenFailsStep, CommandStep, RestoreStep
<1>8. CASE ChildExit("left") \/ ChildExit("right")
  BY <1>8, ChildExitStep
<1>9. CASE UNCHANGED vars
  BY <1>9 DEF vars, Inv, Control, Output, Kept, Shown
<1> QED  BY <1>1, <1>2, <1>3, <1>4, <1>5, <1>6, <1>7, <1>8, <1>9 DEF Next

(* Whenever a prompt is shown or the shell has ended, what the shell has   *)
(* printed has come out, once and in one place, for every rc file, every   *)
(* lines typed and a buffer of any size: what a child's exit() or full     *)
(* buffer brought out a second time excepted.                              *)
THEOREM PrintedOnceHolds == Spec => []PrintedOnce
<1>1. Inv => PrintedOnce
  <2> SUFFICES ASSUME Inv, Settled, NEW i \in DOMAIN printed,
                      printed[i].by = "shell", printed[i].id \notin copied
               PROVE  \E place \in Place : OnlyIn(printed[i], place)
    BY DEF PrintedOnce, Range
  <2>1. Placed(printed[i], buf["shell"], reached)
    BY DEF Inv, Kept
  <2>2. buf["shell"] = <<>>
    BY DEF Inv, Shown, Settled
  <2>3. \E place \in Place : OnlyAt(printed[i], place, reached)
    BY <2>1, <2>2, NeverEmpty DEF Placed
  <2> QED  BY <2>3 DEF OnlyAt, OnlyIn
<1> QED  BY <1>1, Start, Step, PTL DEF Spec

(***************************************************************************)
(* The calls of a process: which frame may follow which.                   *)
(***************************************************************************)
SideOp == {"doc", "redirect", "command"}
PipeOp == {"pipe", "restore", "forkleft", "forkright", "wait", "reset", "exit"}
Frames == (SideOp \X {1, 2}) \cup (PipeOp \X {0})

Rank(f) ==
  IF f[1] = "pipe" THEN 1
  ELSE IF f[1] = "doc" THEN (IF f[2] = 1 THEN 2 ELSE 6)
  ELSE IF f[1] = "redirect" THEN (IF f[2] = 1 THEN 3 ELSE 7)
  ELSE IF f[1] = "command" THEN (IF f[2] = 1 THEN 4 ELSE 8)
  ELSE IF f[1] = "restore" THEN 5
  ELSE IF f[1] = "forkleft" THEN 9
  ELSE IF f[1] = "forkright" THEN 10
  ELSE IF f[1] = "wait" THEN 11
  ELSE 12

Follows(f, g, l) ==
  /\ f[1] = "pipe" => g[1] = "doc" /\ g[2] = 1
  /\ f[1] = "doc" => g[1] = "redirect" /\ g[2] = f[2]
  /\ f[1] = "redirect" => g[1] = "command" /\ g[2] = f[2]
  /\ f[1] = "command" /\ f[2] = 1 /\ Len(l) = 2 => g[1] = "restore" \/ g = f
  /\ f[1] = "command" /\ ~(f[2] = 1 /\ Len(l) = 2) =>
       g[1] \in {"forkleft", "reset", "exit"} \/ g = f
  /\ f[1] = "restore" => g[1] \in {"forkleft", "exit"} \/ (g[1] = "doc" /\ g[2] = 2)
  /\ f[1] = "forkleft" => g[1] = "forkright"
  /\ f[1] = "forkright" => g[1] = "wait"
  /\ f[1] = "wait" => g[1] = "reset"
  /\ f[1] \notin {"reset", "exit"}

(* The frames of each process. *)
Belonging(p, f, l) ==
  /\ f[2] # 0 => f[2] \in 1 .. Len(l)
  /\ p = "shell" =>
       /\ f[1] # "exit"
       /\ f[2] # 0 => Len(l) = 1 \/ l[f[2]].doc
       /\ f[1] \in {"pipe", "restore"} => Len(l) = 2 /\ l[1].doc
       /\ f[1] \in {"forkleft", "forkright", "wait"} => Len(l) = 2
  /\ p = "left" => Len(l) = 2 /\ f[2] \in {0, 1} /\ f[1] \in SideOp \cup {"restore", "exit"}
  /\ p = "right" => Len(l) = 2 /\ f[2] \in {0, 2} /\ f[1] \in SideOp \cup {"exit"}

Chain(p, s, l) ==
  /\ s \in Seq(Frames)
  /\ \A j \in 1 .. Len(s) : Belonging(p, s[j], l)
  /\ \A j \in 1 .. Len(s) : j < Len(s) => Follows(s[j], s[j + 1], l)
  /\ \A j, k \in 1 .. Len(s) : j <= k => Rank(s[j]) <= Rank(s[k])

(* A stack of calls ends with reset_data() or _exit(). *)
Stack(p, s, l) ==
  /\ Chain(p, s, l)
  /\ s # <<>> => l \in Line /\ s[Len(s)][1] \in {"reset", "exit"}

LEMMA RankIs == ASSUME NEW f \in Frames  PROVE Rank(f) \in 1 .. 12
BY DEF Rank

LEMMA ChainOne ==
  ASSUME NEW p, NEW f \in Frames, NEW l, Belonging(p, f, l)
  PROVE  Chain(p, <<f>>, l) /\ Len(<<f>>) = 1 /\ <<f>>[1] = f
<1> DEFINE s == <<f>>
<1>1. s \in Seq(Frames) /\ Len(s) = 1 /\ s[1] = f
  OBVIOUS
<1> HIDE DEF s
<1>2. Rank(f) <= Rank(f)
  BY RankIs
<1>3. \A j \in 1 .. Len(s) : j = 1 /\ ~(j < Len(s))
  BY <1>1
<1>4. Chain(p, s, l)
  BY <1>1, <1>2, <1>3 DEF Chain
<1> QED  BY <1>1, <1>4 DEF s

Joins(a, b, l) ==
  /\ a # <<>> /\ b # <<>>
  /\ Follows(a[Len(a)], b[1], l) /\ Rank(a[Len(a)]) <= Rank(b[1])

Linked(p, a, b, r, l) == Chain(p, r, l) /\ r # <<>> /\ r[1] = a[1] /\ r[Len(r)] = b[Len(b)]

LEMMA Associates ==
  ASSUME NEW a \in Seq(Frames), NEW b \in Seq(Frames), NEW c \in Seq(Frames)
  PROVE  (a \o b) \o c = a \o (b \o c)
BY ConcatAssociative

LEMMA ChainConcat ==
  ASSUME NEW p, NEW l, NEW a, NEW b, Chain(p, a, l), Chain(p, b, l), Joins(a, b, l)
  PROVE  Linked(p, a, b, a \o b, l)
<1> DEFINE r == a \o b
<1>1. a \in Seq(Frames) /\ b \in Seq(Frames)
  BY DEF Chain
<1>2. /\ r \in Seq(Frames) /\ Len(r) = Len(a) + Len(b)
      /\ \A i \in 1 .. Len(a) + Len(b) : r[i] = IF i <= Len(a) THEN a[i] ELSE b[i - Len(a)]
  BY <1>1, ConcatProperties
<1>3. Len(a) \in Nat \ {0} /\ Len(b) \in Nat \ {0}
  BY <1>1 DEF Joins
<1> HIDE DEF r
<1> DEFINE m == Len(a)
           n == Len(b)
<1>4. /\ \A i \in 1 .. m : i \in 1 .. Len(r) /\ r[i] = a[i]
      /\ \A i \in m + 1 .. m + n : r[i] = b[i - m] /\ i - m \in 1 .. n
      /\ \A i \in 1 .. Len(r) : i \in 1 .. m \/ i \in m + 1 .. m + n
  BY <1>2, <1>3
<1>5. m \in Nat \ {0} /\ n \in Nat \ {0} /\ Len(r) = m + n /\ m \in 1 .. m /\ 1 \in 1 .. n
  BY <1>2, <1>3
<1>6. /\ \A i \in 1 .. m : Belonging(p, a[i], l) /\ a[i] \in Frames
      /\ \A i \in 1 .. n : Belonging(p, b[i], l) /\ b[i] \in Frames
      /\ \A i \in 1 .. m : i < m => Follows(a[i], a[i + 1], l)
      /\ \A i \in 1 .. n : i < n => Follows(b[i], b[i + 1], l)
      /\ \A i, j \in 1 .. m : i <= j => Rank(a[i]) <= Rank(a[j])
      /\ \A i, j \in 1 .. n : i <= j => Rank(b[i]) <= Rank(b[j])
  BY <1>1 DEF Chain
<1>7. Follows(a[m], b[1], l) /\ Rank(a[m]) <= Rank(b[1])
  BY DEF Joins
<1> HIDE DEF m, n
<1>8. \A j \in 1 .. Len(r) : Belonging(p, r[j], l)
  BY <1>4, <1>6
<1>9. ASSUME NEW j \in 1 .. Len(r), j < Len(r)  PROVE Follows(r[j], r[j + 1], l)
  <2>1. CASE j \in 1 .. m /\ j < m
    <3>1. j + 1 \in 1 .. m
      BY <1>5, <2>1
    <3> QED  BY <1>4, <1>6, <2>1, <3>1
  <2>2. CASE j = m
    <3>1. m + 1 \in m + 1 .. m + n /\ (m + 1) - m = 1
      BY <1>5
    <3>2. r[m] = a[m] /\ r[m + 1] = b[1]
      BY <1>4, <1>5, <3>1
    <3> QED  BY <1>7, <2>2, <3>2
  <2>3. CASE j \in m + 1 .. m + n
    <3>1. j + 1 \in m + 1 .. m + n /\ (j + 1) - m = (j - m) + 1 /\ j - m < n
      BY <1>5, <1>9, <2>3
    <3> DEFINE e == j + 1
               c == j - m
    <3>0. r[j] = b[c] /\ c \in 1 .. n
      BY <1>4, <2>3
    <3>3. r[e] = b[e - m] /\ e - m = c + 1
      BY <1>4, <3>1
    <3>2. r[j] = b[j - m] /\ r[j + 1] = b[(j - m) + 1] /\ j - m \in 1 .. n
      BY <3>0, <3>3
    <3> QED  BY <1>6, <3>1, <3>2
  <2> QED  BY <1>4, <1>5, <2>1, <2>2, <2>3
<1>10. ASSUME NEW j \in 1 .. Len(r), NEW k \in 1 .. Len(r), j <= k
       PROVE  Rank(r[j]) <= Rank(r[k])
  <2>1. CASE j \in 1 .. m /\ k \in 1 .. m
    BY <1>4, <1>6, <1>10, <2>1
  <2>2. CASE j \in 1 .. m /\ k \in m + 1 .. m + n
    <3>1. Rank(a[j]) <= Rank(a[m])
      BY <1>5, <1>6, <2>2
    <3>2. k - m \in 1 .. n /\ 1 <= k - m
      BY <1>5, <2>2
    <3>3. Rank(b[1]) <= Rank(b[k - m])
      BY <1>5, <1>6, <3>2
    <3>4. /\ Rank(a[j]) \in Int /\ Rank(a[m]) \in Int
          /\ Rank(b[1]) \in Int /\ Rank(b[k - m]) \in Int
      <4>1. a[j] \in Frames /\ a[m] \in Frames /\ b[1] \in Frames /\ b[k - m] \in Frames
        BY <1>5, <1>6, <2>2, <3>2
      <4>2. \A f \in Frames : Rank(f) \in Int
        BY RankIs
      <4> QED  BY <4>1, <4>2
    <3>5. Rank(a[j]) <= Rank(b[k - m])
      BY <1>7, <3>1, <3>3, <3>4
    <3> QED  BY <1>4, <2>2, <3>5
  <2>3. CASE j \in m + 1 .. m + n /\ k \in m + 1 .. m + n
    <3>1. j - m \in 1 .. n /\ k - m \in 1 .. n /\ j - m <= k - m
      BY <1>5, <1>10, <2>3
    <3>2. Rank(b[j - m]) <= Rank(b[k - m])
      BY <1>6, <3>1
    <3> QED  BY <1>4, <2>3, <3>2
  <2>4. ~(j \in m + 1 .. m + n /\ k \in 1 .. m)
    BY <1>5, <1>10
  <2> QED  BY <1>4, <2>1, <2>2, <2>3, <2>4
<1>11. Chain(p, r, l)
  BY <1>2, <1>8, <1>9, <1>10 DEF Chain
<1>12. r[1] = a[1] /\ r[Len(r)] = b[Len(b)] /\ r # <<>>
  <2>1. m + n \in m + 1 .. m + n /\ (m + n) - m = n /\ 1 \in 1 .. m
    BY <1>5
  <2>2. r[1] = a[1] /\ r[m + n] = b[n]
    BY <1>4, <2>1
  <2> QED  BY <1>2, <1>5, <2>2 DEF n
<1> QED  BY <1>11, <1>12 DEF r, Linked

LEMMA ChainSuffix ==
  ASSUME NEW p, NEW l, NEW s, Chain(p, s, l), NEW k \in 1 .. Len(s) + 1,
         NEW t, t = SubSeq(s, k, Len(s))
  PROVE  /\ Chain(p, t, l) /\ Len(t) = Len(s) - k + 1
         /\ \A j \in 1 .. Len(t) : t[j] = s[k + j - 1] /\ k + j - 1 \in 1 .. Len(s)
<1>1. s \in Seq(Frames) /\ Len(s) \in Nat
  BY DEF Chain
<1>2. \A i \in k .. Len(s) : s[i] \in Frames
  BY <1>1
<1>3. /\ t \in Seq(Frames) /\ Len(t) = IF k <= Len(s) THEN Len(s) - k + 1 ELSE 0
      /\ \A i \in 1 .. Len(s) - k + 1 : t[i] = s[k + i - 1]
  BY <1>1, <1>2, SubSeqProperties
<1>4. Len(t) = Len(s) - k + 1
  BY <1>1, <1>3
<1>5. \A j \in 1 .. Len(t) : t[j] = s[k + j - 1] /\ k + j - 1 \in 1 .. Len(s)
  BY <1>1, <1>3, <1>4
<1>6. \A j \in 1 .. Len(t) : Belonging(p, t[j], l)
  BY <1>5 DEF Chain
<1>7. ASSUME NEW j \in 1 .. Len(t), j < Len(t)  PROVE Follows(t[j], t[j + 1], l)
  <2>1. j + 1 \in 1 .. Len(t) /\ k + (j + 1) - 1 = (k + j - 1) + 1 /\ k + j - 1 < Len(s)
    BY <1>1, <1>4, <1>7
  <2>2. t[j + 1] = s[(k + j - 1) + 1] /\ t[j] = s[k + j - 1] /\ k + j - 1 \in 1 .. Len(s)
    BY <1>5, <2>1
  <2> QED  BY <2>1, <2>2 DEF Chain
<1>8. ASSUME NEW i \in 1 .. Len(t), NEW j \in 1 .. Len(t), i <= j
      PROVE  Rank(t[i]) <= Rank(t[j])
  <2>1. k + i - 1 <= k + j - 1
    BY <1>1, <1>4, <1>8
  <2> QED  BY <1>5, <2>1 DEF Chain
<1>9. Chain(p, t, l)
  BY <1>3, <1>6, <1>7, <1>8 DEF Chain
<1> QED  BY <1>4, <1>5, <1>9

LEMMA LineIs ==
  ASSUME NEW l \in Line
  PROVE  /\ Len(l) \in {1, 2} /\ DOMAIN l = 1 .. Len(l)
         /\ \A i \in 1 .. Len(l) : l[i] \in Side
<1>1. (\E a \in Side : l = <<a>>) \/ (\E a, b \in Side : l = <<a, b>>)
  BY DEF Line
<1>2. ASSUME NEW a \in Side, l = <<a>>
      PROVE  Len(l) = 1 /\ DOMAIN l = 1 .. Len(l) /\ \A i \in 1 .. Len(l) : l[i] \in Side
  BY <1>2
<1>3. ASSUME NEW a \in Side, NEW b \in Side, l = <<a, b>>
      PROVE  Len(l) = 2 /\ DOMAIN l = 1 .. Len(l) /\ \A i \in 1 .. Len(l) : l[i] \in Side
  BY <1>3
<1> QED  BY <1>1, <1>2, <1>3

(* A side in the process that runs it. *)
Runner(p, i, l) ==
  \/ p = "shell" /\ (Len(l) = 1 \/ l[i].doc)
  \/ p = "left" /\ Len(l) = 2 /\ i = 1
  \/ p = "right" /\ Len(l) = 2 /\ i = 2

LEMMA CallsIs ==
  ASSUME NEW l \in Line, NEW i \in 1 .. Len(l), NEW p, Runner(p, i, l)
  PROVE  LET s == Calls(l[i], i)
         IN  /\ Chain(p, s, l) /\ s # <<>>
             /\ s[1][1] = (IF l[i].doc THEN "doc" ELSE "redirect") /\ s[1][2] = i
             /\ s[Len(s)] = <<"command", i>>
<1> DEFINE d == <<"doc", i>>
           r == <<"redirect", i>>
           c == <<"command", i>>
<1>1. i \in {1, 2} /\ l[i] \in Side /\ l[i].units \in 1 .. 2 /\ Len(l) \in {1, 2}
  BY LineIs DEF Side
<1>2. /\ d \in Frames /\ d[1] = "doc" /\ d[2] = i
      /\ r \in Frames /\ r[1] = "redirect" /\ r[2] = i
      /\ c \in Frames /\ c[1] = "command" /\ c[2] = i
  BY <1>1 DEF Frames, SideOp
<1>3. \A op \in SideOp : Belonging(p, <<op, i>>, l)
  BY <1>1 DEF Belonging, Runner, SideOp
<1>4. Belonging(p, d, l) /\ Belonging(p, r, l) /\ Belonging(p, c, l)
  BY <1>3 DEF SideOp
<1> DEFINE n == l[i].units
           m == [k \in 1 .. n |-> c]
<1>5. n \in {1, 2}
  BY <1>1
<1> HIDE DEF c, n
<1>6. m \in Seq(Frames) /\ Len(m) = n /\ \A k \in 1 .. n : m[k] = c
  BY <1>2, <1>5
<1>7. Chain(p, m, l)
  <2>1. Follows(c, c, l)
    BY <1>2 DEF Follows
  <2>2. Rank(c) <= Rank(c)
    BY <1>2, RankIs
  <2>3. \A j \in 1 .. n : j < n => j + 1 \in 1 .. n
    BY <1>5
  <2> HIDE DEF m
  <2> QED  BY <1>4, <1>6, <2>1, <2>2, <2>3 DEF Chain
<1>8. m # <<>> /\ m[1] = c /\ m[Len(m)] = c
  BY <1>5, <1>6
<1> HIDE DEF d, r, m
<1> DEFINE b == <<r>>
           a == <<d>>
<1>9. Chain(p, b, l) /\ Len(b) = 1 /\ b[1] = r /\ b # <<>>
  BY <1>2, <1>4, ChainOne
<1>10. Chain(p, a, l) /\ Len(a) = 1 /\ a[1] = d /\ a # <<>>
  BY <1>2, <1>4, ChainOne
<1>11. /\ Follows(r, c, l) /\ Rank(r) <= Rank(c)
       /\ Follows(d, r, l) /\ Rank(d) <= Rank(r)
  <2>1. Follows(r, c, l) /\ Follows(d, r, l)
    BY <1>2 DEF Follows
  <2>2. /\ Rank(c) = IF i = 1 THEN 4 ELSE 8
        /\ Rank(r) = IF i = 1 THEN 3 ELSE 7
        /\ Rank(d) = IF i = 1 THEN 2 ELSE 6
    BY <1>2 DEF Rank
  <2> QED  BY <2>1, <2>2
<1> HIDE DEF a, b
<1> DEFINE bm == b \o m
<1>12. Chain(p, bm, l) /\ bm # <<>> /\ bm[1] = r /\ bm[Len(bm)] = c
  <2>1. Joins(b, m, l)
    BY <1>8, <1>9, <1>11 DEF Joins
  <2>2. Linked(p, b, m, bm, l)
    BY <1>7, <1>9, <2>1, ChainConcat
  <2> QED  BY <1>8, <1>9, <2>2 DEF Linked
<1> HIDE DEF bm
<1> DEFINE abm == a \o bm
<1>13. Chain(p, abm, l) /\ abm # <<>> /\ abm[1] = d /\ abm[Len(abm)] = c
  <2>1. Joins(a, bm, l)
    BY <1>10, <1>11, <1>12 DEF Joins
  <2>2. Linked(p, a, bm, abm, l)
    BY <1>10, <1>12, <2>1, ChainConcat
  <2> QED  BY <1>10, <1>12, <2>2 DEF Linked
<1> HIDE DEF abm
<1>14. CASE l[i].doc
  <2>1. Calls(l[i], i) = abm
    <3>1. Calls(l[i], i) = a \o b \o m
      BY <1>14 DEF Calls, a, b, m, d, r, c, n
    <3>2. a \in Seq(Frames) /\ b \in Seq(Frames) /\ m \in Seq(Frames)
      BY <1>7, <1>9, <1>10 DEF Chain
    <3>3. (a \o b) \o m = a \o (b \o m)
      BY <3>2, Associates
    <3> QED  BY <3>1, <3>3 DEF abm, bm
  <2> DEFINE q == Calls(l[i], i)
  <2>2. q[1] = d /\ q[Len(q)] = c /\ Chain(p, q, l) /\ q # <<>>
    BY <1>13, <2>1
  <2> HIDE DEF q
  <2>3. q[1][1] = (IF l[i].doc THEN "doc" ELSE "redirect") /\ q[1][2] = i
    BY <1>2, <1>14, <2>2
  <2>4. q[Len(q)] = <<"command", i>>
    BY <2>2 DEF c
  <2> QED  BY <2>2, <2>3, <2>4 DEF q
<1>15. CASE ~l[i].doc
  <2>1. Calls(l[i], i) = bm
    <3>1. Calls(l[i], i) = <<>> \o b \o m
      BY <1>15 DEF Calls, a, b, m, d, r, c, n
    <3>2. b \in Seq(Frames) /\ m \in Seq(Frames)
      BY <1>7, <1>9 DEF Chain
    <3>3. <<>> \o b = b
      BY <3>2, ConcatEmptySeq
    <3> QED  BY <3>1, <3>3 DEF bm
  <2> DEFINE q == Calls(l[i], i)
  <2>2. q[1] = r /\ q[Len(q)] = c /\ Chain(p, q, l) /\ q # <<>>
    BY <1>12, <2>1
  <2> HIDE DEF q
  <2>3. q[1][1] = (IF l[i].doc THEN "doc" ELSE "redirect") /\ q[1][2] = i
    BY <1>2, <1>15, <2>2
  <2>4. q[Len(q)] = <<"command", i>>
    BY <2>2 DEF c
  <2> QED  BY <2>2, <2>3, <2>4 DEF q
<1> QED  BY <1>14, <1>15

(* The frames of a pipe. *)
LEMMA PipeFrame ==
  ASSUME NEW op \in PipeOp, NEW f, f = <<op, 0>>
  PROVE  f \in Frames /\ f[1] = op /\ f[2] = 0
BY DEF Frames

Ended(p, s, r, l) == Stack(p, r, l) /\ r # <<>> /\ r[1] = s[1]

LEMMA EndsIn ==
  ASSUME NEW p, NEW l \in Line, NEW s, NEW t, NEW e, Chain(p, s, l), s # <<>>,
         e = <<t, 0>>, t \in {"reset", "exit"}, Belonging(p, e, l), Follows(s[Len(s)], e, l)
  PROVE  Ended(p, s, s \o <<e>>, l)
<1> DEFINE b == <<e>>
           r == s \o b
<1>1. e \in Frames /\ e[1] = t
  BY PipeFrame DEF PipeOp
<1>2. Chain(p, b, l) /\ Len(b) = 1 /\ b[1] = e /\ b # <<>>
  BY <1>1, ChainOne
<1> HIDE DEF b
<1>3. s \in Seq(Frames)
  BY DEF Chain
<1>4. s[Len(s)] \in Frames
  BY <1>3
<1>5. Rank(s[Len(s)]) <= Rank(b[1])
  <2>1. Rank(e) = 12
    BY <1>1 DEF Rank
  <2>2. Rank(s[Len(s)]) \in 1 .. 12
    BY <1>4, RankIs
  <2> QED  BY <1>2, <2>1, <2>2
<1>6. Chain(p, r, l) /\ r # <<>> /\ r[1] = s[1] /\ r[Len(r)] = e
  <2>1. Joins(s, b, l)
    BY <1>2, <1>5 DEF Joins
  <2>2. Linked(p, s, b, r, l)
    BY <1>2, <2>1, ChainConcat
  <2> QED  BY <1>2, <2>2 DEF Linked
<1> HIDE DEF r
<1>7. Stack(p, r, l)
  BY <1>1, <1>6 DEF Stack
<1> QED  BY <1>6, <1>7 DEF r, b, Ended

(* From the forks on. *)
LEMMA ForksIs ==
  ASSUME NEW l \in Line, Len(l) = 2, NEW s,
         s = <<<<"forkleft", 0>>, <<"forkright", 0>>, <<"wait", 0>>, <<"reset", 0>>>>
  PROVE  /\ Stack("shell", s, l) /\ s # <<>> /\ s[1] = <<"forkleft", 0>>
         /\ s[Len(s)] = <<"reset", 0>>
<1> DEFINE a == <<"forkleft", 0>>
           b == <<"forkright", 0>>
           c == <<"wait", 0>>
           d == <<"reset", 0>>
<1>1. /\ a \in Frames /\ a[1] = "forkleft" /\ a[2] = 0
      /\ b \in Frames /\ b[1] = "forkright" /\ b[2] = 0
      /\ c \in Frames /\ c[1] = "wait" /\ c[2] = 0
      /\ d \in Frames /\ d[1] = "reset" /\ d[2] = 0
  BY DEF Frames, PipeOp
<1>2. /\ Belonging("shell", a, l) /\ Belonging("shell", b, l)
      /\ Belonging("shell", c, l) /\ Belonging("shell", d, l)
  BY <1>1 DEF Belonging
<1>3. Follows(a, b, l) /\ Follows(b, c, l) /\ Follows(c, d, l)
  BY <1>1 DEF Follows
<1>4. Rank(a) = 9 /\ Rank(b) = 10 /\ Rank(c) = 11 /\ Rank(d) = 12
  BY <1>1 DEF Rank
<1>5. s = <<a, b, c, d>>
  OBVIOUS
<1> HIDE DEF a, b, c, d
<1>6. s \in Seq(Frames) /\ Len(s) = 4 /\ s[1] = a /\ s[2] = b /\ s[3] = c /\ s[4] = d
  BY <1>1, <1>5
<1>7. \A j \in 1 .. 4 : Belonging("shell", s[j], l)
  BY <1>2, <1>6
<1>8. \A j \in 1 .. 4 : j < 4 => Follows(s[j], s[j + 1], l)
  BY <1>3, <1>6
<1>9. \A j \in 1 .. 4 : Rank(s[j]) = j + 8
  BY <1>4, <1>6
<1>10. Chain("shell", s, l)
  BY <1>6, <1>7, <1>8, <1>9 DEF Chain
<1> QED  BY <1>1, <1>6, <1>10 DEF Stack, a, d

(* A line starts where its output goes to the shell's own standard output. *)
Starts(f, l) ==
  /\ f[1] \in {"pipe", "doc", "redirect", "forkleft"}
  /\ f[2] = 1 => Len(l) = 1

LEMMA LineCallsIs ==
  ASSUME NEW l \in Line
  PROVE  /\ Stack("shell", LineCalls(l), l) /\ LineCalls(l) # <<>>
         /\ Starts(LineCalls(l)[1], l)
<1>1. Len(l) \in {1, 2}
  BY LineIs
<1>2. CASE Len(l) = 1
  <2> DEFINE s == Calls(l[1], 1)
             e == <<"reset", 0>>
  <2>1. Runner("shell", 1, l) /\ 1 \in 1 .. Len(l)
    BY <1>2 DEF Runner
  <2>2. /\ Chain("shell", s, l) /\ s # <<>> /\ s[1][1] \in {"doc", "redirect"}
        /\ s[1][2] = 1 /\ s[Len(s)] = <<"command", 1>>
    BY <2>1, CallsIs
  <2>3. LineCalls(l) = s \o <<e>>
    BY <1>2 DEF LineCalls
  <2> HIDE DEF s
  <2>4. e[1] = "reset" /\ e[2] = 0
    OBVIOUS
  <2>5. Follows(s[Len(s)], e, l)
    <3> DEFINE c == <<"command", 1>>
    <3>1. c[1] = "command" /\ c[2] = 1
      OBVIOUS
    <3> HIDE DEF c
    <3>2. Follows(c, e, l)
      BY <1>2, <2>4, <3>1 DEF Follows
    <3> QED  BY <2>2, <3>2 DEF c
  <2>6. Belonging("shell", e, l)
    BY <2>4 DEF Belonging
  <2> HIDE DEF e
  <2>7. e = <<"reset", 0>>
    BY DEF e
  <2>8. Stack("shell", s \o <<e>>, l) /\ s \o <<e>> # <<>> /\ (s \o <<e>>)[1] = s[1]
    <3>1. Ended("shell", s, s \o <<e>>, l)
      BY <2>2, <2>5, <2>6, <2>7, EndsIn
    <3> QED  BY <3>1 DEF Ended
  <2> QED  BY <1>2, <2>2, <2>3, <2>8 DEF Starts
<1>3. CASE Len(l) = 2
  <2> DEFINE z == <<<<"forkleft", 0>>, <<"forkright", 0>>, <<"wait", 0>>, <<"reset", 0>>>>
             f == <<"forkleft", 0>>
             x == IF l[1].doc THEN <<<<"pipe", 0>>>> \o Calls(l[1], 1) \o <<<<"restore", 0>>>>
                  ELSE <<>>
             y == IF l[2].doc THEN Calls(l[2], 2) ELSE <<>>
  <2>1. LineCalls(l) = (x \o y) \o z
    BY <1>3 DEF LineCalls
  <2>2. Stack("shell", z, l) /\ z # <<>> /\ z[1] = f /\ z[Len(z)] = <<"reset", 0>>
    BY <1>3, ForksIs
  <2>3. f[1] = "forkleft" /\ f[2] = 0 /\ Rank(f) = 9
    BY DEF Rank
  <2> HIDE DEF z, f
  <2> DEFINE yz == y \o z
  <2>4. Chain("shell", z, l) /\ z[Len(z)][1] = "reset"
    <3>1. <<"reset", 0>>[1] = "reset"
      OBVIOUS
    <3> QED  BY <2>2, <3>1 DEF Stack
  <2>5. /\ Chain("shell", yz, l) /\ yz # <<>> /\ yz[Len(yz)] = z[Len(z)] /\ y \in Seq(Frames)
        /\ yz[1] = f \/ (yz[1][1] = "doc" /\ yz[1][2] = 2)
    <3>1. CASE l[2].doc
      <4> DEFINE s == Calls(l[2], 2)
                 c == <<"command", 2>>
      <4>1. Runner("shell", 2, l) /\ 2 \in 1 .. Len(l)
        BY <1>3, <3>1 DEF Runner
      <4>2. /\ Chain("shell", s, l) /\ s # <<>> /\ s[1][1] = "doc"
            /\ s[1][2] = 2 /\ s[Len(s)] = c
        BY <3>1, <4>1, CallsIs
      <4>3. c[1] = "command" /\ c[2] = 2
        OBVIOUS
      <4>4. y = s
        BY <3>1
      <4> HIDE DEF s, c, y
      <4>5. Follows(c, f, l) /\ Rank(c) <= Rank(f)
        BY <2>3, <4>3 DEF Follows, Rank
      <4>8. Joins(s, z, l)
        BY <2>2, <4>2, <4>5 DEF Joins
      <4>6. /\ Chain("shell", s \o z, l) /\ s \o z # <<>>
            /\ (s \o z)[1] = s[1] /\ (s \o z)[Len(s \o z)] = z[Len(z)]
        <5>1. Linked("shell", s, z, s \o z, l)
          BY <2>4, <4>2, <4>8, ChainConcat
        <5> QED  BY <5>1 DEF Linked
      <4>7. s \in Seq(Frames)
        BY <4>2 DEF Chain
      <4> QED  BY <4>2, <4>4, <4>6, <4>7
    <3>2. CASE ~l[2].doc
      <4>1. y = <<>> /\ z \in Seq(Frames)
        BY <2>4, <3>2 DEF Chain
      <4>2. yz = z
        BY <4>1, ConcatEmptySeq
      <4> HIDE DEF yz, y
      <4>3. y \in Seq(Frames)
        BY <4>1
      <4> QED  BY <2>2, <2>4, <4>2, <4>3
    <3> QED  BY <3>1, <3>2
  <2>6. Stack("shell", yz, l) /\ Starts(yz[1], l)
    BY <2>3, <2>4, <2>5 DEF Stack, Starts
  <2> HIDE DEF y, yz
  <2>7. CASE ~l[1].doc
    <3>1. x = <<>>
      BY <2>7
    <3>2. z \in Seq(Frames)
      BY <2>4 DEF Chain
    <3>3. LineCalls(l) = yz
      <4>1. <<>> \o y = y
        BY <2>5, ConcatEmptySeq
      <4> QED  BY <2>1, <3>1, <4>1 DEF yz
    <3> QED  BY <2>5, <2>6, <3>3
  <2>8. CASE l[1].doc
    <3> DEFINE s == Calls(l[1], 1)
               a == <<"pipe", 0>>
               r == <<"restore", 0>>
               c == <<"command", 1>>
               aa == <<a>>
               rr == <<r>>
    <3>1. Runner("shell", 1, l) /\ 1 \in 1 .. Len(l)
      BY <1>3, <2>8 DEF Runner
    <3>2. /\ Chain("shell", s, l) /\ s # <<>> /\ s[1][1] = "doc"
          /\ s[1][2] = 1 /\ s[Len(s)] = c
      BY <2>8, <3>1, CallsIs
    <3>3. x = aa \o s \o rr
      BY <2>8
    <3>4. /\ c[1] = "command" /\ c[2] = 1
          /\ a[1] = "pipe" /\ a[2] = 0 /\ a \in Frames
          /\ r[1] = "restore" /\ r[2] = 0 /\ r \in Frames
      BY DEF Frames, PipeOp
    <3> HIDE DEF s, a, r, c, x
    <3>5. /\ Chain("shell", aa, l) /\ Len(aa) = 1 /\ aa[1] = a /\ aa # <<>>
          /\ Chain("shell", rr, l) /\ Len(rr) = 1 /\ rr[1] = r /\ rr # <<>>
      <4>1. Belonging("shell", a, l) /\ Belonging("shell", r, l)
        BY <1>3, <2>8, <3>4 DEF Belonging
      <4> QED  BY <3>4, <4>1, ChainOne
    <3> HIDE DEF aa, rr
    <3> DEFINE as == aa \o s
    <3>6. Chain("shell", as, l) /\ as # <<>> /\ as[1] = a /\ as[Len(as)] = c
      <4>1. Follows(a, s[1], l)
        BY <3>2, <3>4 DEF Follows
      <4>2. Rank(a) <= Rank(s[1])
        BY <3>2, <3>4 DEF Rank
      <4>3. Joins(aa, s, l)
        BY <3>2, <3>5, <4>1, <4>2 DEF Joins
      <4>4. Linked("shell", aa, s, as, l)
        BY <3>2, <3>5, <4>3, ChainConcat
      <4> QED  BY <3>2, <3>5, <4>4 DEF Linked
    <3> HIDE DEF as
    <3> DEFINE ryz == rr \o yz
    <3>7. Chain("shell", ryz, l) /\ ryz # <<>> /\ ryz[1] = r /\ ryz[Len(ryz)] = yz[Len(yz)]
      <4>1. Follows(r, yz[1], l)
        BY <2>3, <2>5, <3>4 DEF Follows
      <4>2. Rank(r) <= Rank(yz[1])
        BY <2>3, <2>5, <3>4 DEF Rank
      <4>3. Joins(rr, yz, l)
        BY <2>5, <3>5, <4>1, <4>2 DEF Joins
      <4>4. Linked("shell", rr, yz, ryz, l)
        BY <2>5, <3>5, <4>3, ChainConcat
      <4> QED  BY <3>5, <4>4 DEF Linked
    <3> HIDE DEF ryz
    <3> DEFINE all == as \o ryz
    <3>8. Chain("shell", all, l) /\ all # <<>> /\ all[1] = a /\ all[Len(all)] = yz[Len(yz)]
      <4>1. Follows(c, r, l)
        BY <1>3, <3>4 DEF Follows
      <4>2. Rank(c) <= Rank(r)
        BY <3>4 DEF Rank
      <4>3. Joins(as, ryz, l)
        BY <3>6, <3>7, <4>1, <4>2 DEF Joins
      <4>4. Linked("shell", as, ryz, all, l)
        BY <3>6, <3>7, <4>3, ChainConcat
      <4> QED  BY <3>6, <3>7, <4>4 DEF Linked
    <3> HIDE DEF all
    <3>9. LineCalls(l) = all
      <4>1. /\ as \in Seq(Frames) /\ rr \in Seq(Frames) /\ y \in Seq(Frames)
            /\ z \in Seq(Frames) /\ yz \in Seq(Frames)
        BY <2>4, <2>5, <3>5, <3>6 DEF Chain
      <4>2. x = as \o rr
        BY <3>3 DEF as
      <4>3. ((as \o rr) \o y) \o z = (as \o rr) \o (y \o z)
        <5> DEFINE ar == as \o rr
        <5>1. ar \in Seq(Frames)
          BY <4>1, ConcatProperties
        <5> HIDE DEF ar
        <5>2. (ar \o y) \o z = ar \o (y \o z)
          BY <4>1, <5>1, Associates
        <5> QED  BY <5>2 DEF ar
      <4>4. (as \o rr) \o yz = as \o (rr \o yz)
        BY <4>1, Associates
      <4> QED  BY <2>1, <4>2, <4>3, <4>4 DEF yz, ryz, all
    <3>10. Stack("shell", all, l)
      BY <2>4, <2>5, <3>8 DEF Stack
    <3>11. Starts(all[1], l)
      BY <3>4, <3>8 DEF Starts
    <3> QED  BY <3>8, <3>9, <3>10, <3>11
  <2> QED  BY <2>7, <2>8
<1> QED  BY <1>1, <1>2, <1>3

(***************************************************************************)
(* The calls of the children.                                              *)
(***************************************************************************)
LEMMA ExitIs ==
  ASSUME NEW l \in Line, Len(l) = 2, NEW p \in {"left", "right"}, NEW s,
         s = <<>> \o <<<<"exit", 0>>>>
  PROVE  Stack(p, s, l) /\ s # <<>> /\ s[1][1] = "exit"
<1> DEFINE e == <<"exit", 0>>
           b == <<e>>
<1>1. e \in Frames /\ e[1] = "exit" /\ e[2] = 0
  BY DEF Frames, PipeOp
<1>2. b \in Seq(Frames) /\ s = b
  BY <1>1, ConcatEmptySeq
<1> HIDE DEF e
<1>3. Belonging(p, e, l)
  BY <1>1 DEF Belonging
<1>4. Chain(p, b, l) /\ Len(b) = 1 /\ b[1] = e
  BY <1>1, <1>3, ChainOne
<1> HIDE DEF b
<1>5. b # <<>>
  BY <1>2, <1>4
<1> QED  BY <1>1, <1>2, <1>4, <1>5 DEF Stack

LEMMA RightCallsIs ==
  ASSUME NEW l \in Line, Len(l) = 2, NEW s, s = Calls(l[2], 2) \o <<<<"exit", 0>>>>
  PROVE  /\ Stack("right", s, l) /\ s # <<>>
         /\ s[1][1] \in {"doc", "redirect"} /\ s[1][2] = 2
<1> DEFINE a == Calls(l[2], 2)
           e == <<"exit", 0>>
           c == <<"command", 2>>
<1>1. Runner("right", 2, l) /\ 2 \in 1 .. Len(l)
  BY DEF Runner
<1>2. /\ Chain("right", a, l) /\ a # <<>> /\ a[1][1] \in {"doc", "redirect"}
      /\ a[1][2] = 2 /\ a[Len(a)] = c
  BY <1>1, CallsIs
<1>3. c[1] = "command" /\ c[2] = 2 /\ e[1] = "exit" /\ e[2] = 0
  OBVIOUS
<1>4. s = a \o <<e>> /\ e = <<"exit", 0>>
  OBVIOUS
<1> HIDE DEF a, c, e
<1>5. Follows(a[Len(a)], e, l) /\ Belonging("right", e, l)
  BY <1>2, <1>3 DEF Follows, Belonging
<1>6. Ended("right", a, a \o <<e>>, l)
  BY <1>2, <1>4, <1>5, EndsIn
<1> QED  BY <1>2, <1>4, <1>6 DEF Ended

LEMMA LeftCallsIs ==
  ASSUME NEW l \in Line, Len(l) = 2, NEW s,
         s = (Calls(l[1], 1) \o <<<<"restore", 0>>>>) \o <<<<"exit", 0>>>>
  PROVE  /\ Stack("left", s, l) /\ s # <<>>
         /\ s[1][1] \in {"doc", "redirect"} /\ s[1][2] = 1
<1> DEFINE a == Calls(l[1], 1)
           e == <<"exit", 0>>
           r == <<"restore", 0>>
           c == <<"command", 1>>
           b == <<r>>
<1>1. Runner("left", 1, l) /\ 1 \in 1 .. Len(l)
  BY DEF Runner
<1>2. /\ Chain("left", a, l) /\ a # <<>> /\ a[1][1] \in {"doc", "redirect"}
      /\ a[1][2] = 1 /\ a[Len(a)] = c
  BY <1>1, CallsIs
<1>3. /\ c[1] = "command" /\ c[2] = 1 /\ e[1] = "exit" /\ e[2] = 0
      /\ r \in Frames /\ r[1] = "restore" /\ r[2] = 0
  BY DEF Frames, PipeOp
<1>4. s = (a \o b) \o <<e>> /\ e = <<"exit", 0>> /\ b = <<r>>
  OBVIOUS
<1> HIDE DEF a, c, e, r
<1>5. Belonging("left", r, l) /\ Belonging("left", e, l)
  BY <1>3 DEF Belonging
<1>6. Chain("left", b, l) /\ Len(b) = 1 /\ b[1] = r /\ b # <<>>
  BY <1>3, <1>4, <1>5, ChainOne
<1> HIDE DEF b
<1>7. Follows(c, r, l) /\ Rank(c) <= Rank(r) /\ Follows(r, e, l)
  BY <1>3 DEF Follows, Rank
<1> DEFINE ab == a \o b
<1>8. Chain("left", ab, l) /\ ab # <<>> /\ ab[1] = a[1] /\ ab[Len(ab)] = r
  <2>1. Joins(a, b, l)
    BY <1>2, <1>6, <1>7 DEF Joins
  <2>2. Linked("left", a, b, ab, l)
    BY <1>2, <1>6, <2>1, ChainConcat
  <2> QED  BY <1>6, <2>2 DEF Linked
<1> HIDE DEF ab
<1>9. Stack("left", ab \o <<e>>, l) /\ ab \o <<e>> # <<>> /\ (ab \o <<e>>)[1] = ab[1]
  <2>1. Follows(ab[Len(ab)], e, l)
    BY <1>7, <1>8
  <2>2. Ended("left", ab, ab \o <<e>>, l)
    BY <1>4, <1>5, <1>8, <2>1, EndsIn
  <2> QED  BY <2>2 DEF Ended
<1> QED  BY <1>2, <1>4, <1>8, <1>9 DEF ab

(***************************************************************************)
(* What is left of a stack when a call returns, or a side is refused.      *)
(***************************************************************************)
LEMMA HeadIs ==
  ASSUME NEW p, NEW l, NEW s, Stack(p, s, l), s # <<>>
  PROVE  /\ Head(s) = s[1] /\ s[1] \in Frames /\ Belonging(p, s[1], l)
         /\ l \in Line /\ Len(s) \in Nat \ {0} /\ s \in Seq(Frames) /\ Chain(p, s, l)
         /\ s[Len(s)][1] \in {"reset", "exit"}
<1>1. s \in Seq(Frames) /\ Chain(p, s, l) /\ l \in Line /\ s[Len(s)][1] \in {"reset", "exit"}
  BY DEF Stack, Chain
<1>2. Len(s) \in Nat \ {0} /\ 1 \in 1 .. Len(s) /\ Head(s) = s[1] /\ s[1] \in Frames
  BY <1>1
<1>3. Belonging(p, s[1], l)
  BY <1>1, <1>2 DEF Chain
<1> QED  BY <1>1, <1>2, <1>3

Rest(p, s, t, l) ==
  /\ Stack(p, t, l)
  /\ t # <<>> => Follows(s[1], t[1], l) /\ t[1] \in Frames /\ Belonging(p, t[1], l)
  /\ t = <<>> <=> s[1][1] \in {"reset", "exit"}
  /\ \A j \in 1 .. Len(t) : /\ t[j] \in Frames /\ Belonging(p, t[j], l)
                            /\ Rank(s[1]) <= Rank(t[j]) /\ \E k \in 1 .. Len(s) : t[j] = s[k]

LEMMA TailIs ==
  ASSUME NEW p, NEW l, NEW s, Stack(p, s, l), s # <<>>
  PROVE  Rest(p, s, Tail(s), l)
<1> DEFINE t == Tail(s)
           n == Len(s)
<1>1. /\ s[1] \in Frames /\ l \in Line /\ n \in Nat \ {0} /\ s \in Seq(Frames)
      /\ Chain(p, s, l) /\ s[n][1] \in {"reset", "exit"}
  BY HeadIs
<1>2. t = SubSeq(s, 2, n) /\ 2 \in 1 .. n + 1
  BY <1>1
<1> DEFINE w == SubSeq(s, 2, n)
<1>9. /\ Chain(p, w, l) /\ Len(w) = n - 2 + 1
      /\ \A j \in 1 .. Len(w) : w[j] = s[2 + j - 1] /\ 2 + j - 1 \in 1 .. n
  BY <1>1, <1>2, ChainSuffix
<1> HIDE DEF t
<1>3. /\ Chain(p, t, l) /\ Len(t) = n - 2 + 1
      /\ \A j \in 1 .. Len(t) : t[j] = s[2 + j - 1] /\ 2 + j - 1 \in 1 .. n
  BY <1>2, <1>9
<1>4. t \in Seq(Frames) /\ (t = <<>> <=> n = 1)
  BY <1>1, <1>3 DEF Chain
<1>5. ASSUME t # <<>>
      PROVE /\ 1 \in 1 .. Len(t) /\ t[1] = s[2] /\ Follows(s[1], s[2], l)
            /\ t[Len(t)] = s[n] /\ t[1] \in Frames /\ Belonging(p, t[1], l)
  <2>1. n >= 2 /\ 1 \in 1 .. Len(t) /\ Len(t) \in 1 .. Len(t) /\ Len(t) = n - 1
    BY <1>1, <1>3, <1>4, <1>5
  <2>2. t[1] = s[2 + 1 - 1] /\ 2 + 1 - 1 = 2
    BY <1>3, <2>1
  <2>3. t[Len(t)] = s[2 + Len(t) - 1] /\ 2 + Len(t) - 1 = n
    BY <1>1, <1>3, <2>1
  <2>4. Follows(s[1], s[1 + 1], l) /\ 1 + 1 = 2
    BY <1>1, <2>1 DEF Chain
  <2>5. t[1] \in Frames /\ Belonging(p, t[1], l)
    BY <1>3, <1>4, <2>1 DEF Chain
  <2> QED  BY <2>1, <2>2, <2>3, <2>4, <2>5
<1>6. Stack(p, t, l)
  BY <1>1, <1>3, <1>5 DEF Stack
<1>7. t = <<>> <=> s[1][1] \in {"reset", "exit"}
  <2>1. t = <<>> => s[1][1] \in {"reset", "exit"}
    BY <1>1, <1>4
  <2>2. t # <<>> => ~(s[1][1] \in {"reset", "exit"})
    BY <1>5 DEF Follows
  <2> QED  BY <2>1, <2>2
<1>8. ASSUME NEW j \in 1 .. Len(t)
      PROVE  /\ t[j] \in Frames /\ Belonging(p, t[j], l)
             /\ Rank(s[1]) <= Rank(t[j]) /\ \E k \in 1 .. Len(s) : t[j] = s[k]
  <2> DEFINE k == 2 + j - 1
  <2>1. t[j] = s[k] /\ k \in 1 .. n /\ 1 \in 1 .. n /\ 1 <= k
    BY <1>1, <1>3
  <2> HIDE DEF k
  <2>2. Rank(s[1]) <= Rank(s[k])
    BY <1>1, <2>1 DEF Chain
  <2>3. t[j] \in Frames /\ Belonging(p, t[j], l)
    BY <1>3, <1>4 DEF Chain
  <2> QED  BY <2>1, <2>2, <2>3
<1> QED  BY <1>5, <1>6, <1>7, <1>8 DEF Rest, t

LEMMA MinIs ==
  ASSUME NEW S \in SUBSET Nat, S # {}
  PROVE  Min(S) \in S /\ \A y \in S : Min(S) <= y
<1> DEFINE Less == {ss \in Nat \X Nat : ss[1] < ss[2]}
<1>1. IsWellFoundedOn(Less, Nat)
  BY NatLessThanWellFounded DEF OpToRel
<1>2. \E x \in S : \A y \in S : <<y, x>> \notin Less
  <2> HIDE DEF Less
  <2> QED  BY <1>1, WFMin
<1>3. PICK x \in S : \A y \in S : ~ (y < x)
  BY <1>2
<1>4. \A y \in S : x <= y
  BY <1>3
<1> QED  BY <1>4 DEF Min

(* What is left when the handlers of a side return early. *)
Dropped(s, i) == SubSeq(s, Min({j \in DOMAIN s : s[j][2] # i}), Len(s))

Dropping(p, s, t, i, l) ==
  /\ Stack(p, t, l) /\ t # <<>> /\ t[1] \in Frames /\ Belonging(p, t[1], l)
  /\ IF i = 1 /\ Len(l) = 2 THEN t[1][1] = "restore"
     ELSE t[1][1] \in {"forkleft", "reset", "exit"}
  /\ \A j \in 1 .. Len(t) : /\ t[j] \in Frames /\ Belonging(p, t[j], l)
                            /\ Rank(t[1]) <= Rank(t[j])

LEMMA DroppedIs ==
  ASSUME NEW p, NEW l, NEW s, Stack(p, s, l), s # <<>>, NEW i \in {1, 2},
         s[1][2] = i, s[1][1] \in SideOp
  PROVE  Dropping(p, s, Dropped(s, i), i, l)
<1> DEFINE n == Len(s)
           S == {j \in DOMAIN s : s[j][2] # i}
           m == Min(S)
           t == SubSeq(s, m, n)
<1>1. /\ s[1] \in Frames /\ l \in Line /\ n \in Nat \ {0} /\ s \in Seq(Frames)
      /\ Chain(p, s, l) /\ s[n][1] \in {"reset", "exit"} /\ DOMAIN s = 1 .. n
  BY HeadIs
<1>2. s[n][2] # i /\ n \in DOMAIN s
  <2>1. s[n] \in Frames
    BY <1>1
  <2> QED  BY <1>1, <2>1 DEF Frames, SideOp
<1>3. S \in SUBSET Nat /\ S # {} /\ 1 \notin S /\ S \subseteq 1 .. n
  BY <1>1, <1>2
<1> DEFINE Q == S
<1> HIDE DEF S
<1>4. m \in S /\ \A y \in S : m <= y
  BY <1>3, MinIs
<1> HIDE DEF m
<1>5. m \in 2 .. n /\ m - 1 \in 1 .. n /\ m - 1 \notin S /\ m \in 1 .. n + 1
  BY <1>1, <1>3, <1>4
<1> DEFINE g == s[m - 1]
           f == s[m]
<1>6. f[2] # i /\ f \in Frames /\ g \in Frames /\ g[2] = i
  <2>1. m \in DOMAIN s /\ m - 1 \in DOMAIN s
    BY <1>1, <1>5
  <2>2. f[2] # i /\ g[2] = i
    BY <1>4, <1>5, <2>1 DEF S
  <2> QED  BY <1>1, <2>1, <2>2
<1>7. Follows(g, f, l)
  <2>1. m - 1 < n /\ (m - 1) + 1 = m
    BY <1>1, <1>5
  <2> QED  BY <1>1, <1>5, <2>1 DEF Chain
<1>8. /\ Chain(p, t, l) /\ Len(t) = n - m + 1
      /\ \A j \in 1 .. Len(t) : t[j] = s[m + j - 1] /\ m + j - 1 \in 1 .. n
  BY <1>1, <1>5, ChainSuffix
<1> HIDE DEF g, f, t
<1>9. /\ 1 \in 1 .. Len(t) /\ t # <<>> /\ t \in Seq(Frames) /\ Len(t) \in 1 .. Len(t)
      /\ t[1] = f /\ t[Len(t)] = s[n]
  <2>1. 1 \in 1 .. Len(t) /\ Len(t) \in 1 .. Len(t)
    BY <1>1, <1>5, <1>8
  <2>2. t \in Seq(Frames) /\ t # <<>>
    BY <1>8, <2>1 DEF Chain
  <2>3. t[1] = s[m + 1 - 1] /\ m + 1 - 1 = m
    BY <1>5, <1>8, <2>1
  <2>4. t[Len(t)] = s[m + Len(t) - 1] /\ m + Len(t) - 1 = n
    BY <1>1, <1>5, <1>8, <2>1
  <2> QED  BY <2>1, <2>2, <2>3, <2>4 DEF f
<1>10. Stack(p, t, l)
  BY <1>1, <1>8, <1>9 DEF Stack
<1>11. IF i = 1 /\ Len(l) = 2 THEN f[1] = "restore"
       ELSE f[1] \in {"forkleft", "reset", "exit"}
  <2>1. g[1] \in SideOp
    BY <1>6 DEF Frames
  <2>2. g[1] = "command"
    BY <1>6, <1>7, <2>1 DEF Follows, SideOp
  <2>3. f # g
    BY <1>6
  <2> QED  BY <1>6, <1>7, <2>2, <2>3 DEF Follows
<1>12. ASSUME NEW j \in 1 .. Len(t)
       PROVE  t[j] \in Frames /\ Belonging(p, t[j], l) /\ Rank(t[1]) <= Rank(t[j])
  <2>1. 1 <= j /\ t[j] \in Frames
    BY <1>9
  <2> QED  BY <1>8, <1>9, <2>1 DEF Chain
<1>13. Dropping(p, s, t, i, l)
  BY <1>9, <1>10, <1>11, <1>12 DEF Dropping
<1> QED  BY <1>13 DEF t, m, S, Dropped

(***************************************************************************)
(* Where descriptor 1 is when a call comes to run.                         *)
(***************************************************************************)
Where(f, at, l) ==
  /\ f[1] \in {"doc", "redirect"} => at = Belongs(l, f[2], "stdout")
  /\ f[1] = "command" =>
       \/ l[f[2]].to \in {"stdout", "file"} /\ at = Belongs(l, f[2], l[f[2]].to)
       \/ l[f[2]].to = "noname" /\ l[f[2]].doc /\ at = "out"
  /\ f[1] = "pipe" => at = "out"
  /\ f[1] \in {"forkleft", "forkright"} => l[2].doc \/ at = "out"

Stacks == \A p \in Process : Stack(p, todo[p], line)
Wheres == \A p \in Process : todo[p] # <<>> => Where(todo[p][1], fd[p], line)

(* The shell waits for its children, and when it rests, its descriptor is  *)
(* its own again.                                                          *)
Children ==
  /\ todo["left"] # <<>> =>
       todo["shell"] # <<>> /\ todo["shell"][1][1] \in {"forkright", "wait"}
  /\ todo["right"] # <<>> => todo["shell"] # <<>> /\ todo["shell"][1][1] = "wait"
Rests == phase # "left" /\ todo["shell"] = <<>> => fd["shell"] = "out"

Tidy == Stacks /\ Wheres /\ Children /\ Rests

LEMMA FrameIs ==
  ASSUME Control, Tidy, NEW p \in Process, NEW f, Frame(p, f), NEW s, s = todo[p]
  PROVE  /\ s # <<>> /\ Head(s) = s[1] /\ s[1][1] = f /\ s[1] \in Frames
         /\ Belonging(p, s[1], line) /\ line \in Line /\ Stack(p, s, line)
         /\ Where(s[1], fd[p], line) /\ Rest(p, s, Tail(s), line)
         /\ p = "shell" /\ f \notin {"forkright", "wait"} =>
              todo["left"] = <<>> /\ todo["right"] = <<>>
<1>1. s # <<>> /\ Stack(p, s, line) /\ Where(s[1], fd[p], line)
  BY DEF Tidy, Stacks, Wheres, Frame
<1>2. Head(s) = s[1] /\ s[1] \in Frames /\ Belonging(p, s[1], line) /\ line \in Line
  BY <1>1, HeadIs
<1>3. s[1][1] = f
  BY <1>2 DEF Frame
<1>4. p = "shell" /\ f \notin {"forkright", "wait"} =>
        todo["left"] = <<>> /\ todo["right"] = <<>>
  BY <1>3 DEF Tidy, Children
<1>5. Rest(p, s, Tail(s), line)
  BY <1>1, TailIs
<1> QED  BY <1>1, <1>2, <1>3, <1>4, <1>5

LEMMA Alone ==
  ASSUME Control, Tidy, NEW f, Frame("shell", f), f \notin {"forkright", "wait"}
  PROVE  todo["left"] = <<>> /\ todo["right"] = <<>>
<1> DEFINE s == todo["shell"]
<1>1. "shell" \in Process /\ s # <<>> /\ Stack("shell", s, line)
  BY DEF Tidy, Stacks, Frame, Process
<1>2. Head(s) = s[1]
  BY <1>1, HeadIs
<1>3. s[1][1] = f
  BY <1>2 DEF Frame
<1> QED  BY <1>3 DEF Tidy, Children

LEMMA Moved ==
  ASSUME Control, Tidy, NEW p \in Process, todo[p] # <<>>,
         NEW t, todo' = [todo EXCEPT ![p] = t], line' = line, Stack(p, t, line),
         fd' \in [Process -> Place], \A x \in Process \ {p} : fd'[x] = fd[x],
         t # <<>> => Where(t[1], fd'[p], line),
         p = "shell" => todo["left"] = <<>> /\ todo["right"] = <<>>,
         p = "shell" /\ t = <<>> => phase' = "left" \/ fd'["shell"] = "out",
         p # "shell" => phase' = phase
  PROVE  Tidy'
<1>1. todo = [x \in Process |-> todo[x]]
  BY DEF Control
<1>2. todo'[p] = t /\ \A x \in Process \ {p} : todo'[x] = todo[x]
  BY <1>1
<1>3. Stacks'
  BY <1>2 DEF Tidy, Stacks
<1>4. Wheres'
  BY <1>2 DEF Tidy, Wheres
<1>5. Children'
  <2>1. CASE p = "shell"
    BY <1>2, <2>1 DEF Children, Process
  <2>2. CASE p # "shell"
    <3>1. todo'["shell"] = todo["shell"]
      BY <1>2, <2>2 DEF Process
    <3> QED  BY <1>2, <2>2, <3>1 DEF Tidy, Children, Process
  <2> QED  BY <2>1, <2>2
<1>6. Rests'
  BY <1>2 DEF Tidy, Rests, Process
<1> QED  BY <1>3, <1>4, <1>5, <1>6 DEF Tidy

(* A call returns. *)
LEMMA ReturnsTidy ==
  ASSUME Control, Tidy, NEW p \in Process, NEW op, Frame(p, op), Returns(p),
         op \notin {"forkright", "wait"} \/ (todo["left"] = <<>> /\ todo["right"] = <<>>),
         line' = line, phase' = phase,
         fd' \in [Process -> Place], \A x \in Process \ {p} : fd'[x] = fd[x],
         NEW f, f = Head(todo[p]),
         \A g \in Frames :
           /\ f \in Frames /\ f[1] = op /\ Follows(f, g, line) /\ Where(f, fd[p], line)
           /\ Belonging(p, f, line) /\ Belonging(p, g, line) /\ line \in Line
           => Where(g, fd'[p], line),
         op = "reset" => fd'[p] = "out"
  PROVE  Tidy'
<1> DEFINE s == todo[p]
           t == Tail(s)
<1>1. /\ s # <<>> /\ Head(s) = s[1] /\ s[1][1] = op /\ s[1] \in Frames
      /\ Belonging(p, s[1], line) /\ line \in Line /\ Stack(p, s, line)
      /\ Where(s[1], fd[p], line) /\ Rest(p, s, t, line)
      /\ p = "shell" /\ op \notin {"forkright", "wait"} =>
           todo["left"] = <<>> /\ todo["right"] = <<>>
  BY FrameIs
<1>2. todo' = [todo EXCEPT ![p] = t]
  BY DEF Returns
<1> HIDE DEF t
<1>3. /\ Stack(p, t, line)
      /\ t # <<>> => Follows(s[1], t[1], line) /\ t[1] \in Frames /\ Belonging(p, t[1], line)
      /\ t = <<>> <=> s[1][1] \in {"reset", "exit"}
  BY <1>1 DEF Rest
<1>4. t # <<>> => Where(t[1], fd'[p], line)
  BY <1>1, <1>3
<1>5. p = "shell" => op # "exit"
  BY <1>1 DEF Belonging
<1>6. p = "shell" /\ t = <<>> => fd'["shell"] = "out"
  BY <1>1, <1>3, <1>5
<1>7. p = "shell" => todo["left"] = <<>> /\ todo["right"] = <<>>
  BY <1>1
<1>8. todo[p] # <<>>
  BY <1>1
<1> QED  BY <1>2, <1>3, <1>4, <1>6, <1>7, <1>8, Moved

(* A side is refused. *)
LEMMA RefusesTidy ==
  ASSUME Control, Tidy, NEW p \in Process, NEW op \in {"doc", "redirect"}, Frame(p, op),
         Refuses(p), line' = line, phase' = phase,
         fd' \in [Process -> Place], \A x \in Process \ {p} : fd'[x] = fd[x],
         fd'[p] = "out" \/ (p = "shell" /\ op = "doc")
  PROVE  /\ Tidy'
         /\ \E t : /\ todo' = [todo EXCEPT ![p] = t]
                  /\ Dropping(p, todo[p], t, todo[p][1][2], line)
<1> DEFINE s == todo[p]
           i == s[1][2]
           t == Dropped(s, i)
<1>1. /\ s # <<>> /\ Head(s) = s[1] /\ s[1][1] = op /\ s[1] \in Frames
      /\ Belonging(p, s[1], line) /\ line \in Line /\ Stack(p, s, line)
      /\ Where(s[1], fd[p], line)
      /\ p = "shell" /\ op \notin {"forkright", "wait"} =>
           todo["left"] = <<>> /\ todo["right"] = <<>>
  BY FrameIs
<1>2. i \in {1, 2} /\ op \in SideOp
  BY <1>1 DEF Frames, PipeOp, SideOp
<1>3. Dropping(p, s, t, i, line)
  BY <1>1, <1>2, DroppedIs
<1>4. todo' = [todo EXCEPT ![p] = t]
  BY <1>1 DEF Refuses, Dropped
<1> HIDE DEF t, s
<1>5. Stack(p, t, line) /\ t # <<>> /\ t[1] \in Frames /\ Belonging(p, t[1], line)
  BY <1>3 DEF Dropping
<1>6. Where(t[1], fd'[p], line)
  <2>1. t[1][1] \in {"forkleft", "reset", "exit", "restore"}
    BY <1>3 DEF Dropping
  <2>2. ASSUME t[1][1] = "forkleft"  PROVE line[2].doc \/ fd'[p] = "out"
    <3>1. SUFFICES ASSUME p = "shell", op = "doc"  PROVE line[2].doc
      OBVIOUS
    <3>2. Len(line) = 2 /\ (i # 0 => Len(line) = 1 \/ line[i].doc)
      BY <1>1, <1>5, <2>2, <3>1 DEF Belonging
    <3>3. i = 2
      BY <1>2, <1>3, <2>2, <3>2 DEF Dropping
    <3> QED  BY <3>2, <3>3
  <2> QED  BY <2>1, <2>2 DEF Where
<1>7. p = "shell" => todo["left"] = <<>> /\ todo["right"] = <<>>
  BY <1>1
<1>8. todo[p] # <<>>
  BY <1>1 DEF s
<1>9. Tidy'
  BY <1>4, <1>5, <1>6, <1>7, <1>8, Moved
<1> QED  BY <1>3, <1>4, <1>9 DEF s

LEMMA RedirectTidy == ASSUME Inv, Tidy, NEW p \in Process, Redirect(p)  PROVE Tidy'
<1> DEFINE f == Head(todo[p])
<1>1. /\ Control /\ Frame(p, "redirect") /\ Returns(p) /\ line' = line /\ phase' = phase
      /\ fd' = [fd EXCEPT ![p] = IF line[f[2]].to = "file" THEN "file" ELSE @]
      /\ fd \in [Process -> Place] /\ line[f[2]].to \in {"stdout", "file"}
  BY DEF Redirect, Inv, Control
<1>2. f = Head(todo[p])
  OBVIOUS
<1> HIDE DEF f
<1>3. /\ fd' \in [Process -> Place] /\ \A x \in Process \ {p} : fd'[x] = fd[x]
      /\ fd'[p] = IF line[f[2]].to = "file" THEN "file" ELSE fd[p]
  BY <1>1 DEF Place
<1>4. ASSUME NEW g \in Frames, f[1] = "redirect", Follows(f, g, line),
             Where(f, fd[p], line)
      PROVE  Where(g, fd'[p], line)
  <2>1. g[1] = "command" /\ g[2] = f[2] /\ fd[p] = Belongs(line, f[2], "stdout")
    BY <1>4 DEF Follows, Where
  <2>2. fd'[p] = Belongs(line, g[2], line[g[2]].to)
    BY <1>1, <1>3, <2>1 DEF Belongs
  <2> QED  BY <1>1, <2>1, <2>2 DEF Where
<1> QED  BY <1>1, <1>2, <1>3, <1>4, ReturnsTidy

LEMMA RestoreTidy == ASSUME Inv, Tidy, NEW p \in Process, Restore(p)  PROVE Tidy'
<1> DEFINE f == Head(todo[p])
           op == f[1]
<1>1. /\ Control /\ Frame(p, op) /\ op \in {"restore", "reset"} /\ Returns(p)
      /\ line' = line /\ phase' = phase /\ fd' = [fd EXCEPT ![p] = "out"]
      /\ fd \in [Process -> Place]
  BY DEF Restore, Frame, Inv, Control
<1>2. f = Head(todo[p])
  OBVIOUS
<1> HIDE DEF f, op
<1>3. /\ fd' \in [Process -> Place] /\ \A x \in Process \ {p} : fd'[x] = fd[x]
      /\ fd'[p] = "out"
  BY <1>1 DEF Place
<1>4. ASSUME NEW g \in Frames, f[1] = op, Follows(f, g, line)
      PROVE  Where(g, fd'[p], line)
  <2>1. g[1] \in {"forkleft", "exit"} \/ (g[1] = "doc" /\ g[2] = 2)
    BY <1>1, <1>4 DEF Follows
  <2>2. Belongs(line, 2, "stdout") = "out"
    BY DEF Belongs
  <2> QED  BY <1>3, <2>1, <2>2 DEF Where
<1> QED  BY <1>1, <1>2, <1>3, <1>4, ReturnsTidy

LEMMA ToPipeTidy == ASSUME Inv, Tidy, ToPipe  PROVE Tidy'
<1> DEFINE f == Head(todo["shell"])
<1>1. /\ Control /\ Frame("shell", "pipe") /\ Returns("shell") /\ "shell" \in Process
      /\ line' = line /\ phase' = phase /\ fd' = [fd EXCEPT !["shell"] = "pipe"]
      /\ fd \in [Process -> Place]
  BY DEF ToPipe, Inv, Control, Process
<1>2. f = Head(todo["shell"])
  OBVIOUS
<1> HIDE DEF f
<1>3. /\ fd' \in [Process -> Place] /\ \A x \in Process \ {"shell"} : fd'[x] = fd[x]
      /\ fd'["shell"] = "pipe"
  BY <1>1 DEF Place
<1>4. ASSUME NEW g \in Frames, f[1] = "pipe", Follows(f, g, line), Belonging("shell", f, line)
      PROVE  Where(g, fd'["shell"], line)
  <2>1. g[1] = "doc" /\ g[2] = 1 /\ Len(line) = 2
    BY <1>4 DEF Follows, Belonging
  <2>2. Belongs(line, 1, "stdout") = "pipe"
    BY <2>1 DEF Belongs
  <2> QED  BY <1>3, <2>1, <2>2 DEF Where
<1> QED  BY <1>1, <1>2, <1>3, <1>4, ReturnsTidy

LEMMA WaitTidy == ASSUME Inv, Tidy, Wait  PROVE Tidy'
<1> DEFINE f == Head(todo["shell"])
<1>1. /\ Control /\ Frame("shell", "wait") /\ Returns("shell") /\ "shell" \in Process
      /\ line' = line /\ phase' = phase /\ fd' = fd /\ fd \in [Process -> Place]
      /\ todo["left"] = <<>> /\ todo["right"] = <<>>
  BY DEF Wait, Inv, Control, Process
<1>2. f = Head(todo["shell"])
  OBVIOUS
<1> HIDE DEF f
<1>3. fd' \in [Process -> Place] /\ \A x \in Process \ {"shell"} : fd'[x] = fd[x]
  BY <1>1
<1>4. ASSUME NEW g \in Frames, f[1] = "wait", Follows(f, g, line)
      PROVE  Where(g, fd'["shell"], line)
  BY <1>4 DEF Follows, Where
<1> QED  BY <1>1, <1>2, <1>3, <1>4, ReturnsTidy

(* A command, here-document or child's exit leaves the descriptor alone. *)
LEMMA SameTidy ==
  ASSUME Inv, Tidy, NEW p \in Process, NEW op \in {"doc", "command", "exit"}, Frame(p, op),
         Returns(p), line' = line, phase' = phase, fd' = fd
  PROVE  Tidy'
<1> DEFINE f == Head(todo[p])
<1>1. Control /\ fd' \in [Process -> Place] /\ \A x \in Process \ {p} : fd'[x] = fd[x]
  BY DEF Inv, Control
<1>2. f = Head(todo[p])
  OBVIOUS
<1> HIDE DEF f
<1>3. ASSUME NEW g \in Frames, f \in Frames, f[1] = op, Follows(f, g, line),
             Where(f, fd[p], line), Belonging(p, f, line), Belonging(p, g, line)
      PROVE  Where(g, fd'[p], line)
  <2>1. fd'[p] = fd[p]
    OBVIOUS
  <2>2. CASE op = "doc"
    BY <1>3, <2>1, <2>2 DEF Follows, Where
  <2>3. CASE op = "command"
    <3>1. CASE g = f
      BY <1>3, <2>1, <3>1
    <3>2. CASE g # f
      <4>1. g[1] \in {"restore", "forkleft", "reset", "exit"}
        BY <1>3, <2>3, <3>2 DEF Follows
      <4>2. ASSUME g[1] = "forkleft"  PROVE line[2].doc
        <5>1. p = "shell"
          BY <1>3, <4>2 DEF Belonging, Process, SideOp
        <5>2. f[2] \in {1, 2}
          BY <1>3, <2>3 DEF Frames, PipeOp
        <5>3. Len(line) = 2 /\ line[f[2]].doc
          BY <1>3, <4>2, <5>1, <5>2 DEF Belonging
        <5>4. f[2] = 2
          BY <1>3, <2>3, <3>2, <4>2, <5>2, <5>3 DEF Follows
        <5> QED  BY <5>3, <5>4
      <4> QED  BY <4>1, <4>2 DEF Where
    <3> QED  BY <3>1, <3>2
  <2>4. CASE op = "exit"
    BY <1>3, <2>4 DEF Follows
  <2> QED  BY <2>2, <2>3, <2>4
<1>4. op \notin {"forkright", "wait", "reset"}
  OBVIOUS
<1> QED  BY <1>1, <1>2, <1>3, <1>4, ReturnsTidy

LEMMA DocTidy == ASSUME Inv, Tidy, Doc  PROVE Tidy'
<1>1. /\ "shell" \in Process /\ Frame("shell", "doc") /\ line' = line /\ phase' = phase
      /\ fd' = fd /\ (Returns("shell") \/ Refuses("shell"))
  BY DEF Doc, Process
<1>2. Control /\ fd' \in [Process -> Place]
  BY <1>1 DEF Inv, Control
<1>3. CASE Returns("shell")
  BY <1>1, <1>3, SameTidy
<1>4. CASE Refuses("shell")
  <2>1. \A x \in Process \ {"shell"} : fd'[x] = fd[x]
    BY <1>1
  <2> QED  BY <1>1, <1>2, <1>4, <2>1, RefusesTidy
<1> QED  BY <1>1, <1>3, <1>4

LEMMA RedirectRefusedTidy == ASSUME Inv, Tidy, NEW p \in Process, RedirectRefused(p)  PROVE Tidy'
<1> DEFINE f == Head(todo[p])
<1>1. /\ Frame(p, "redirect") /\ line' = line /\ phase' = phase
      /\ fd' = [fd EXCEPT ![p] = "out"] /\ Control /\ fd \in [Process -> Place]
      /\ line[f[2]].to = "noname" /\ IF line[f[2]].doc THEN Returns(p) ELSE Refuses(p)
  BY DEF RedirectRefused, GivesUp, Inv, Control
<1>2. /\ fd' \in [Process -> Place] /\ fd'[p] = "out"
      /\ \A x \in Process \ {p} : fd'[x] = fd[x]
  BY <1>1 DEF Place
<1>3. f = Head(todo[p])
  OBVIOUS
<1> HIDE DEF f
<1>4. CASE line[f[2]].doc
  <2>1. ASSUME NEW g \in Frames, f[1] = "redirect", Follows(f, g, line)
        PROVE  Where(g, fd'[p], line)
    <3>1. g[1] = "command" /\ g[2] = f[2]
      BY <2>1 DEF Follows
    <3> QED  BY <1>1, <1>2, <1>4, <3>1 DEF Where
  <2> QED  BY <1>1, <1>2, <1>3, <1>4, <2>1, ReturnsTidy
<1>5. CASE ~line[f[2]].doc
  BY <1>1, <1>2, <1>5, RefusesTidy
<1> QED  BY <1>4, <1>5

LEMMA EmptyIs == ASSUME NEW p, NEW l  PROVE Stack(p, <<>>, l)
<1> DEFINE s == <<>>
<1>1. s \in Seq(Frames) /\ Len(s) = 0 /\ s = <<>>
  OBVIOUS
<1> HIDE DEF s
<1>2. \A j \in 1 .. Len(s) : FALSE
  BY <1>1
<1>3. Stack(p, s, l)
  BY <1>1, <1>2 DEF Stack, Chain
<1> QED  BY <1>3 DEF s

LEMMA OpenFailsTidy == ASSUME Inv, Tidy, NEW p \in Process, OpenFails(p)  PROVE Tidy'
<1> DEFINE t == <<>>
<1>1. /\ Frame(p, "redirect") /\ line' = line /\ fd' = fd /\ Control
      /\ fd \in [Process -> Place] /\ todo' = [todo EXCEPT ![p] = t]
      /\ IF p = "shell" THEN phase' = "left" ELSE phase' = phase
  BY DEF OpenFails, Inv, Control
<1>2. Stack(p, t, line) /\ t = <<>>
  BY EmptyIs
<1> HIDE DEF t
<1>3. /\ todo[p] # <<>>
      /\ p = "shell" => todo["left"] = <<>> /\ todo["right"] = <<>>
  BY <1>1, FrameIs
<1> QED  BY <1>1, <1>2, <1>3, Moved

LEMMA ForkLeftTidy == ASSUME Inv, Tidy, ForkLeft  PROVE Tidy'
<1> DEFINE s == todo["shell"]
           t == Tail(s)
           c == todo'["left"]
<1>1. /\ Frame("shell", "forkleft") /\ "shell" \in Process /\ "left" \in Process /\ Control
  BY DEF ForkLeft, Inv, Process
<1>2. /\ s # <<>> /\ s[1][1] = "forkleft" /\ s[1] \in Frames
      /\ Belonging("shell", s[1], line) /\ line \in Line
      /\ Where(s[1], fd["shell"], line) /\ Rest("shell", s, t, line)
      /\ todo["left"] = <<>> /\ todo["right"] = <<>>
  BY <1>1, FrameIs
<1>3. /\ line' = line /\ phase' = phase
      /\ IF line[1].doc
         THEN /\ todo' = [todo EXCEPT !["shell"] = Tail(@), !["left"] = <<>> \o <<<<"exit", 0>>>>]
              /\ fd' = [fd EXCEPT !["left"] = fd["shell"]]
         ELSE /\ todo' = [todo EXCEPT !["shell"] = Tail(@), !["left"] =
                            (Calls(line[1], 1) \o <<<<"restore", 0>>>>) \o <<<<"exit", 0>>>>]
              /\ fd' = [fd EXCEPT !["left"] = "pipe"]
  BY DEF ForkLeft, Forked
<1>4. todo = [x \in Process |-> todo[x]] /\ fd \in [Process -> Place]
  BY DEF Inv, Control
<1>5. /\ todo'["shell"] = t /\ todo'["right"] = todo["right"]
      /\ fd'["shell"] = fd["shell"] /\ fd'["right"] = fd["right"]
      /\ IF line[1].doc THEN c = <<>> \o <<<<"exit", 0>>>>
         ELSE /\ c = (Calls(line[1], 1) \o <<<<"restore", 0>>>>) \o <<<<"exit", 0>>>>
              /\ fd'["left"] = "pipe"
  BY <1>3, <1>4 DEF Process
<1>6. Len(line) = 2
  BY <1>2 DEF Belonging
<1> HIDE DEF c, t
<1>7. Stack("left", c, line) /\ c # <<>> /\ Where(c[1], fd'["left"], line)
  <2>1. CASE line[1].doc
    <3>1. Stack("left", c, line) /\ c # <<>> /\ c[1][1] = "exit"
      BY <1>2, <1>5, <1>6, <2>1, ExitIs
    <3> QED  BY <3>1 DEF Where
  <2>2. CASE ~line[1].doc
    <3>1. /\ Stack("left", c, line) /\ c # <<>>
          /\ c[1][1] \in {"doc", "redirect"} /\ c[1][2] = 1
      BY <1>2, <1>5, <1>6, <2>2, LeftCallsIs
    <3>2. Belongs(line, 1, "stdout") = "pipe"
      BY <1>6 DEF Belongs
    <3> QED  BY <1>5, <2>2, <3>1, <3>2 DEF Where
  <2> QED  BY <2>1, <2>2
<1>8. /\ Stack("shell", t, line) /\ t # <<>> /\ t[1][1] = "forkright"
      /\ Where(t[1], fd["shell"], line)
  <2>1. /\ Stack("shell", t, line) /\ t # <<>> /\ Follows(s[1], t[1], line)
    BY <1>2 DEF Rest
  <2>2. t[1][1] = "forkright"
    BY <1>2, <2>1 DEF Follows
  <2> QED  BY <1>2, <2>1, <2>2 DEF Where
<1> HIDE DEF s
<1>9. Stacks'
  BY <1>3, <1>5, <1>7, <1>8 DEF Tidy, Stacks, Process, c
<1>10. Wheres'
  BY <1>2, <1>3, <1>5, <1>7, <1>8 DEF Wheres, Process, c
<1>11. Children' /\ Rests'
  BY <1>2, <1>5, <1>8 DEF Children, Rests
<1> QED  BY <1>9, <1>10, <1>11 DEF Tidy

LEMMA ForkRightTidy == ASSUME Inv, Tidy, ForkRight  PROVE Tidy'
<1> DEFINE s == todo["shell"]
           t == Tail(s)
           c == todo'["right"]
<1>1. /\ Frame("shell", "forkright") /\ "shell" \in Process /\ Control
  BY DEF ForkRight, Inv, Process
<1>2. /\ s # <<>> /\ s[1][1] = "forkright" /\ s[1] \in Frames
      /\ Belonging("shell", s[1], line) /\ line \in Line
      /\ Where(s[1], fd["shell"], line) /\ Rest("shell", s, t, line)
  BY <1>1, FrameIs
<1>3. /\ line' = line /\ phase' = phase /\ fd' = [fd EXCEPT !["right"] = fd["shell"]]
      /\ todo' = [todo EXCEPT !["shell"] = Tail(@), !["right"] =
                    (IF line[2].doc THEN <<>> ELSE Calls(line[2], 2)) \o <<<<"exit", 0>>>>]
  BY DEF ForkRight, Forked
<1>4. todo = [x \in Process |-> todo[x]] /\ fd \in [Process -> Place]
  BY DEF Inv, Control
<1>5. /\ todo'["shell"] = t /\ todo'["left"] = todo["left"]
      /\ fd'["shell"] = fd["shell"] /\ fd'["left"] = fd["left"] /\ fd'["right"] = fd["shell"]
      /\ c = (IF line[2].doc THEN <<>> ELSE Calls(line[2], 2)) \o <<<<"exit", 0>>>>
  BY <1>3, <1>4 DEF Process
<1>6. Len(line) = 2
  BY <1>2 DEF Belonging
<1> HIDE DEF c, t
<1>7. Stack("right", c, line) /\ c # <<>> /\ Where(c[1], fd'["right"], line)
  <2>1. CASE line[2].doc
    <3>1. Stack("right", c, line) /\ c # <<>> /\ c[1][1] = "exit"
      BY <1>2, <1>5, <1>6, <2>1, ExitIs
    <3> QED  BY <3>1 DEF Where
  <2>2. CASE ~line[2].doc
    <3>1. /\ Stack("right", c, line) /\ c # <<>>
          /\ c[1][1] \in {"doc", "redirect"} /\ c[1][2] = 2
      BY <1>2, <1>5, <1>6, <2>2, RightCallsIs
    <3>2. Belongs(line, 2, "stdout") = "out" /\ fd["shell"] = "out"
      BY <1>2, <2>2 DEF Belongs, Where
    <3> QED  BY <1>5, <2>2, <3>1, <3>2 DEF Where
  <2> QED  BY <2>1, <2>2
<1>8. /\ Stack("shell", t, line) /\ t # <<>> /\ t[1][1] = "wait"
      /\ Where(t[1], fd["shell"], line)
  <2>1. /\ Stack("shell", t, line) /\ t # <<>> /\ Follows(s[1], t[1], line)
    BY <1>2 DEF Rest
  <2>2. t[1][1] = "wait"
    BY <1>2, <2>1 DEF Follows
  <2> QED  BY <1>2, <2>1, <2>2 DEF Where
<1> HIDE DEF s
<1>9. Stacks'
  BY <1>3, <1>5, <1>7, <1>8 DEF Tidy, Stacks, Process, c
<1>10. Wheres'
  BY <1>3, <1>5, <1>7, <1>8 DEF Tidy, Wheres, Process, c
<1>11. Children' /\ Rests'
  BY <1>5, <1>8 DEF Children, Rests
<1> QED  BY <1>9, <1>10, <1>11 DEF Tidy

LEMMA RunsTidy ==
  ASSUME Inv, Tidy, NEW l \in Line, Runs(l), todo["shell"] = <<>>, phase # "left", fd' = fd
  PROVE  Tidy'
<1> DEFINE c == LineCalls(l)
<1>1. todo' = [todo EXCEPT !["shell"] = c] /\ line' = l
  BY DEF Runs
<1>2. Stack("shell", c, l) /\ c # <<>> /\ Starts(c[1], l)
  BY LineCallsIs
<1> HIDE DEF c
<1>3. todo["left"] = <<>> /\ todo["right"] = <<>> /\ fd["shell"] = "out"
  BY DEF Tidy, Children, Rests
<1>4. todo'["shell"] = c /\ todo'["left"] = <<>> /\ todo'["right"] = <<>>
  BY <1>1, <1>3 DEF Inv, Control, Process
<1>5. Where(c[1], "out", l)
  <2>1. ASSUME NEW f, Starts(f, l), f[1] \in {"doc", "redirect"}
        PROVE  Belongs(l, f[2], "stdout") = "out"
    BY <2>1 DEF Starts, Belongs
  <2> QED  BY <1>2, <2>1 DEF Where, Starts
<1>6. Stacks'
  BY <1>1, <1>2, <1>4, EmptyIs DEF Stacks, Process
<1>7. Wheres'
  BY <1>1, <1>3, <1>4, <1>5 DEF Wheres, Process
<1>8. Children' /\ Rests'
  BY <1>2, <1>4 DEF Children, Rests
<1> QED  BY <1>6, <1>7, <1>8 DEF Tidy

LEMMA TidyStep == Inv /\ Tidy /\ [Next]_vars => Tidy'
<1> SUFFICES ASSUME Inv, Tidy, [Next]_vars  PROVE Tidy'
  OBVIOUS
<1>1. ASSUME UNCHANGED <<todo, fd, line>>, phase # "left" \/ phase' = phase  PROVE Tidy'
  BY <1>1 DEF Tidy, Stacks, Wheres, Children, Rests
<1>2. CASE RcLine
  <2>1. Head(rc) \in Line
    BY <1>2 DEF RcLine, Inv, Control
  <2> QED  BY <1>2, <2>1, RunsTidy DEF RcLine
<1>3. CASE PrintBanner
  BY <1>1, <1>3 DEF PrintBanner
<1>4. CASE Prompt \/ Leaves
  BY <1>1, <1>4 DEF Prompt, Leaves, Flushes
<1>5. CASE Readline
  <2>1. PICK l \in Typed : Runs(l)
    BY <1>5 DEF Readline
  <2>2. l \in Line /\ todo["shell"] = <<>>
    BY <1>5, PrintingAssumption DEF Readline, Inv, Shown
  <2> QED  BY <1>5, <2>1, <2>2, RunsTidy DEF Readline
<1>6. CASE Doc
  BY <1>6, DocTidy
<1>7. CASE ToPipe \/ Wait
  BY <1>7, ToPipeTidy, WaitTidy
<1>8. CASE ForkLeft \/ ForkRight
  BY <1>8, ForkLeftTidy, ForkRightTidy
<1>9. ASSUME NEW p \in Process,
             Redirect(p) \/ RedirectRefused(p) \/ OpenFails(p) \/ Restore(p)
      PROVE  Tidy'
  BY <1>9, RedirectTidy, RedirectRefusedTidy, OpenFailsTidy, RestoreTidy
<1>10. ASSUME NEW p \in Process, Command(p)  PROVE Tidy'
  BY <1>10, SameTidy DEF Command
<1>11. ASSUME NEW p \in {"left", "right"}, ChildExit(p)  PROVE Tidy'
  <2>1. p \in Process
    BY DEF Process
  <2> QED  BY <1>11, <2>1, SameTidy DEF ChildExit
<1>12. CASE UNCHANGED vars
  BY <1>1, <1>12 DEF vars
<1> QED
  BY <1>2, <1>3, <1>4, <1>5, <1>6, <1>7, <1>8, <1>9, <1>10, <1>11, <1>12 DEF Next

(***************************************************************************)
(* How each process buffers: PrintedThere at a terminal.                   *)
(***************************************************************************)
Modes ==
  /\ phase \in {"prompt", "read"} => mode["shell"] # "undecided"
  /\ mode["shell"] = "undecided" => \A i \in DOMAIN printed : printed[i].phase # "prompt"
  /\ \A p \in Process :
       todo[p] # <<>> => mode["shell"] = "undecided" \/ mode[p] = mode["shell"]
  /\ \A p \in Process : mode[p] = "line" => buf[p] = <<>>

OnLine ==
  mode["shell"] = "line" =>
    \A i \in DOMAIN printed :
      printed[i].phase = "prompt" => OnlyAt(printed[i], Goes(printed[i]), reached)

LEMMA GoesIs == ASSUME NEW u \in Units  PROVE Goes(u) \in Place
BY DEF Goes, Units, Place

LEMMA StaysOnly ==
  ASSUME NEW r \in [Place -> Seq(Units)], NEW s \in Seq(Units), NEW at \in Place,
         NEW q, Gets(r, at, s, q), NEW v, Never(v, s), NEW place \in Place, OnlyAt(v, place, r)
  PROVE  OnlyAt(v, place, q)
<1>1. Moves(v, s, at, r, q)
  BY MovesIs
<1> QED  BY <1>1 DEF Moves

LEMMA OneOnly ==
  ASSUME NEW r \in [Place -> Seq(Units)], NEW at \in Place, NEW u \in Units,
         NEW q, Gets(r, at, <<u>>, q), NEW v
  PROVE  /\ v = u /\ Nowhere(u, r) => OnlyAt(v, at, q)
         /\ \A place \in Place : v # u /\ OnlyAt(v, place, r) => OnlyAt(v, place, q)
<1> DEFINE s == <<u>>
<1>1. s \in Seq(Units) /\ Once(u, s) /\ (v # u => Never(v, s)) /\ Gets(r, at, s, q)
  BY OnceOne
<1> HIDE DEF s
<1>2. Moves(v, s, at, r, q)
  BY <1>1, MovesIs
<1> QED  BY <1>1, <1>2 DEF Moves

LEMMA NewOnLine ==
  ASSUME Control, Output, OnLine, NEW p \in Process, NEW to \in Place,
         NEW u, u = Unit(p, to), printed' = Append(printed, u),
         NEW at \in Place, at = Goes(u), Gets(reached, at, <<u>>, reached')
  PROVE  mode["shell"] = "line" =>
           \A i \in DOMAIN printed' :
             printed'[i].phase = "prompt" => OnlyAt(printed'[i], Goes(printed'[i]), reached')
<1>1. u \in Units /\ Nowhere(u, reached) /\ Never(u, printed)
  BY UnitIs DEF Unit
<1>2. /\ printed \in Seq(Units) /\ reached \in [Place -> Seq(Units)]
      /\ \A v \in Units : Goes(v) \in Place
  BY GoesIs DEF Output
<1> SUFFICES ASSUME mode["shell"] = "line", NEW i \in DOMAIN printed',
                    printed'[i].phase = "prompt"
             PROVE  OnlyAt(printed'[i], Goes(printed'[i]), reached')
  OBVIOUS
<1> DEFINE v == printed'[i]
<1>3. v = u \/ (v # u /\ i \in DOMAIN printed /\ v = printed[i] /\ v \in Units)
  BY <1>1, <1>2 DEF Never
<1>4. v.phase = "prompt"
  OBVIOUS
<1> HIDE DEF v
<1>5. CASE v = u
  <2>1. OnlyAt(v, at, reached')
    BY <1>1, <1>2, <1>5, OneOnly
  <2> QED  BY <1>1, <1>5, <2>1 DEF v
<1>6. CASE v # u
  <2>1. OnlyAt(v, Goes(v), reached) /\ Goes(v) \in Place
    BY <1>2, <1>3, <1>4, <1>6 DEF OnLine
  <2>2. OnlyAt(v, Goes(v), reached')
    BY <1>1, <1>2, <1>6, <2>1, OneOnly
  <2> QED  BY <2>2 DEF v
<1> QED  BY <1>5, <1>6

LEMMA PrintsOnLine ==
  ASSUME Control, Output, Modes, OnLine, NEW p \in Process, NEW to \in Place,
         NEW at \in Place, Prints(p, at, to), at = Goes(Unit(p, to)), p = "shell" \/ todo[p] # <<>>,
         p = "shell" => todo["left"] = <<>> /\ todo["right"] = <<>>,
         \A x \in Process \ {p} : todo'[x] = todo[x],
         phase' = phase \/ p = "shell"
  PROVE  Modes' /\ OnLine'
<1> DEFINE u == Unit(p, to)
           m == mode'[p]
           one == <<u>>
<1>1. /\ printed' = Append(printed, u) /\ u.phase = phase /\ printed \in Seq(Units)
      /\ mode = [x \in Process |-> mode[x]] /\ buf \in [Process -> Seq(Units)]
      /\ u \in Units
  BY UnitIs DEF Prints, Unit, Output
<1>2. /\ \A x \in Process \ {p} : mode'[x] = mode[x]
      /\ m \in {"line", "full"} /\ (mode[p] # "undecided" => m = mode[p])
      /\ m = "line" => Reach(at, Append(buf[p], u)) /\ buf' = [buf EXCEPT ![p] = <<>>]
      /\ m = "full" \/ m = "line"
      /\ \A x \in Process \ {p} : buf'[x] = buf[x]
  <2> DEFINE k == IF mode[p] # "undecided" THEN mode[p]
                  ELSE IF at = "out" /\ terminal THEN "line" ELSE "full"
  <2>1. /\ mode' = [mode EXCEPT ![p] = k]
        /\ \/ /\ k = "line"
              /\ Reach(at, Append(buf[p], u)) /\ buf' = [buf EXCEPT ![p] = <<>>]
           \/ /\ k = "full" /\ Len(buf[p]) < Room
              /\ buf' = [buf EXCEPT ![p] = Append(@, u)]
           \/ /\ k = "full" /\ Len(buf[p]) >= Room
              /\ buf' = [buf EXCEPT ![p] = <<u>>]
    BY DEF Prints
  <2>2. mode[p] # "undecided" => k = mode[p]
    OBVIOUS
  <2> HIDE DEF k, u
  <2>3. m = k /\ \A x \in Process \ {p} : mode'[x] = mode[x]
    BY <1>1, <2>1
  <2>4. \A x \in Process \ {p} : buf'[x] = buf[x]
    BY <1>1, <2>1
  <2>5. m \in {"line", "full"}
    BY <2>1, <2>3
  <2>6. m = "line" => Reach(at, Append(buf[p], u)) /\ buf' = [buf EXCEPT ![p] = <<>>]
    BY <2>1, <2>3
  <2> QED  BY <2>2, <2>3, <2>4, <2>5, <2>6
<1> HIDE DEF u, m
<1>3. /\ phase \in {"prompt", "read"} => mode["shell"] # "undecided"
      /\ mode["shell"] = "undecided" => \A i \in DOMAIN printed : printed[i].phase # "prompt"
      /\ \A x \in Process :
           todo[x] # <<>> => mode["shell"] = "undecided" \/ mode[x] = mode["shell"]
      /\ \A x \in Process : mode[x] = "line" => buf[x] = <<>>
  BY DEF Modes
<1>4. \A i \in DOMAIN printed' : printed'[i] = u \/ (i \in DOMAIN printed /\ printed'[i] = printed[i])
  BY <1>1
<1>5. p = "shell" => mode'["shell"] = m
  BY DEF m
<1>6. p # "shell" => mode'["shell"] = mode["shell"] /\ "shell" \in Process
  BY <1>2 DEF Process
<1>7. Modes'
  <2>1. phase' \in {"prompt", "read"} => mode'["shell"] # "undecided"
    BY <1>2, <1>3, <1>5, <1>6
  <2>2. mode'["shell"] = "undecided" => \A i \in DOMAIN printed' : printed'[i].phase # "prompt"
    BY <1>1, <1>2, <1>3, <1>4, <1>5, <1>6
  <2>3. ASSUME NEW x \in Process, todo'[x] # <<>>
        PROVE  mode'["shell"] = "undecided" \/ mode'[x] = mode'["shell"]
    <3>1. CASE p = "shell"
      BY <2>3, <3>1 DEF Process
    <3>2. CASE p # "shell" /\ x = p
      BY <1>2, <1>3, <1>6, <3>2 DEF m
    <3>3. CASE p # "shell" /\ x # p
      BY <1>2, <1>3, <1>6, <2>3, <3>3
    <3> QED  BY <3>1, <3>2, <3>3
  <2>4. ASSUME NEW x \in Process, mode'[x] = "line"  PROVE buf'[x] = <<>>
    BY <1>1, <1>2, <1>3, <2>4 DEF m
  <2> QED  BY <2>1, <2>2, <2>3, <2>4 DEF Modes
<1>8. OnLine'
  <2> SUFFICES ASSUME mode'["shell"] = "line"
               PROVE  \A i \in DOMAIN printed' : printed'[i].phase = "prompt" =>
                        OnlyAt(printed'[i], Goes(printed'[i]), reached')
    BY DEF OnLine
  <2>1. CASE mode["shell"] = "undecided"
    BY <1>1, <1>3, <1>4, <2>1
  <2>2. CASE mode["shell"] # "undecided"
    <3>1. mode["shell"] = "line" /\ mode[p] = "line"
      BY <1>2, <1>3, <1>5, <1>6, <2>2
    <3>2. buf[p] = <<>> /\ m = "line"
      BY <1>2, <1>3, <3>1
    <3>3. Append(<<>>, u) = <<u>>
      OBVIOUS
    <3>4. Gets(reached, at, <<u>>, reached')
      BY <1>2, <3>2, <3>3 DEF Reach, Gets
    <3> QED  BY <1>1, <3>1, <3>4, NewOnLine DEF u
  <2> QED  BY <2>1, <2>2
<1> QED  BY <1>7, <1>8

LEMMA QuietOnLine ==
  ASSUME Modes, OnLine, UNCHANGED <<printed, reached, mode, buf>>,
         \A x \in Process \ {"shell"} : todo'[x] # <<>> => todo[x] # <<>>,
         phase' \in {"prompt", "read"} => mode["shell"] # "undecided"
  PROVE  Modes' /\ OnLine'
<1>1. Modes'
  BY DEF Modes
<1>2. OnLine'
  BY DEF OnLine
<1> QED  BY <1>1, <1>2

LEMMA ChildOnLine ==
  ASSUME Output, Modes, OnLine, NEW p \in {"left", "right"}, NEW s, NEW m,
         buf' = [buf EXCEPT ![p] = s], mode' = [mode EXCEPT ![p] = m],
         UNCHANGED <<printed, reached, phase>>,
         m = "line" => s = <<>>,
         todo'[p] # <<>> => m = mode["shell"],
         \A x \in Process \ {"shell", p} : todo'[x] = todo[x]
  PROVE  Modes' /\ OnLine'
<1>1. /\ mode = [x \in Process |-> mode[x]] /\ buf \in [Process -> Seq(Units)]
      /\ p \in Process /\ p # "shell" /\ "shell" \in Process
  BY DEF Output, Process
<1>2. /\ mode'[p] = m /\ buf'[p] = s /\ mode'["shell"] = mode["shell"]
      /\ \A x \in Process \ {p} : mode'[x] = mode[x] /\ buf'[x] = buf[x]
  BY <1>1
<1>3. \A x \in Process : mode'[x] = "line" => buf'[x] = <<>>
  BY <1>2 DEF Modes
<1>4. \A x \in Process :
        todo'[x] # <<>> => mode'["shell"] = "undecided" \/ mode'[x] = mode'["shell"]
  BY <1>2 DEF Modes
<1>5. Modes'
  BY <1>2, <1>3, <1>4 DEF Modes
<1>6. OnLine'
  BY <1>2 DEF OnLine
<1> QED  BY <1>5, <1>6

(* The shell's buffer comes out: at a terminal nothing is in it. *)
LEMMA FlushOnLine ==
  ASSUME Output, Modes, OnLine, NEW at \in Place, Reach(at, buf["shell"]),
         buf' = buf \/ buf' = [buf EXCEPT !["shell"] = <<>>],
         UNCHANGED <<printed, mode>>,
         \A x \in Process \ {"shell"} : todo'[x] # <<>> => todo[x] # <<>>,
         phase' \in {"prompt", "read"} => mode["shell"] # "undecided"
  PROVE  Modes' /\ OnLine'
<1> DEFINE b == buf["shell"]
<1>1. /\ buf \in [Process -> Seq(Units)] /\ "shell" \in Process /\ b \in Seq(Units)
      /\ reached \in [Place -> Seq(Units)]
  BY DEF Output, Process
<1>2. \A x \in Process : buf[x] = <<>> => buf'[x] = <<>>
  BY <1>1
<1>3. Modes'
  BY <1>2 DEF Modes
<1>4. Gets(reached, at, b, reached')
  BY DEF Reach, Gets
<1>5. ASSUME mode["shell"] = "line", NEW i \in DOMAIN printed, printed[i].phase = "prompt"
      PROVE  OnlyAt(printed[i], Goes(printed[i]), reached')
  <2> DEFINE v == printed[i]
  <2>1. OnlyAt(v, Goes(v), reached) /\ Goes(v) \in Place
    <3>1. v \in Units
      BY <1>5 DEF Output
    <3>2. Goes(v) \in Place
      BY <3>1, GoesIs
    <3> QED  BY <1>5, <3>2 DEF OnLine
  <2>2. b = <<>>
    BY <1>1, <1>5 DEF Modes
  <2> HIDE DEF v
  <2>3. Never(v, b)
    BY <2>2, NeverEmpty
  <2> HIDE DEF b
  <2>4. OnlyAt(v, Goes(v), reached')
    BY <1>1, <1>4, <2>1, <2>3, StaysOnly
  <2> QED  BY <2>4 DEF v
<1>6. OnLine'
  BY <1>5 DEF OnLine
<1> QED  BY <1>3, <1>6

LEMMA WritesOnLine ==
  ASSUME Control, Output, Modes, OnLine, NEW p \in Process, NEW to \in Place,
         WritesUnit(p, to), NEW at \in Place, fd[p] = at, at = Goes(Unit(p, to)),
         \A x \in Process : todo'[x] # <<>> => todo[x] # <<>>, phase' = phase
  PROVE  Modes' /\ OnLine'
<1> DEFINE u == Unit(p, to)
<1>1. /\ printed' = Append(printed, u) /\ Gets(reached, at, <<u>>, reached')
      /\ UNCHANGED <<mode, buf>> /\ u.phase = phase /\ printed \in Seq(Units) /\ u \in Units
  BY UnitIs DEF WritesUnit, Reach, Gets, Unit, Output
<1>2. u = Unit(p, to)
  OBVIOUS
<1> HIDE DEF u
<1>3. \A i \in DOMAIN printed' : printed'[i] = u \/ (i \in DOMAIN printed /\ printed'[i] = printed[i])
  BY <1>1
<1>4. Modes'
  BY <1>1, <1>3 DEF Modes
<1>5. OnLine'
  BY <1>1, <1>2, NewOnLine DEF OnLine
<1> QED  BY <1>4, <1>5

LEMMA EndsOnLine ==
  ASSUME Control, Output, Modes, OnLine, NEW p \in Process, NEW to \in Place,
         Ends(p, Unit(p, to)), fd[p] = to, to = Goes(Unit(p, to)), todo[p] # <<>>,
         \A x \in Process : todo'[x] # <<>> => todo[x] # <<>>,
         phase' = phase \/ phase' = "left"
  PROVE  Modes' /\ OnLine'
<1> DEFINE u == Unit(p, to)
<1>1. /\ printed' = Append(printed, u) /\ Reach(to, Append(buf[p], u))
      /\ buf' = [buf EXCEPT ![p] = <<>>] /\ mode' = mode
      /\ u.phase = phase /\ printed \in Seq(Units) /\ u \in Units
      /\ buf \in [Process -> Seq(Units)]
  BY UnitIs DEF Ends, Unit, Output
<1>2. u = Unit(p, to)
  OBVIOUS
<1> HIDE DEF u
<1>3. \A i \in DOMAIN printed' : printed'[i] = u \/ (i \in DOMAIN printed /\ printed'[i] = printed[i])
  BY <1>1
<1>4. \A x \in Process : buf[x] = <<>> => buf'[x] = <<>>
  BY <1>1
<1>5. Modes'
  BY <1>1, <1>3, <1>4 DEF Modes
<1>6. OnLine'
  <2> SUFFICES ASSUME mode["shell"] = "line"  PROVE OnLine'
    BY <1>1 DEF OnLine
  <2>1. buf[p] = <<>>
    BY DEF Modes
  <2>2. Append(<<>>, u) = <<u>>
    OBVIOUS
  <2>3. Gets(reached, to, <<u>>, reached')
    BY <1>1, <2>1, <2>2 DEF Reach, Gets
  <2> QED  BY <1>1, <1>2, <2>3, NewOnLine DEF OnLine
<1> QED  BY <1>5, <1>6

LEMMA LeavesBusy ==
  ASSUME Control, NEW p \in Process, Frame(p, "command") \/ Frame(p, "redirect") \/ Frame(p, "doc"),
         Returns(p) \/ Refuses(p) \/ todo' = [todo EXCEPT ![p] = <<>>]
  PROVE  /\ todo[p] # <<>> /\ \A x \in Process \ {p} : todo'[x] = todo[x]
         /\ \A x \in Process : todo'[x] # <<>> => todo[x] # <<>>
<1>1. todo[p] # <<>>
  BY DEF Frame
<1> QED  BY <1>1, LeavesFrame

LEMMA CommandAt ==
  ASSUME Inv, Tidy, NEW p \in Process, Command(p)
  PROVE  LET i == Head(todo[p])[2]
             to == Belongs(line, i, line[i].to)
         IN  /\ to \in Place /\ fd[p] \in Place /\ fd[p] = Goes(Unit(p, to))
             /\ to = "out" => fd[p] = "out"
             /\ Prints(p, fd[p], to) \/ WritesUnit(p, to)
<1> DEFINE i == Head(todo[p])[2]
           to == Belongs(line, i, line[i].to)
           u == Unit(p, to)
<1>1. Frame(p, "command") /\ Control
  BY DEF Command, Inv
<1>2. Head(todo[p]) = todo[p][1] /\ Where(todo[p][1], fd[p], line) /\ todo[p][1][1] = "command"
  BY <1>1, FrameIs
<1>3. \/ line[i].to \in {"stdout", "file"} /\ fd[p] = to
      \/ line[i].to = "noname" /\ line[i].doc /\ fd[p] = "out"
  BY <1>2 DEF Where
<1>4. Prints(p, fd[p], to) \/ WritesUnit(p, to)
  BY DEF Command
<1>5. to \in Place /\ fd[p] \in Place
  BY <1>1, BelongsIs DEF Control
<1>6. /\ line[i].to = "noname" => to \in {"out", "pipe"}
      /\ to = "pipe" => i = 1
  BY DEF Belongs
<1>7. u.to = to /\ u.line = line
  BY DEF Unit
<1> HIDE DEF i, to, u
<1>8. fd[p] = Goes(u) /\ (to = "out" => fd[p] = "out")
  BY <1>3, <1>6, <1>7 DEF Goes
<1> QED  BY <1>4, <1>5, <1>8 DEF i, to, u

LEMMA OpenFailsAt ==
  ASSUME Inv, Tidy, NEW p \in Process, OpenFails(p)
  PROVE  LET to == Belongs(line, Head(todo[p])[2], "stdout")
         IN  /\ to \in Place /\ fd[p] = to /\ to = Goes(Unit(p, to))
             /\ Ends(p, Unit(p, to))
<1> DEFINE to == Belongs(line, Head(todo[p])[2], "stdout")
<1>1. Frame(p, "redirect") /\ Control
  BY DEF OpenFails, Inv
<1>2. Head(todo[p]) = todo[p][1] /\ Where(todo[p][1], fd[p], line) /\ todo[p][1][1] = "redirect"
  BY <1>1, FrameIs
<1>3. fd[p] = to
  BY <1>2 DEF Where
<1>4. to \in Place
  BY BelongsIs
<1>5. Ends(p, Unit(p, to))
  BY DEF OpenFails, Ends
<1>6. line[Head(todo[p])[2]].to = "noopen"
  BY DEF OpenFails
<1>7. to = "pipe" => line[1].to = "noopen"
  BY <1>6 DEF Belongs
<1>8. to = Goes(Unit(p, to))
  BY <1>7 DEF Goes, Unit
<1> QED  BY <1>3, <1>4, <1>5, <1>8

LEMMA OnLineStep == Inv /\ Tidy /\ Modes /\ OnLine /\ [Next]_vars => Modes' /\ OnLine'
<1> SUFFICES ASSUME Inv, Tidy, Modes, OnLine, [Next]_vars  PROVE Modes' /\ OnLine'
  OBVIOUS
<1>0. /\ Control /\ Output /\ "shell" \in Process /\ "left" \in Process /\ "right" \in Process
      /\ todo = [x \in Process |-> todo[x]] /\ mode = [x \in Process |-> mode[x]]
      /\ fd \in [Process -> Place] /\ buf \in [Process -> Seq(Units)]
  BY DEF Inv, Control, Output, Process
<1>1. CASE RcLine \/ Readline
  <2>1. \A x \in Process \ {"shell"} : todo'[x] = todo[x]
    BY <1>0, <1>1 DEF RcLine, Readline, Runs
  <2>2. UNCHANGED <<printed, reached, mode, buf>>
    BY <1>1 DEF RcLine, Readline
  <2>3. phase' \in {"prompt", "read"} => mode["shell"] # "undecided"
    BY <1>1 DEF RcLine, Readline, Modes
  <2> QED  BY <2>1, <2>2, <2>3, QuietOnLine
<1>2. CASE PrintBanner
  <2>1. /\ Prints("shell", fd["shell"], "out") /\ todo' = todo /\ "out" \in Place
        /\ phase = "rc" /\ todo["shell"] = <<>>
    BY <1>2 DEF PrintBanner, Place
  <2>2. fd["shell"] = "out" /\ todo["left"] = <<>> /\ todo["right"] = <<>>
    BY <2>1 DEF Tidy, Rests, Children
  <2>3. Prints("shell", "out", "out") /\ Goes(Unit("shell", "out")) = "out"
    BY <2>1, <2>2 DEF Goes, Unit
  <2> QED  BY <1>0, <2>1, <2>2, <2>3, PrintsOnLine
<1>3. CASE Prompt \/ Leaves
  <2>1. /\ Reach(fd["shell"], buf["shell"]) /\ buf' = [buf EXCEPT !["shell"] = <<>>]
        /\ UNCHANGED <<printed, mode, todo>> /\ fd["shell"] \in Place
    BY <1>0, <1>3 DEF Prompt, Leaves, Flushes
  <2>2. phase' \in {"prompt", "read"} => mode["shell"] # "undecided"
    BY <1>3 DEF Prompt, Leaves, Flushes, Modes
  <2> QED  BY <1>0, <2>1, <2>2, FlushOnLine
<1>4. CASE Doc
  <2>1. /\ Frame("shell", "doc") /\ UNCHANGED <<phase, mode, buf, printed>>
        /\ Returns("shell") \/ Refuses("shell")
        /\ Reach("out", buf["shell"]) \/ UNCHANGED reached
    BY <1>4 DEF Doc
  <2>2. \A x \in Process : todo'[x] # <<>> => todo[x] # <<>>
    BY <1>0, <2>1, LeavesBusy
  <2>3. phase' \in {"prompt", "read"} => mode["shell"] # "undecided"
    BY <2>1 DEF Modes
  <2>4. CASE Reach("out", buf["shell"])
    <3>1. "out" \in Place
      BY DEF Place
    <3> QED  BY <1>0, <2>1, <2>2, <2>3, <2>4, <3>1, FlushOnLine
  <2>5. CASE UNCHANGED reached
    BY <2>1, <2>2, <2>3, <2>5, QuietOnLine
  <2> QED  BY <2>1, <2>4, <2>5
<1>5. CASE ToPipe \/ Wait
  <2>1. /\ Returns("shell") /\ UNCHANGED <<printed, reached, mode, buf, phase>>
    BY <1>5 DEF ToPipe, Wait
  <2>2. \A x \in Process \ {"shell"} : todo'[x] = todo[x]
    BY <1>0, <2>1, LeavesFrame
  <2>3. phase' \in {"prompt", "read"} => mode["shell"] # "undecided"
    BY <2>1 DEF Modes
  <2> QED  BY <2>1, <2>2, <2>3, QuietOnLine
<1>6. ASSUME NEW p \in {"left", "right"}, NEW calls, NEW at, Forked(p, calls, at)
      PROVE  Modes' /\ OnLine'
  <2> DEFINE s == buf["shell"]
             m == mode["shell"]
  <2>1. /\ buf' = [buf EXCEPT ![p] = s] /\ mode' = [mode EXCEPT ![p] = m]
        /\ UNCHANGED <<printed, reached, phase>>
    BY <1>6 DEF Forked
  <2>2. \A x \in Process \ {"shell", p} : todo'[x] = todo[x]
    BY <1>0, <1>6 DEF Forked
  <2>3. m = "line" => s = <<>>
    BY <1>0 DEF Modes
  <2> HIDE DEF s
  <2>4. m = mode["shell"]
    OBVIOUS
  <2> HIDE DEF m
  <2> QED  BY <1>0, <2>1, <2>2, <2>3, <2>4, ChildOnLine
<1>7. CASE ForkLeft \/ ForkRight
  BY <1>6, <1>7 DEF ForkLeft, ForkRight
<1>8. ASSUME NEW p \in Process, Redirect(p) \/ Restore(p)  PROVE Modes' /\ OnLine'
  <2>1. /\ Returns(p) /\ todo[p] # <<>> /\ UNCHANGED <<printed, reached, mode, buf, phase>>
    BY <1>8 DEF Redirect, Restore, Frame
  <2>2. \A x \in Process : todo'[x] # <<>> => todo[x] # <<>>
    BY <1>0, <2>1, LeavesFrame
  <2>3. phase' \in {"prompt", "read"} => mode["shell"] # "undecided"
    BY <2>1 DEF Modes
  <2> QED  BY <2>1, <2>2, <2>3, QuietOnLine
<1>9. ASSUME NEW p \in Process, RedirectRefused(p)  PROVE Modes' /\ OnLine'
  <2>1. /\ Frame(p, "redirect") /\ (Returns(p) \/ Refuses(p)) /\ phase' = phase
        /\ Prints(p, "out", "out") /\ "out" \in Place /\ Goes(Unit(p, "out")) = "out"
    BY <1>9 DEF RedirectRefused, GivesUp, Place, Goes, Unit
  <2>2. todo[p] # <<>> /\ \A x \in Process \ {p} : todo'[x] = todo[x]
    BY <1>0, <2>1, LeavesBusy
  <2>3. p = "shell" => todo["left"] = <<>> /\ todo["right"] = <<>>
    BY <1>0, <2>1, Alone
  <2> QED  BY <1>0, <2>1, <2>2, <2>3, PrintsOnLine
<1>10. ASSUME NEW p \in Process, OpenFails(p)  PROVE Modes' /\ OnLine'
  <2> DEFINE to == Belongs(line, Head(todo[p])[2], "stdout")
  <2>1. to \in Place /\ fd[p] = to /\ to = Goes(Unit(p, to)) /\ Ends(p, Unit(p, to))
    BY <1>10, OpenFailsAt
  <2>2. /\ Frame(p, "redirect") /\ todo' = [todo EXCEPT ![p] = <<>>]
        /\ phase' = phase \/ phase' = "left"
    BY <1>10 DEF OpenFails
  <2>3. todo[p] # <<>> /\ \A x \in Process : todo'[x] # <<>> => todo[x] # <<>>
    BY <1>0, <2>2, LeavesBusy
  <2> HIDE DEF to
  <2> QED  BY <1>0, <2>1, <2>2, <2>3, EndsOnLine
<1>11. ASSUME NEW p \in Process, Command(p)  PROVE Modes' /\ OnLine'
  <2> DEFINE i == Head(todo[p])[2]
             to == Belongs(line, i, line[i].to)
             at == fd[p]
  <2>1. /\ to \in Place /\ at \in Place /\ fd[p] = at /\ at = Goes(Unit(p, to))
        /\ Prints(p, at, to) \/ WritesUnit(p, to)
    BY <1>11, CommandAt
  <2>2. Frame(p, "command") /\ Returns(p) /\ phase' = phase
    BY <1>11 DEF Command
  <2>3. /\ todo[p] # <<>> /\ \A x \in Process : todo'[x] # <<>> => todo[x] # <<>>
        /\ \A x \in Process \ {p} : todo'[x] = todo[x]
    BY <1>0, <2>2, LeavesBusy
  <2>4. p = "shell" => todo["left"] = <<>> /\ todo["right"] = <<>>
    BY <1>0, <2>2, Alone
  <2> HIDE DEF to, at
  <2>5. CASE Prints(p, at, to)
    BY <1>0, <2>1, <2>2, <2>3, <2>4, <2>5, PrintsOnLine
  <2>6. CASE WritesUnit(p, to)
    BY <1>0, <2>1, <2>2, <2>3, <2>6, WritesOnLine
  <2> QED  BY <2>1, <2>5, <2>6
<1>12. ASSUME NEW p \in {"left", "right"}, ChildExit(p)  PROVE Modes' /\ OnLine'
  <2> DEFINE none == <<>>
             m == mode[p]
  <2>1. /\ buf' = [buf EXCEPT ![p] = none] /\ Returns(p) /\ p \in Process
        /\ Frame(p, "exit") /\ UNCHANGED <<printed, reached, phase, mode>>
    BY <1>12 DEF ChildExit, Process
  <2>2. mode' = [mode EXCEPT ![p] = m]
    BY <1>0, <2>1
  <2>3. \A x \in Process \ {p} : todo'[x] = todo[x]
    BY <1>0, <2>1, LeavesFrame
  <2>4. todo'[p] = <<>>
    <3> DEFINE s == todo[p]
    <3>1. s # <<>> /\ s[1][1] = "exit" /\ Rest(p, s, Tail(s), line)
      BY <1>0, <2>1, FrameIs
    <3>2. Tail(s) = <<>>
      BY <3>1 DEF Rest
    <3> QED  BY <1>0, <2>1, <3>2 DEF Returns
  <2>5. m = "line" => none = <<>>
    OBVIOUS
  <2> HIDE DEF none, m
  <2> QED  BY <1>0, <2>1, <2>2, <2>3, <2>4, <2>5, ChildOnLine
<1>13. CASE UNCHANGED vars
  BY <1>13 DEF vars, Modes, OnLine
<1> QED
  BY <1>1, <1>2, <1>3, <1>4, <1>5, <1>7, <1>8, <1>9, <1>10, <1>11, <1>12, <1>13 DEF Next

(***************************************************************************)
(* A script's output: PrintedThere, its second part.  What has not come    *)
(* out yet is in the shell's buffer, and the shell has no call left that   *)
(* moves its descriptor away from the standard output, or forgets it.      *)
(***************************************************************************)
Comes(u) ==
  /\ u.phase = "prompt" /\ u.by = "shell" /\ u.to = "out"
  /\ \E i \in DOMAIN u.line : ~u.line[i].doc

Calm(s, at) ==
  \A j \in 1 .. Len(s) : /\ s[j][1] \notin {"pipe", "doc", "redirect"}
                         /\ s[j][1] = "command" => at = "out"
Quiet == phase = "prompt" /\ Calm(todo["shell"], fd["shell"])
Awaited(u) == ~Never(u, buf["shell"]) /\ Quiet

Pending ==
  \A i \in DOMAIN printed :
    Comes(printed[i]) => ~Never(printed[i], reached["out"]) \/ Awaited(printed[i])

Grows == \A v : ~Never(v, reached["out"]) => ~Never(v, reached'["out"])

LEMMA ReachGrows ==
  ASSUME Output, NEW at \in Place, NEW s \in Seq(Units), Reach(at, s)
  PROVE  Grows /\ \A v : ~Never(v, s) => ~Never(v, reached'[at])
<1>1. Gets(reached, at, s, reached') /\ reached \in [Place -> Seq(Units)] /\ "out" \in Place
  BY DEF Reach, Gets, Output, Place
<1>2. \A v : Moves(v, s, at, reached, reached')
  BY <1>1, MovesIs
<1> QED  BY <1>1, <1>2 DEF Moves, Grows

LEMMA InAppend ==
  ASSUME NEW s \in Seq(Units), NEW u \in Units, NEW v
  PROVE  ~Never(v, s) \/ v = u => ~Never(v, Append(s, u))
<1> DEFINE o == <<u>>
           t == s \o o
<1>1. o \in Seq(Units) /\ Once(u, o) /\ Append(s, u) = t
  BY OnceOne
<1>2. ~Never(u, o)
  BY <1>1 DEF Once, Never
<1> HIDE DEF o
<1>3. Never(v, t) <=> Never(v, s) /\ Never(v, o)
  BY <1>1, NeverConcat
<1> HIDE DEF t
<1> QED  BY <1>1, <1>2, <1>3

LEMMA PendingMore ==
  ASSUME Output, Pending, Grows, NEW u,
         \/ printed' = printed
         \/ /\ printed' = Append(printed, u) /\ u \in Units
            /\ Comes(u) => ~Never(u, reached'["out"]) \/ (~Never(u, buf'["shell"]) /\ Quiet'),
         \A v : Awaited(v) => ~Never(v, reached'["out"]) \/ (~Never(v, buf'["shell"]) /\ Quiet')
  PROVE  Pending'
<1> SUFFICES ASSUME NEW i \in DOMAIN printed', Comes(printed'[i])
             PROVE  ~Never(printed'[i], reached'["out"])
                      \/ (~Never(printed'[i], buf'["shell"]) /\ Quiet')
  BY DEF Pending, Comes, Awaited
<1>1. printed \in Seq(Units)
  BY DEF Output
<1>2. CASE i \in DOMAIN printed /\ printed'[i] = printed[i]
  BY <1>2 DEF Pending, Grows
<1>3. CASE printed' = Append(printed, u) /\ printed'[i] = u
  <2>1. printed' # printed
    BY <1>1, <1>3
  <2> QED  BY <1>3, <2>1
<1> QED  BY <1>1, <1>2, <1>3

LEMMA PrintsGrows ==
  ASSUME Control, Output, NEW p \in Process, NEW at \in Place, NEW to \in Place,
         Prints(p, at, to), NEW u, u = Unit(p, to)
  PROVE  /\ Grows /\ printed' = Append(printed, u) /\ u \in Units
         /\ p # "shell" => buf'["shell"] = buf["shell"]
         /\ p = "shell" => \A v : ~Never(v, buf["shell"]) \/ v = u =>
                             ~Never(v, buf'["shell"]) \/ ~Never(v, reached'[at])
<1> DEFINE b == buf[p]
<1>1. /\ printed' = Append(printed, u) /\ u \in Units /\ buf \in [Process -> Seq(Units)]
      /\ b \in Seq(Units) /\ "shell" \in Process /\ Append(b, u) \in Seq(Units)
  BY UnitIs DEF Prints, Output, Process
<1>2. \/ Reach(at, Append(b, u)) /\ buf' = [buf EXCEPT ![p] = <<>>]
      \/ buf' = [buf EXCEPT ![p] = Append(@, u)] /\ UNCHANGED reached
      \/ Reach(at, b) /\ buf' = [buf EXCEPT ![p] = <<u>>]
  BY DEF Prints
<1>3. p # "shell" => buf'["shell"] = buf["shell"]
  BY <1>1, <1>2
<1>4. p = "shell" => b = buf["shell"]
  OBVIOUS
<1>5. \A v : ~Never(v, b) \/ v = u => ~Never(v, Append(b, u))
  BY <1>1, InAppend
<1>6. CASE Reach(at, Append(b, u))
  <2> DEFINE s == Append(b, u)
  <2>1. s \in Seq(Units) /\ Reach(at, s) /\ \A v : ~Never(v, b) \/ v = u => ~Never(v, s)
    BY <1>1, <1>5, <1>6
  <2> HIDE DEF s
  <2>2. Grows /\ \A v : ~Never(v, s) => ~Never(v, reached'[at])
    BY <2>1, ReachGrows
  <2> QED  BY <1>1, <1>3, <1>4, <2>1, <2>2
<1>7. CASE buf' = [buf EXCEPT ![p] = Append(@, u)] /\ UNCHANGED reached
  <2>1. Grows
    BY <1>7 DEF Grows
  <2>2. buf'[p] = Append(b, u)
    BY <1>1, <1>7
  <2> QED  BY <1>1, <1>3, <1>4, <1>5, <2>1, <2>2
<1>8. CASE Reach(at, b) /\ buf' = [buf EXCEPT ![p] = <<u>>]
  <2>1. Grows /\ \A v : ~Never(v, b) => ~Never(v, reached'[at])
    BY <1>1, <1>8, ReachGrows
  <2>2. buf'[p] = <<u>> /\ Once(u, <<u>>)
    BY <1>1, <1>8, OnceOne
  <2>3. ~Never(u, buf'[p])
    BY <2>2 DEF Once, Never
  <2> QED  BY <1>1, <1>3, <1>4, <2>1, <2>3
<1> QED  BY <1>2, <1>6, <1>7, <1>8

LEMMA WritesGrows ==
  ASSUME Control, Output, NEW p \in Process, NEW to \in Place, WritesUnit(p, to),
         NEW u, u = Unit(p, to)
  PROVE  /\ Grows /\ printed' = Append(printed, u) /\ u \in Units /\ buf' = buf
         /\ ~Never(u, reached'[fd[p]])
<1> DEFINE o == <<u>>
<1>0. u \in Units
  BY UnitIs
<1>1. printed' = Append(printed, u) /\ buf' = buf /\ Reach(fd[p], o) /\ fd[p] \in Place
  BY DEF WritesUnit, Control
<1>2. o \in Seq(Units) /\ ~Never(u, o)
  <2>1. o \in Seq(Units) /\ Once(u, o)
    BY <1>0, OnceOne
  <2> QED  BY <2>1 DEF Once, Never
<1> HIDE DEF o
<1>3. Grows /\ ~Never(u, reached'[fd[p]])
  BY <1>1, <1>2, ReachGrows
<1> QED  BY <1>0, <1>1, <1>3

LEMMA EndsGrows ==
  ASSUME Control, Output, NEW p \in Process, NEW to \in Place, Ends(p, Unit(p, to)),
         NEW u, u = Unit(p, to)
  PROVE  /\ Grows /\ printed' = Append(printed, u) /\ u \in Units
         /\ p # "shell" => buf'["shell"] = buf["shell"]
         /\ ~Never(u, reached'[fd[p]])
<1> DEFINE b == buf[p]
           s == Append(b, u)
<1>1. /\ printed' = Append(printed, u) /\ u \in Units /\ Reach(fd[p], s)
      /\ b \in Seq(Units) /\ s \in Seq(Units) /\ fd[p] \in Place
      /\ buf' = [buf EXCEPT ![p] = <<>>] /\ buf \in [Process -> Seq(Units)]
  BY UnitIs DEF Ends, Control, Output
<1>2. ~Never(u, s)
  BY <1>1, InAppend
<1> HIDE DEF s
<1>3. Grows /\ ~Never(u, reached'[fd[p]])
  BY <1>1, <1>2, ReachGrows
<1> QED  BY <1>1, <1>3 DEF Process

(* The calls that are left. *)
LEMMA CalmRest ==
  ASSUME NEW p, NEW s, NEW t, NEW l, Rest(p, s, t, l), NEW at, Calm(s, at)
  PROVE  Calm(t, at) /\ Calm(t, "out")
BY DEF Rest, Calm

LEMMA NotCalm ==
  ASSUME NEW p, NEW l, NEW s, Stack(p, s, l), s # <<>>, NEW at, Calm(s, at)
  PROVE  s[1][1] \notin {"pipe", "doc", "redirect"} /\ (s[1][1] = "command" => at = "out")
<1>1. Len(s) \in Nat \ {0}
  BY HeadIs
<1>2. 1 \in 1 .. Len(s)
  BY <1>1
<1> QED  BY <1>2 DEF Calm

(* After a command of a side that belongs on the standard output. *)
LEMMA CalmCommand ==
  ASSUME NEW l \in Line, NEW s, NEW t, Rest("shell", s, t, l), s[1] \in Frames,
         Belonging("shell", s[1], l), s[1][1] = "command", ~(s[1][2] = 1 /\ Len(l) = 2)
  PROVE  Calm(t, "out")
<1> DEFINE f == s[1]
<1>1. f[1] = "command" /\ f[2] \in {1, 2} /\ ~(f[2] = 1 /\ Len(l) = 2) /\ Len(l) \in {1, 2}
  BY LineIs DEF Frames, SideOp, PipeOp
<1>2. ASSUME NEW j \in 1 .. Len(t)  PROVE t[j][1] \notin {"pipe", "doc", "redirect"}
  <2> DEFINE g == t[j]
  <2>1. g \in Frames /\ Belonging("shell", g, l) /\ Rank(f) <= Rank(g)
    BY DEF Rest
  <2> HIDE DEF f, g
  <2>2. g[2] # 0 => g[2] \in 1 .. Len(l)
    BY <2>1 DEF Belonging
  <2>3. CASE f[2] = 1
    <3>1. Len(l) = 1 /\ Rank(f) = 4
      BY <1>1, <2>3 DEF Rank
    <3>2. ASSUME g[1] \in {"doc", "redirect"}  PROVE g[2] = 1
      BY <2>1, <2>2, <3>1, <3>2 DEF Frames, SideOp, PipeOp
    <3> QED  BY <2>1, <3>1, <3>2 DEF Rank, g
  <2>4. CASE f[2] = 2
    <3>1. Rank(f) = 8
      BY <1>1, <2>4 DEF Rank
    <3> QED  BY <2>1, <3>1 DEF Rank, g
  <2> QED  BY <1>1, <2>3, <2>4
<1> QED  BY <1>2 DEF Calm

(* After a side was refused, unless both sides have here-documents. *)
LEMMA CalmDropping ==
  ASSUME NEW l \in Line, NEW s, NEW t, NEW i, Dropping("shell", s, t, i, l),
         NEW k \in DOMAIN l, ~l[k].doc
  PROVE  Calm(t, "out")
<1> DEFINE f == t[1]
<1>1. /\ f \in Frames /\ Belonging("shell", f, l)
      /\ Len(l) \in {1, 2} /\ DOMAIN l = 1 .. Len(l)
      /\ IF i = 1 /\ Len(l) = 2 THEN f[1] = "restore"
         ELSE f[1] \in {"forkleft", "reset", "exit"}
  BY LineIs DEF Dropping
<1>2. ASSUME NEW j \in 1 .. Len(t)  PROVE t[j][1] \notin {"pipe", "doc", "redirect"}
  <2> DEFINE g == t[j]
  <2>1. g \in Frames /\ Belonging("shell", g, l) /\ Rank(f) <= Rank(g)
    BY DEF Dropping
  <2> HIDE DEF f, g
  <2>2. CASE f[1] \in {"forkleft", "reset", "exit"}
    <3>1. Rank(f) >= 9
      BY <2>2 DEF Rank
    <3> QED  BY <2>1, <3>1 DEF Rank, g
  <2>3. CASE f[1] = "restore"
    <3>1. Rank(f) = 5 /\ Len(l) = 2 /\ l[1].doc
      BY <1>1, <2>3 DEF Rank, Belonging
    <3>2. ~l[2].doc
      BY <1>1, <3>1
    <3>3. ASSUME g[1] \in {"doc", "redirect"}  PROVE g[2] = 1
      <4>1. g[2] \in {1, 2}
        BY <2>1, <3>3 DEF Frames, SideOp, PipeOp
      <4> QED  BY <2>1, <3>1, <3>2, <4>1 DEF Belonging
    <3> QED  BY <2>1, <3>1, <3>3 DEF Rank, g
  <2> QED  BY <1>1, <2>2, <2>3
<1> QED  BY <1>2 DEF Calm

(* Before the command of a side whose redirection was refused.            *)
LEMMA CalmRedirect ==
  ASSUME NEW l \in Line, NEW s, NEW t, Rest("shell", s, t, l), s[1] \in Frames,
         s[1][1] = "redirect", l[s[1][2]].doc, NEW k \in DOMAIN l, ~l[k].doc
  PROVE  Calm(t, "out")
<1> DEFINE f == s[1]
           c == t[1]
<1>1. Len(l) \in {1, 2} /\ DOMAIN l = 1 .. Len(l) /\ f[2] \in {1, 2} /\ f[2] # k
  BY LineIs DEF Frames, SideOp, PipeOp
<1>2. /\ Stack("shell", t, l) /\ t # <<>> /\ Follows(f, c, l)
      /\ c \in Frames /\ Belonging("shell", c, l)
  BY DEF Rest
<1>3. c[1] = "command" /\ c[2] = f[2]
  BY <1>2 DEF Follows
<1>4. Len(t) \in Nat \ {0} /\ Chain("shell", t, l)
  BY <1>2, HeadIs
<1>5. Rank(c) = IF f[2] = 1 THEN 4 ELSE 8
  BY <1>3 DEF Rank
<1>6. Len(l) = 2 /\ k \in {1, 2}
  <2>1. f[2] \in 1 .. Len(l)
    BY <1>1, <1>2, <1>3 DEF Belonging
  <2> QED  BY <1>1, <2>1
<1>7. ASSUME NEW j \in 1 .. Len(t)  PROVE t[j][1] \notin {"pipe", "doc", "redirect"}
  <2> DEFINE g == t[j]
  <2>1. 1 \in 1 .. Len(t) /\ 1 <= j
    BY <1>4
  <2>2. g \in Frames /\ Belonging("shell", g, l) /\ Rank(c) <= Rank(g)
    BY <1>4, <2>1 DEF Rest, Chain
  <2> HIDE DEF f, c, g
  <2>3. CASE f[2] = 2
    <3>1. Rank(c) = 8
      BY <1>5, <2>3
    <3> QED  BY <2>2, <3>1 DEF Rank, g
  <2>4. CASE f[2] = 1
    <3>1. Rank(c) = 4 /\ ~l[2].doc
      BY <1>1, <1>5, <1>6, <2>4
    <3>2. ASSUME g[1] \in {"doc", "redirect"}  PROVE g[2] = 1
      <4>1. g[2] \in {1, 2}
        BY <2>2, <3>2 DEF Frames, SideOp, PipeOp
      <4> QED  BY <1>6, <2>2, <3>1, <4>1 DEF Belonging
    <3> QED  BY <2>2, <3>1, <3>2 DEF Rank, g
  <2> QED  BY <1>1, <2>3, <2>4
<1> QED  BY <1>7 DEF Calm

(* The shell has a call to make that it may be quiet only after.           *)
LEMMA Loud ==
  ASSUME Control, Tidy, NEW f \in {"pipe", "doc", "redirect"}, Frame("shell", f)
  PROVE  ~Quiet
<1> DEFINE s == todo["shell"]
<1>1. "shell" \in Process /\ s # <<>> /\ Stack("shell", s, line)
  BY DEF Tidy, Stacks, Frame, Process
<1>2. Head(s) = s[1]
  BY <1>1, HeadIs
<1>3. s[1][1] = f
  BY <1>2 DEF Frame
<1> QED  BY <1>1, <1>3, NotCalm DEF Quiet

(* A call that returns, and prints nothing. *)
LEMMA QuietReturns ==
  ASSUME Control, Tidy, Frame("shell", "restore") \/ Frame("shell", "reset")
                          \/ Frame("shell", "wait") \/ Frame("shell", "forkleft")
                          \/ Frame("shell", "forkright") \/ Frame("shell", "command"),
         todo'["shell"] = Tail(todo["shell"]), phase' = phase,
         fd'["shell"] = fd["shell"] \/ fd'["shell"] = "out", Quiet
  PROVE  Quiet'
<1> DEFINE s == todo["shell"]
           t == Tail(s)
<1>1. "shell" \in Process /\ s # <<>> /\ Stack("shell", s, line)
  BY DEF Tidy, Stacks, Frame, Process
<1>2. Rest("shell", s, t, line)
  BY <1>1, TailIs
<1>3. todo'["shell"] = t
  OBVIOUS
<1> HIDE DEF t, s
<1>4. Calm(s, fd["shell"])
  BY DEF Quiet, s
<1>5. Calm(t, fd["shell"]) /\ Calm(t, "out")
  BY <1>2, <1>4, CalmRest
<1> QED  BY <1>3, <1>5 DEF Quiet

LEMMA ChildPending ==
  ASSUME Output, Pending, Grows, NEW p \in {"left", "right"}, NEW to \in Place,
         NEW u, u = Unit(p, to), u \in Units,
         printed' = printed \/ printed' = Append(printed, u),
         UNCHANGED <<phase, todo["shell"], fd["shell"], buf["shell"]>>
  PROVE  Pending'
<1>1. ~Comes(u)
  BY DEF Comes, Unit
<1>2. Quiet => Quiet'
  BY DEF Quiet
<1> QED  BY <1>1, <1>2, PendingMore DEF Awaited

LEMMA SamePending ==
  ASSUME Output, Pending, Quiet => Quiet',
         UNCHANGED <<printed, reached, buf["shell"]>>
  PROVE  Pending'
<1>1. Grows
  BY DEF Grows
<1> QED  BY <1>1, PendingMore DEF Awaited
LEMMA ShellCommandPending ==
  ASSUME Inv, Tidy, Pending, Command("shell")  PROVE Pending'
<1> DEFINE s == todo["shell"]
           t == Tail(s)
           f == s[1]
           to == Belongs(line, f[2], line[f[2]].to)
           at == fd["shell"]
           u == Unit("shell", to)
<1>1. /\ Control /\ Output /\ "shell" \in Process /\ Frame("shell", "command")
      /\ Returns("shell") /\ phase' = phase /\ fd' = fd
      /\ todo = [x \in Process |-> todo[x]]
  BY DEF Command, Inv, Control, Process
<1>2. s # <<>> /\ Stack("shell", s, line)
  BY <1>1 DEF Tidy, Stacks, Frame
<1>3. /\ Head(s) = f /\ f \in Frames /\ Belonging("shell", f, line) /\ line \in Line
  BY <1>2, HeadIs
<1>4. f[1] = "command"
  BY <1>1, <1>3 DEF Frame
<1>5. /\ to \in Place /\ at \in Place /\ (to = "out" => at = "out") /\ fd["shell"] = at
      /\ Prints("shell", at, to) \/ WritesUnit("shell", to)
  BY <1>1, <1>3, CommandAt
<1>6. Rest("shell", s, t, line) /\ todo'["shell"] = t
  BY <1>1, <1>2, TailIs DEF Returns
<1>7. to = "out" => Calm(t, "out")
  <2>1. to = "out" => ~(f[2] = 1 /\ Len(line) = 2)
    BY DEF Belongs
  <2> HIDE DEF to, t, s, at
  <2> QED  BY <1>3, <1>4, <1>6, <2>1, CalmCommand DEF f
<1>8. Quiet => at = "out" /\ Calm(t, "out")
  <2>1. Quiet => Calm(s, at)
    BY DEF Quiet
  <2> HIDE DEF s, t, at
  <2> QED  BY <1>2, <1>4, <1>6, <2>1, NotCalm, CalmRest DEF f
<1>9. Comes(u) => to = "out" /\ phase = "prompt"
  BY DEF Comes, Unit
<1>10. u = Unit("shell", to)
  OBVIOUS
<1> HIDE DEF u, to, t, f, s, at
<1>11. Comes(u) \/ Quiet => at = "out" /\ Quiet'
  <2>1. Comes(u) \/ Quiet => at = "out" /\ phase' = "prompt" /\ Calm(t, "out")
    BY <1>1, <1>5, <1>7, <1>8, <1>9 DEF Quiet
  <2> QED  BY <1>1, <1>5, <1>6, <2>1 DEF Quiet
<1>12. /\ Grows /\ printed' = Append(printed, u) /\ u \in Units
       /\ \A v : ~Never(v, buf["shell"]) \/ v = u =>
                  ~Never(v, buf'["shell"]) \/ ~Never(v, reached'[at])
  <2>1. CASE Prints("shell", at, to)
    BY <1>1, <1>5, <1>10, <2>1, PrintsGrows
  <2>2. CASE WritesUnit("shell", to)
    BY <1>1, <1>5, <1>10, <2>2, WritesGrows
  <2> QED  BY <1>5, <2>1, <2>2
<1>13. Comes(u) => ~Never(u, reached'["out"]) \/ (~Never(u, buf'["shell"]) /\ Quiet')
  BY <1>11, <1>12
<1>14. \A v : Awaited(v) => ~Never(v, reached'["out"]) \/ (~Never(v, buf'["shell"]) /\ Quiet')
  BY <1>11, <1>12 DEF Awaited
<1> QED  BY <1>1, <1>12, <1>13, <1>14, PendingMore

LEMMA ShellRefusedPending ==
  ASSUME Inv, Tidy, Pending, RedirectRefused("shell")  PROVE Pending'
<1> DEFINE u == Unit("shell", "out")
           i == todo["shell"][1][2]
<1>1. /\ Control /\ Output /\ "shell" \in Process /\ "out" \in Place
      /\ Frame("shell", "redirect") /\ Prints("shell", "out", "out")
      /\ line' = line /\ phase' = phase /\ fd' = [fd EXCEPT !["shell"] = "out"]
      /\ fd \in [Process -> Place] /\ todo = [x \in Process |-> todo[x]]
  BY DEF RedirectRefused, Inv, Control, Process, Place
<1>2. fd'["shell"] = "out" /\ fd' \in [Process -> Place]
      /\ \A x \in Process \ {"shell"} : fd'[x] = fd[x]
  BY <1>1 DEF Place
<1>5. ~Quiet
  BY <1>1, Loud
<1>6. line \in Line
  <2>1. todo["shell"] # <<>> /\ Stack("shell", todo["shell"], line)
    BY <1>1 DEF Tidy, Stacks, Frame
  <2> QED  BY <2>1, HeadIs
<1>7. Comes(u) => Quiet'
  <2> SUFFICES ASSUME Comes(u)  PROVE Quiet'
    OBVIOUS
  <2>1. PICK k \in DOMAIN line : ~line[k].doc
    BY DEF Comes, Unit
  <2>2. phase' = "prompt"
    BY <1>1 DEF Comes, Unit
  <2> DEFINE s == todo["shell"]
             f == s[1]
  <2>3. /\ s # <<>> /\ Head(s) = f /\ f[1] = "redirect" /\ f \in Frames
        /\ Rest("shell", s, Tail(s), line)
    BY <1>1, FrameIs
  <2>4. IF line[f[2]].doc THEN Returns("shell") ELSE Refuses("shell")
    BY <2>3 DEF RedirectRefused, GivesUp
  <2>5. CASE line[f[2]].doc
    <3> DEFINE t == Tail(s)
    <3>1. Rest("shell", s, t, line) /\ todo'["shell"] = t
      BY <1>1, <2>3, <2>4, <2>5 DEF Returns
    <3> HIDE DEF t
    <3>2. Calm(t, "out")
      BY <1>6, <2>1, <2>3, <2>5, <3>1, CalmRedirect
    <3> QED  BY <1>2, <2>2, <3>1, <3>2 DEF Quiet
  <2>6. CASE ~line[f[2]].doc
    <3>1. PICK t : /\ todo' = [todo EXCEPT !["shell"] = t]
                   /\ Dropping("shell", todo["shell"], t, i, line)
      BY <1>1, <1>2, <2>4, <2>6, RefusesTidy
    <3>2. todo'["shell"] = t
      BY <1>1, <3>1
    <3>3. Calm(t, "out")
      BY <1>6, <2>1, <3>1, CalmDropping
    <3> QED  BY <1>2, <2>2, <3>2, <3>3 DEF Quiet
  <2> QED  BY <2>5, <2>6
<1>8. u = Unit("shell", "out")
  OBVIOUS
<1> HIDE DEF u
<1>9. /\ Grows /\ printed' = Append(printed, u) /\ u \in Units
      /\ ~Never(u, buf'["shell"]) \/ ~Never(u, reached'["out"])
  BY <1>1, <1>8, PrintsGrows
<1> QED  BY <1>1, <1>5, <1>7, <1>9, PendingMore DEF Awaited

LEMMA ShellOpenFailsPending ==
  ASSUME Inv, Tidy, Pending, OpenFails("shell")  PROVE Pending'
<1> DEFINE to == Belongs(line, Head(todo["shell"])[2], "stdout")
           u == Unit("shell", to)
<1>1. Control /\ Output /\ "shell" \in Process /\ Frame("shell", "redirect")
  BY DEF OpenFails, Inv, Process
<1>2. to \in Place /\ fd["shell"] = to /\ Ends("shell", Unit("shell", to))
  BY <1>1, OpenFailsAt
<1>3. ~Quiet
  BY <1>1, Loud
<1>4. Comes(u) => to = "out"
  BY DEF Comes, Unit
<1>5. u = Unit("shell", to)
  OBVIOUS
<1> HIDE DEF u, to
<1>6. /\ Grows /\ printed' = Append(printed, u) /\ u \in Units
      /\ ~Never(u, reached'[to])
  BY <1>1, <1>2, <1>5, EndsGrows
<1> QED  BY <1>1, <1>3, <1>4, <1>6, PendingMore DEF Awaited

LEMMA FlushesPending ==
  ASSUME Inv, Tidy, Pending, Prompt \/ Leaves  PROVE Pending'
<1> DEFINE b == buf["shell"]
<1>1. /\ Control /\ Output /\ todo["shell"] = <<>> /\ phase \in {"prompt", "read"}
      /\ Reach(fd["shell"], b) /\ printed' = printed /\ b \in Seq(Units)
  BY DEF Prompt, Leaves, Flushes, Inv, Output, Process
<1>2. fd["shell"] = "out" /\ "out" \in Place
  BY <1>1 DEF Tidy, Rests, Place
<1>3. Grows /\ \A v : ~Never(v, b) => ~Never(v, reached'["out"])
  BY <1>1, <1>2, ReachGrows
<1> QED  BY <1>1, <1>3, PendingMore DEF Awaited

LEMMA PendingStep == Inv /\ Tidy /\ Pending /\ [Next]_vars => Pending'
<1> SUFFICES ASSUME Inv, Tidy, Pending, [Next]_vars  PROVE Pending'
  OBVIOUS
<1>0. /\ Control /\ Output /\ "shell" \in Process /\ todo = [x \in Process |-> todo[x]]
      /\ fd \in [Process -> Place] /\ buf \in [Process -> Seq(Units)]
      /\ {"left", "right"} = Process \ {"shell"}
  BY DEF Inv, Control, Output, Process
<1>1. CASE RcLine \/ Readline
  <2>1. ~Quiet /\ UNCHANGED <<printed, reached, buf>>
    BY <1>1 DEF RcLine, Readline, Quiet
  <2> QED  BY <1>0, <2>1, SamePending
<1>2. CASE PrintBanner
  <2> DEFINE u == Unit("shell", "out")
  <2>1. /\ Prints("shell", fd["shell"], "out") /\ fd["shell"] \in Place /\ "out" \in Place
        /\ ~Quiet
    BY <1>0, <1>2 DEF PrintBanner, Quiet, Place
  <2>2. ~Comes(u)
    BY <1>2 DEF PrintBanner, Comes, Unit
  <2>3. u = Unit("shell", "out")
    OBVIOUS
  <2> HIDE DEF u
  <2>4. Grows /\ printed' = Append(printed, u) /\ u \in Units
    BY <1>0, <2>1, <2>3, PrintsGrows
  <2> QED  BY <1>0, <2>1, <2>2, <2>4, PendingMore DEF Awaited
<1>3. CASE Prompt \/ Leaves
  BY <1>3, FlushesPending
<1>4. CASE Doc
  <2> DEFINE b == buf["shell"]
  <2>1. /\ Frame("shell", "doc") /\ buf' = buf /\ printed' = printed
        /\ Reach("out", b) \/ UNCHANGED reached
    BY <1>4 DEF Doc
  <2>2. b \in Seq(Units) /\ "out" \in Place
    BY <1>0 DEF Place
  <2> HIDE DEF b
  <2>3. Grows
    BY <1>0, <2>1, <2>2, ReachGrows DEF Grows
  <2>4. ~Quiet
    BY <1>0, <2>1, Loud
  <2> QED  BY <1>0, <2>1, <2>3, <2>4, PendingMore DEF Awaited
<1>5. CASE ToPipe
  <2>1. ~Quiet /\ UNCHANGED <<printed, reached, buf>>
    BY <1>0, <1>5, Loud DEF ToPipe
  <2> QED  BY <1>0, <2>1, SamePending
<1>6. CASE Wait
  <2>1. /\ Frame("shell", "wait") /\ todo'["shell"] = Tail(todo["shell"])
        /\ UNCHANGED <<printed, reached, buf, fd, phase>>
    BY <1>0, <1>6 DEF Wait, Returns
  <2>2. Quiet => Quiet'
    BY <1>0, <2>1, QuietReturns
  <2> QED  BY <1>0, <2>1, <2>2, SamePending
<1>7. ASSUME NEW p \in {"left", "right"}, NEW calls, NEW at, Forked(p, calls, at),
             Frame("shell", "forkleft") \/ Frame("shell", "forkright")
      PROVE  Pending'
  <2>1. /\ todo'["shell"] = Tail(todo["shell"]) /\ fd'["shell"] = fd["shell"]
        /\ buf'["shell"] = buf["shell"] /\ UNCHANGED <<printed, reached, phase>>
    BY <1>0, <1>7 DEF Forked
  <2>2. Quiet => Quiet'
    BY <1>0, <1>7, <2>1, QuietReturns
  <2> QED  BY <1>0, <2>1, <2>2, SamePending
<1>8. CASE ForkLeft \/ ForkRight
  BY <1>7, <1>8 DEF ForkLeft, ForkRight
<1>9. ASSUME NEW p \in Process, Redirect(p)  PROVE Pending'
  <2>1. /\ Frame(p, "redirect") /\ Returns(p) /\ UNCHANGED <<printed, reached, buf, phase>>
        /\ \A x \in Process \ {p} : fd'[x] = fd[x]
    BY <1>0, <1>9 DEF Redirect
  <2>2. \A x \in Process \ {p} : todo'[x] = todo[x]
    BY <1>0, <2>1, LeavesFrame
  <2>3. Quiet => Quiet'
    BY <1>0, <2>1, <2>2, Loud DEF Quiet
  <2> QED  BY <1>0, <2>1, <2>3, SamePending
<1>10. ASSUME NEW p \in Process, Restore(p)  PROVE Pending'
  <2>1. /\ (Frame(p, "restore") \/ Frame(p, "reset")) /\ Returns(p)
        /\ UNCHANGED <<printed, reached, buf, phase>>
        /\ fd'[p] = "out" /\ \A x \in Process \ {p} : fd'[x] = fd[x]
    BY <1>0, <1>10 DEF Restore
  <2>2. \A x \in Process \ {p} : todo'[x] = todo[x]
    BY <1>0, <2>1, LeavesFrame
  <2>3. Quiet => Quiet'
    <3>1. CASE p = "shell"
      <4>1. todo'["shell"] = Tail(todo["shell"])
        BY <1>0, <2>1, <3>1 DEF Returns
      <4> QED  BY <1>0, <2>1, <3>1, <4>1, QuietReturns
    <3>2. CASE p # "shell"
      BY <1>0, <2>1, <2>2, <3>2 DEF Quiet
    <3> QED  BY <3>1, <3>2
  <2> QED  BY <1>0, <2>1, <2>3, SamePending
<1>11. ASSUME NEW p \in {"left", "right"}, RedirectRefused(p)  PROVE Pending'
  <2> DEFINE u == Unit(p, "out")
  <2>1. /\ Prints(p, "out", "out") /\ (Returns(p) \/ Refuses(p)) /\ phase' = phase
        /\ p \in Process /\ p # "shell" /\ fd'["shell"] = fd["shell"] /\ "out" \in Place
    BY <1>0, <1>11 DEF RedirectRefused, GivesUp, Place
  <2>2. todo'["shell"] = todo["shell"]
    BY <1>0, <2>1, LeavesFrame
  <2>3. u = Unit(p, "out")
    OBVIOUS
  <2> HIDE DEF u
  <2>4. Grows /\ printed' = Append(printed, u) /\ u \in Units /\ buf'["shell"] = buf["shell"]
    BY <1>0, <2>1, <2>3, PrintsGrows
  <2> QED  BY <1>0, <2>1, <2>2, <2>3, <2>4, ChildPending
<1>12. ASSUME NEW p \in {"left", "right"}, OpenFails(p)  PROVE Pending'
  <2> DEFINE to == Belongs(line, Head(todo[p])[2], "stdout")
             u == Unit(p, to)
  <2>1. to \in Place /\ Ends(p, Unit(p, to))
    BY <1>0, <1>12, OpenFailsAt
  <2>2. /\ phase' = phase /\ fd' = fd /\ p \in Process /\ p # "shell"
        /\ todo' = [todo EXCEPT ![p] = <<>>]
    BY <1>0, <1>12 DEF OpenFails
  <2>3. todo'["shell"] = todo["shell"]
    BY <1>0, <2>2
  <2>4. u = Unit(p, to)
    OBVIOUS
  <2> HIDE DEF u, to
  <2>5. Grows /\ printed' = Append(printed, u) /\ u \in Units /\ buf'["shell"] = buf["shell"]
    BY <1>0, <2>1, <2>2, <2>4, EndsGrows
  <2> QED  BY <1>0, <2>1, <2>2, <2>3, <2>4, <2>5, ChildPending
<1>13. ASSUME NEW p \in {"left", "right"}, Command(p)  PROVE Pending'
  <2> DEFINE i == Head(todo[p])[2]
             to == Belongs(line, i, line[i].to)
             at == fd[p]
             u == Unit(p, to)
  <2>1. to \in Place /\ at \in Place /\ (Prints(p, at, to) \/ WritesUnit(p, to))
    BY <1>0, <1>13, CommandAt
  <2>2. /\ phase' = phase /\ fd' = fd /\ p \in Process /\ p # "shell" /\ Returns(p)
    BY <1>0, <1>13 DEF Command
  <2>3. todo'["shell"] = todo["shell"]
    BY <1>0, <2>2, LeavesFrame
  <2>4. u = Unit(p, to)
    OBVIOUS
  <2> HIDE DEF u, to, at
  <2>5. Grows /\ printed' = Append(printed, u) /\ u \in Units /\ buf'["shell"] = buf["shell"]
    BY <1>0, <2>1, <2>2, <2>4, PrintsGrows, WritesGrows
  <2> QED  BY <1>0, <2>1, <2>2, <2>3, <2>4, <2>5, ChildPending
<1>14. ASSUME NEW p \in {"left", "right"}, ChildExit(p)  PROVE Pending'
  <2>1. /\ UNCHANGED <<printed, reached, phase, fd>> /\ Returns(p) /\ p \in Process
        /\ p # "shell" /\ buf'["shell"] = buf["shell"]
    BY <1>0, <1>14 DEF ChildExit
  <2>2. todo'["shell"] = todo["shell"]
    BY <1>0, <2>1, LeavesFrame
  <2>3. Quiet => Quiet'
    BY <2>1, <2>2 DEF Quiet
  <2> QED  BY <1>0, <2>1, <2>3, SamePending
<1>15. CASE UNCHANGED vars
  BY <1>0, <1>15, SamePending DEF vars, Quiet
<1>16. ASSUME NEW p \in Process, RedirectRefused(p) \/ OpenFails(p) \/ Command(p)
       PROVE  Pending'
  BY <1>0, <1>11, <1>12, <1>13, <1>16, ShellRefusedPending, ShellOpenFailsPending,
     ShellCommandPending
<1> QED
  BY <1>1, <1>2, <1>3, <1>4, <1>5, <1>6, <1>8, <1>9, <1>10, <1>14, <1>15, <1>16 DEF Next

(***************************************************************************)
(* PrintedThere for every script, every line and every room of the buffer. *)
(***************************************************************************)
There == Inv /\ Tidy /\ Modes /\ OnLine /\ Pending

LEMMA ThereStart == Init => There
<1> SUFFICES ASSUME Init  PROVE There
  OBVIOUS
<1>1. Inv
  BY Start
<1>2. /\ \A p \in Process : todo[p] = <<>> /\ fd[p] = "out" /\ buf[p] = <<>>
      /\ \A p \in Process : mode[p] = "undecided"
      /\ phase = "rc" /\ printed = <<>> /\ "shell" \in Process /\ "left" \in Process
      /\ "right" \in Process
  BY DEF Init, Process
<1>3. Tidy
  BY <1>2, EmptyIs DEF Tidy, Stacks, Wheres, Children, Rests
<1>4. DOMAIN printed = {}
  BY <1>2
<1>5. Modes /\ OnLine /\ Pending
  BY <1>2, <1>4 DEF Modes, OnLine, Pending
<1> QED  BY <1>1, <1>3, <1>5 DEF There

LEMMA ThereStep == There /\ [Next]_vars => There'
BY Step, TidyStep, OnLineStep, PendingStep DEF There

(* At a terminal what is printed on typed lines is where it belongs, and   *)
(* in a script what the shell itself prints without redirection is out     *)
(* before the next line is read (PrintedThere), for every rc file, every   *)
(* lines typed and a buffer of any size.                                   *)
THEOREM PrintedThereHolds == Spec => []PrintedThere
<1>1. There => PrintedThere
  <2> SUFFICES ASSUME There  PROVE PrintedThere
    OBVIOUS
  <2>1. ASSUME NEW u \in Range(printed)  PROVE \E i \in DOMAIN printed : u = printed[i]
    BY <2>1 DEF Range
  <2>2. ASSUME mode["shell"] = "line", NEW u \in Range(printed), u.phase = "prompt"
        PROVE  OnlyIn(u, Goes(u))
    BY <2>1, <2>2 DEF There, OnLine, OnlyAt, OnlyIn
  <2>3. ASSUME Settled, NEW u \in Range(printed), Comes(u)  PROVE ~Never(u, reached["out"])
    BY <2>1, <2>3 DEF There, Pending, Awaited, Quiet, Settled
  <2> QED  BY <2>2, <2>3 DEF PrintedThere, Comes
<1> QED  BY <1>1, ThereStart, ThereStep, PTL DEF Spec
=============================================================================
