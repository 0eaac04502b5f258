------------------------- MODULE EnvironmentProofs -------------------------
(***************************************************************************)
(* Theorems about Environment, for every value of its constants.           *)
(*                                                                         *)
(* Lookup is what the rest of the shell sees of the list.  With a name at  *)
(* most once in the list, each operation on the list is an assignment to   *)
(* that function (LookupAdd, LookupUnset): the invariant and the           *)
(* refinement follow from that, action by action.                          *)
(***************************************************************************)
EXTENDS Environment, SequenceTheorems, TLAPS

IInv == TypeOK /\ UniqueNames /\ CopiesAgree

(***************************************************************************)
(* The list.                                                               *)
(***************************************************************************)
Entries == Seq(Node)

(* In a list without duplicates the first node with a key is the only one. *)
LEMMA FirstIs ==
  ASSUME NEW l \in Entries, Unique(l), NEW i \in DOMAIN l
  PROVE  First(l, l[i].key) = i
<1>1. /\ i \in DOMAIN l /\ l[i].key = l[i].key
      /\ \A j \in 1 .. i - 1 : l[j].key # l[i].key
  <2> SUFFICES ASSUME NEW j \in 1 .. i - 1  PROVE l[j].key # l[i].key
    OBVIOUS
  <2>1. i \in 1 .. Len(l) /\ j \in DOMAIN l /\ j # i
    BY DEF Entries
  <2> QED  BY <2>1 DEF Unique
<1>2. \A k \in DOMAIN l : l[k].key = l[i].key => k = i
  BY DEF Unique
<1> QED  BY <1>1, <1>2 DEF First

LEMMA FirstIn ==
  ASSUME NEW l \in Entries, Unique(l), NEW n \in Names(l)
  PROVE  First(l, n) \in DOMAIN l /\ l[First(l, n)].key = n
<1>1. PICK i \in DOMAIN l : l[i].key = n
  BY DEF Names
<1> QED  BY <1>1, FirstIs

LEMMA LookupIs ==
  ASSUME NEW l \in Entries, Unique(l), NEW i \in DOMAIN l
  PROVE  Lookup(l, l[i].key) = l[i].val
BY FirstIs DEF Lookup, Names

LEMMA LookupType ==
  ASSUME NEW l \in Entries, Unique(l), NEW n \in Name
  PROVE  /\ Lookup(l, n) \in Value \cup {Unset, Declared}
         /\ n \in Names(l) <=> Lookup(l, n) # Unset
<1>1. CASE n \notin Names(l)
  BY <1>1 DEF Lookup
<1>2. CASE n \in Names(l)
  <2>1. First(l, n) \in DOMAIN l
    BY <1>2, FirstIn
  <2>2. l[First(l, n)] \in Node
    BY <2>1 DEF Entries
  <2>3. Lookup(l, n) \in Value \cup {Declared}
    BY <1>2, <2>2 DEF Lookup, Node
  <2> QED  BY <1>2, <2>3, EnvironmentAssumption
<1> QED  BY <1>1, <1>2

(* add_link_list() assigns to one name. *)
Added(l, in, n) ==
  IF n # in.key THEN Lookup(l, n)
  ELSE IF in.eq THEN in.val
  ELSE IF Lookup(l, n) = Unset THEN Declared ELSE Lookup(l, n)

LEMMA AddNew ==
  ASSUME NEW l \in Entries, Unique(l), NEW x \in Node, x.key \notin Names(l)
  PROVE  /\ Append(l, x) \in Entries /\ Unique(Append(l, x))
         /\ \A n \in Name :
              Lookup(Append(l, x), n) = IF n = x.key THEN x.val ELSE Lookup(l, n)
<1> DEFINE m == Append(l, x)
<1>1. /\ m \in Entries /\ Len(m) = Len(l) + 1 /\ m[Len(l) + 1] = x
      /\ \A i \in 1 .. Len(l) : m[i] = l[i]
  BY DEF Entries
<1> HIDE DEF m
<1>2. DOMAIN l = 1 .. Len(l) /\ DOMAIN m = 1 .. Len(l) + 1 /\ Len(l) \in Nat
  BY <1>1 DEF Entries
<1>3. \A i \in DOMAIN l : l[i].key # x.key
  BY DEF Names
<1>4. Unique(m)
  <2> SUFFICES ASSUME NEW i \in DOMAIN m, NEW j \in DOMAIN m, m[i].key = m[j].key
               PROVE  i = j
    BY DEF Unique
  <2>1. CASE i = Len(l) + 1 \/ j = Len(l) + 1
    <3>1. i \in DOMAIN l => FALSE
      BY <1>1, <1>2, <1>3, <2>1
    <3>2. j \in DOMAIN l => FALSE
      BY <1>1, <1>2, <1>3, <2>1
    <3> QED  BY <1>2, <3>1, <3>2
  <2>2. CASE i \in DOMAIN l /\ j \in DOMAIN l
    BY <1>1, <1>2, <2>2 DEF Unique
  <2> QED  BY <1>2, <2>1, <2>2
<1>5. ASSUME NEW n \in Name
      PROVE  Lookup(m, n) = IF n = x.key THEN x.val ELSE Lookup(l, n)
  <2>1. CASE n = x.key
    <3>1. Len(l) + 1 \in DOMAIN m
      BY <1>2
    <3>2. Lookup(m, m[Len(l) + 1].key) = m[Len(l) + 1].val
      BY <1>1, <1>4, <3>1, LookupIs
    <3> QED  BY <1>1, <2>1, <3>2
  <2>2. CASE n # x.key /\ n \in Names(l)
    <3>1. First(l, n) \in DOMAIN l /\ l[First(l, n)].key = n
      BY <2>2, FirstIn
    <3>2. First(l, n) \in DOMAIN m /\ m[First(l, n)] = l[First(l, n)]
      BY <1>1, <1>2, <3>1
    <3>3. Lookup(m, n) = m[First(l, n)].val
      BY <1>1, <1>4, <3>1, <3>2, LookupIs
    <3> QED  BY <2>2, <3>2, <3>3 DEF Lookup
  <2>3. CASE n # x.key /\ n \notin Names(l)
    <3>1. n \notin Names(m)
      BY <1>1, <1>2, <2>3 DEF Names
    <3> QED  BY <2>3, <3>1 DEF Lookup
  <2> QED  BY <2>1, <2>2, <2>3
<1> QED  BY <1>1, <1>4, <1>5 DEF m

Modified(l, k, v) == [l EXCEPT ![k].val = v]

LEMMA Modify ==
  ASSUME NEW l \in Entries, Unique(l), NEW k \in DOMAIN l, NEW v \in Value
  PROVE  /\ Modified(l, k, v) \in Entries /\ Unique(Modified(l, k, v))
         /\ \A n \in Name : Lookup(Modified(l, k, v), n)
                               = IF n = l[k].key THEN v ELSE Lookup(l, n)
<1> DEFINE m == Modified(l, k, v)
<1>1. \A i \in DOMAIN l : l[i] \in Node
  BY DEF Entries
<1>2. l[k].key \in Name /\ [l[k] EXCEPT !.val = v] \in Node
  BY <1>1 DEF Node
<1>3. m = [l EXCEPT ![k] = [l[k] EXCEPT !.val = v]]
  BY DEF Modified
<1>4. m \in Entries /\ DOMAIN m = DOMAIN l
  BY <1>2, <1>3 DEF Entries
<1>5. \A i \in DOMAIN l : m[i].key = l[i].key /\ m[i].val = IF i = k THEN v ELSE l[i].val
  BY <1>1, <1>3 DEF Node
<1> HIDE DEF m
<1>6. Unique(m) /\ Names(m) = Names(l)
  BY <1>4, <1>5 DEF Unique, Names
<1>7. ASSUME NEW n \in Name
      PROVE  Lookup(m, n) = IF n = l[k].key THEN v ELSE Lookup(l, n)
  <2>1. CASE n \notin Names(l)
    BY <1>6, <2>1 DEF Lookup, Names
  <2>2. CASE n \in Names(l)
    <3>1. PICK i \in DOMAIN l : l[i].key = n
      BY <2>2 DEF Names
    <3>2. Lookup(l, n) = l[i].val
      BY <3>1, LookupIs
    <3>3. Lookup(m, n) = m[i].val
      BY <1>4, <1>5, <1>6, <3>1, LookupIs
    <3>4. n = l[k].key <=> i = k
      BY <3>1 DEF Unique
    <3> QED  BY <1>5, <3>1, <3>2, <3>3, <3>4
  <2> QED  BY <2>1, <2>2
<1> QED  BY <1>4, <1>6, <1>7 DEF m

LEMMA LookupAdd ==
  ASSUME NEW l \in Entries, Unique(l), NEW in \in Input
  PROVE  /\ AddLinkList(l, in) \in Entries /\ Unique(AddLinkList(l, in))
         /\ \A n \in Name : Lookup(AddLinkList(l, in), n) = Added(l, in, n)
<1>1. in.key \in Name /\ in.eq \in BOOLEAN /\ in.val \in Value
  BY DEF Input
<1>2. CASE in.key \notin Names(l)
  <2> DEFINE x == [key |-> in.key, val |-> IF in.eq THEN in.val ELSE Declared]
  <2>1. x \in Node /\ x.key = in.key /\ x.val = IF in.eq THEN in.val ELSE Declared
    BY <1>1 DEF Node
  <2>2. AddLinkList(l, in) = Append(l, x)
    BY <1>2 DEF AddLinkList
  <2>3. Lookup(l, in.key) = Unset
    BY <1>2 DEF Lookup
  <2> HIDE DEF x
  <2>4. /\ AddLinkList(l, in) \in Entries /\ Unique(AddLinkList(l, in))
        /\ \A n \in Name : Lookup(AddLinkList(l, in), n)
                              = IF n = x.key THEN x.val ELSE Lookup(l, n)
    BY <1>2, <2>1, <2>2, AddNew
  <2>5. \A n \in Name : (IF n = x.key THEN x.val ELSE Lookup(l, n)) = Added(l, in, n)
    BY <2>1, <2>3 DEF Added
  <2> QED  BY <2>4, <2>5
<1>3. CASE in.key \in Names(l) /\ in.eq
  <2> DEFINE k == First(l, in.key)
             v == in.val
  <2>1. k \in DOMAIN l /\ l[k].key = in.key /\ v \in Value
    BY <1>1, <1>3, FirstIn
  <2>2. AddLinkList(l, in) = Modified(l, k, v)
    BY <1>3 DEF AddLinkList, Modified
  <2> HIDE DEF k, v
  <2>3. /\ AddLinkList(l, in) \in Entries /\ Unique(AddLinkList(l, in))
        /\ \A n \in Name : Lookup(AddLinkList(l, in), n)
                              = IF n = in.key THEN v ELSE Lookup(l, n)
    BY <2>1, <2>2, Modify
  <2>4. \A n \in Name : (IF n = in.key THEN v ELSE Lookup(l, n)) = Added(l, in, n)
    BY <1>3 DEF Added, v
  <2> QED  BY <2>3, <2>4
<1>4. CASE in.key \in Names(l) /\ ~in.eq
  <2>1. AddLinkList(l, in) = l
    BY <1>4 DEF AddLinkList
  <2>2. Lookup(l, in.key) # Unset
    BY <1>1, <1>4, LookupType
  <2> QED  BY <1>4, <2>1, <2>2 DEF Added
<1> QED  BY <1>1, <1>2, <1>3, <1>4

(* unset_helper() removes one name. *)
LEMMA LookupUnset ==
  ASSUME NEW l \in Entries, Unique(l), NEW o \in Name
  PROVE  /\ UnsetHelper(l, o) \in Entries /\ Unique(UnsetHelper(l, o))
         /\ \A n \in Name :
              Lookup(UnsetHelper(l, o), n) = IF n = o THEN Unset ELSE Lookup(l, n)
<1>1. CASE o \notin Names(l)
  BY <1>1 DEF UnsetHelper, Lookup
<1>2. CASE o \in Names(l)
  <2> DEFINE k == First(l, o)
             m == Before(l, k) \o After(l, k)
  <2>1. k \in 1 .. Len(l) /\ l[k].key = o /\ UnsetHelper(l, o) = m
    BY <1>2, FirstIn DEF UnsetHelper, Entries
  <2> HIDE DEF k
  <2>2. /\ Before(l, k) \in Entries /\ Len(Before(l, k)) = k - 1
        /\ \A i \in 1 .. k - 1 : Before(l, k)[i] = l[i]
    BY <2>1 DEF Before, Entries
  <2>3. /\ After(l, k) \in Entries /\ Len(After(l, k)) = Len(l) - k
        /\ \A i \in 1 .. Len(l) - k : After(l, k)[i] = l[i + k]
    BY <2>1 DEF After, Entries
  <2>4. /\ m \in Entries /\ Len(m) = Len(l) - 1
        /\ \A i \in 1 .. Len(l) - 1 :
             m[i] = IF i <= k - 1 THEN Before(l, k)[i] ELSE After(l, k)[i - (k - 1)]
    <3>1. Len(l) \in Nat /\ (k - 1) + (Len(l) - k) = Len(l) - 1
      BY <2>1 DEF Entries
    <3> QED  BY <2>2, <2>3, <3>1, ConcatProperties DEF Entries
  <2> HIDE DEF m
  <2>5. \A i \in 1 .. Len(l) - 1 : m[i] = IF i < k THEN l[i] ELSE l[i + 1]
    <3> SUFFICES ASSUME NEW i \in 1 .. Len(l) - 1
                 PROVE  m[i] = IF i < k THEN l[i] ELSE l[i + 1]
      OBVIOUS
    <3>1. CASE i < k
      <4>1. i \in 1 .. k - 1 /\ i <= k - 1
        BY <2>1, <3>1
      <4> QED  BY <2>2, <2>4, <3>1, <4>1
    <3>2. CASE i >= k
      <4>1. m[i] = After(l, k)[i - (k - 1)]
        BY <2>1, <2>4, <3>2
      <4>2. i - (k - 1) \in 1 .. Len(l) - k /\ (i - (k - 1)) + k = i + 1
        BY <2>1, <3>2
      <4>3. After(l, k)[i - (k - 1)] = l[(i - (k - 1)) + k]
        BY <2>3, <4>2
      <4>4. m[i] = l[i + 1]
        BY <4>1, <4>2, <4>3
      <4> QED  BY <2>1, <3>2, <4>4
    <3> QED  BY <2>1, <3>1, <3>2
  <2>6. DOMAIN m = 1 .. Len(l) - 1 /\ DOMAIN l = 1 .. Len(l) /\ Len(l) \in Nat
    BY <2>4 DEF Entries
  <2>7. \A i \in DOMAIN l : l[i].key = o => i = k
    BY <2>1, <2>6 DEF Unique
  <2>8. Unique(m)
    <3> SUFFICES ASSUME NEW i \in DOMAIN m, NEW j \in DOMAIN m, m[i].key = m[j].key
                 PROVE  i = j
      BY DEF Unique
    <3> DEFINE at(e) == IF e < k THEN e ELSE e + 1
    <3>1. \A e \in DOMAIN m : at(e) \in DOMAIN l /\ m[e] = l[at(e)]
      BY <2>1, <2>5, <2>6
    <3>2. at(i) = at(j)
      BY <3>1 DEF Unique
    <3> QED  BY <2>1, <2>6, <3>2
  <2>9. ASSUME NEW n \in Name
        PROVE  Lookup(m, n) = IF n = o THEN Unset ELSE Lookup(l, n)
    <3>1. CASE n = o
      <4>1. \A i \in DOMAIN m : m[i].key # o
        <5> SUFFICES ASSUME NEW i \in DOMAIN m  PROVE m[i].key # o
          OBVIOUS
        <5>1. CASE i < k
          BY <2>1, <2>5, <2>6, <2>7, <5>1
        <5>2. CASE i >= k
          <6>1. i + 1 \in DOMAIN l /\ i + 1 # k /\ m[i] = l[i + 1]
            BY <2>1, <2>5, <2>6, <5>2
          <6> QED  BY <2>7, <6>1
        <5> QED  BY <2>1, <2>6, <5>1, <5>2
      <4> QED  BY <3>1, <4>1 DEF Lookup, Names
    <3>2. CASE n # o /\ n \notin Names(l)
      <4>1. n \notin Names(m)
        <5> SUFFICES ASSUME NEW i \in DOMAIN m  PROVE m[i].key # n
          BY DEF Names
        <5>1. \E e \in DOMAIN l : m[i] = l[e]
          BY <2>1, <2>5, <2>6
        <5> QED  BY <3>2, <5>1 DEF Names
      <4> QED  BY <3>2, <4>1 DEF Lookup
    <3>3. CASE n # o /\ n \in Names(l)
      <4>1. PICK e \in DOMAIN l : l[e].key = n
        BY <3>3 DEF Names
      <4>2. e # k
        BY <2>1, <3>3, <4>1
      <4>3. PICK i \in DOMAIN m : m[i] = l[e]
        <5>1. CASE e < k
          <6>1. e \in DOMAIN m /\ m[e] = l[e]
            BY <2>1, <2>5, <2>6, <5>1
          <6> QED  BY <6>1
        <5>2. CASE e > k
          <6>1. e - 1 \in DOMAIN m /\ ~(e - 1 < k) /\ (e - 1) + 1 = e
            BY <2>1, <2>6, <5>2
          <6>2. m[e - 1] = l[e]
            BY <2>5, <2>6, <6>1
          <6> QED  BY <6>1, <6>2
        <5> QED  BY <2>1, <2>6, <4>2, <5>1, <5>2
      <4>4. Lookup(m, n) = m[i].val
        BY <2>4, <2>8, <4>1, <4>3, LookupIs
      <4>5. Lookup(l, n) = l[e].val
        BY <4>1, LookupIs
      <4> QED  BY <3>3, <4>3, <4>4, <4>5
    <3> QED  BY <3>1, <3>2, <3>3
  <2> QED  BY <2>1, <2>4, <2>8, <2>9
<1> QED  BY <1>1, <1>2

(***************************************************************************)
(* The two copies.                                                         *)
(***************************************************************************)
Agree(l, env) == \A i \in DOMAIN l : l[i].val # Declared => env[l[i].key] = l[i].val

(* The copies agree about the list exactly when they agree about Lookup. *)
LEMMA AgreeIs ==
  ASSUME NEW l \in Entries, Unique(l), NEW env
  PROVE  Agree(l, env) <=>
           \A n \in Name : Lookup(l, n) \notin {Unset, Declared} => env[n] = Lookup(l, n)
<1>1. ASSUME Agree(l, env), NEW n \in Name, Lookup(l, n) \notin {Unset, Declared}
      PROVE  env[n] = Lookup(l, n)
  <2>1. n \in Names(l)
    BY <1>1 DEF Lookup
  <2>2. PICK i \in DOMAIN l : l[i].key = n
    BY <2>1 DEF Names
  <2>3. Lookup(l, n) = l[i].val
    BY <2>2, LookupIs
  <2> QED  BY <1>1, <2>2, <2>3 DEF Agree
<1>2. ASSUME \A n \in Name : Lookup(l, n) \notin {Unset, Declared} => env[n] = Lookup(l, n),
             NEW i \in DOMAIN l, l[i].val # Declared
      PROVE  env[l[i].key] = l[i].val
  <2>1. l[i] \in Node
    BY DEF Entries
  <2>2. l[i].key \in Name /\ l[i].val \in Value /\ l[i].val # Unset
    BY <1>2, <2>1, EnvironmentAssumption DEF Node
  <2>3. Lookup(l, l[i].key) = l[i].val
    BY LookupIs
  <2> QED  BY <1>2, <2>2, <2>3
<1> QED  BY <1>1, <1>2 DEF Agree

LEMMA CopiesAgreeIs ==
  /\ CopiesAgree <=> Agree(list, environ)
  /\ CopiesAgree' <=> Agree(list', environ')
BY DEF CopiesAgree, Agree

(* An accepted argument of export keeps both copies in step. *)
LEMMA ExportsOK ==
  ASSUME IInv, NEW in \in Input, Exports(in)
  PROVE  /\ list' \in Entries /\ environ' \in [Name -> Value \cup {Unset}]
         /\ UniqueNames' /\ CopiesAgree'
         /\ \A n \in Name : Lookup(list', n) = Added(list, in, n)
<1>1. /\ list \in Entries /\ Unique(list) /\ Agree(list, environ)
      /\ environ \in [Name -> Value \cup {Unset}]
  BY CopiesAgreeIs DEF IInv, TypeOK, UniqueNames, Entries
<1>2. in.key \in Name /\ in.eq \in BOOLEAN /\ in.val \in Value
  BY DEF Input
<1>3. list' = AddLinkList(list, in)
  BY DEF Exports
<1>4. /\ list' \in Entries /\ Unique(list')
      /\ \A n \in Name : Lookup(list', n) = Added(list, in, n)
  BY <1>1, <1>3, LookupAdd
<1>5. environ' = IF in.eq THEN [environ EXCEPT ![in.key] = in.val] ELSE environ
  BY DEF Exports, SetEnv
<1>6. environ' \in [Name -> Value \cup {Unset}]
  BY <1>1, <1>2, <1>5
<1>7. ASSUME NEW n \in Name, Lookup(list', n) \notin {Unset, Declared}
      PROVE  environ'[n] = Lookup(list', n)
  <2>1. CASE n = in.key /\ in.eq
    BY <1>1, <1>2, <1>4, <1>5, <2>1 DEF Added
  <2>2. CASE n # in.key \/ ~in.eq
    <3>1. Lookup(list', n) = Lookup(list, n)
      BY <1>4, <1>7, <2>2 DEF Added
    <3>2. environ'[n] = environ[n]
      BY <1>1, <1>2, <1>5, <2>2
    <3> QED  BY <1>1, <1>7, <3>1, <3>2, AgreeIs
  <2> QED  BY <2>1, <2>2
<1>8. CopiesAgree'
  BY <1>4, <1>7, AgreeIs, CopiesAgreeIs
<1> QED  BY <1>4, <1>6, <1>8 DEF UniqueNames

(* What a list that nobody touches keeps. *)
LEMMA ListSame ==
  ASSUME IInv, UNCHANGED <<list, environ>>
  PROVE  /\ list' \in Entries /\ environ' \in [Name -> Value \cup {Unset}]
         /\ UniqueNames' /\ CopiesAgree'
BY DEF IInv, TypeOK, UniqueNames, CopiesAgree, Entries

(***************************************************************************)
(* The initial states.                                                     *)
(***************************************************************************)
LEMMA InitOK == Init => IInv
<1> SUFFICES ASSUME Init  PROVE IInv
  OBVIOUS
<1>1. PICK l \in Envp :
        /\ list = InPlace(l)
        /\ environ = [n \in Name |-> IF n = Path THEN LocalBin(l) ELSE Lookup(l, n)]
  BY DEF Init, EnvLinkList
<1>2. /\ l \in Seq([key : Name, val : Value]) /\ Unique(l)
      /\ \A i \in DOMAIN l : l[i].key = Pwd => Len(l[i].val) = 1
  BY EnvpAssumption
<1> DEFINE E == [key : Name, val : Value]
<1>3. /\ DOMAIN l = 1 .. Len(l) /\ Len(l) \in Nat
      /\ \A i \in DOMAIN l : l[i] \in E
  <2> HIDE DEF E
  <2>1. l \in Seq(E)
    BY <1>2 DEF E
  <2> QED  BY <2>1
<1>4. l \in Entries
  <2>1. E \subseteq Node
    BY DEF Node
  <2> HIDE DEF E
  <2>2. l \in Seq(E)
    BY <1>2 DEF E
  <2> QED  BY <2>1, <2>2 DEF Entries
<1>5. /\ {Home, OldPwd, Path, Pwd} \subseteq Name /\ Path \notin {Home, OldPwd, Pwd}
      /\ Bin \in [Dir -> Dir] /\ Unset \notin Value /\ Declared \notin Value
      /\ Unset # Declared
  BY EnvironmentAssumption
<1>6. ASSUME NEW n \in Names(l)
      PROVE  Lookup(l, n) \in Value
  <2>1. First(l, n) \in DOMAIN l /\ l[First(l, n)] \in E
    BY <1>2, <1>4, <1>3, FirstIn
  <2> QED  BY <2>1 DEF Lookup
<1>7. ASSUME Pwd \in Names(l)
      PROVE  Len(Lookup(l, Pwd)) = 1
  <2>1. First(l, Pwd) \in DOMAIN l /\ l[First(l, Pwd)].key = Pwd
    BY <1>2, <1>4, <1>7, FirstIn
  <2> QED  BY <1>2, <1>7, <2>1 DEF Lookup
<1>8. LocalBin(l) \in Value
  <2> DEFINE bin == IF Pwd \in Names(l) THEN <<Bin[Lookup(l, Pwd)[1]]>> ELSE <<>>
  <2>2. bin \in Seq(Dir)
    <3>1. CASE Pwd \in Names(l)
      <4>1. Lookup(l, Pwd) \in Seq(Dir)
        BY <1>6, <3>1 DEF Value
      <4>2. Lookup(l, Pwd)[1] \in Dir
        BY <1>7, <3>1, <4>1
      <4> QED  BY <1>5, <3>1, <4>2
    <3> QED  BY <3>1
  <2>3. (IF Lookup(l, Path) = Unset THEN <<>> ELSE Lookup(l, Path)) \in Seq(Dir)
    <3>1. CASE Path \in Names(l)
      BY <1>6, <3>1 DEF Value
    <3>2. CASE Path \notin Names(l)
      BY <3>2 DEF Lookup, Value
    <3> QED  BY <3>1, <3>2
  <2>4. LocalBin(l) = bin \o (IF Lookup(l, Path) = Unset THEN <<>> ELSE Lookup(l, Path))
    BY DEF LocalBin
  <2> HIDE DEF bin
  <2> QED  BY <2>2, <2>3, <2>4, ConcatProperties DEF Value
<1>9. /\ list \in Entries /\ Unique(list)
      /\ \A n \in Name : Lookup(list, n) = IF n = Path /\ Path \in Names(l)
                                            THEN LocalBin(l) ELSE Lookup(l, n)
  <2>1. CASE Path \in Names(l)
    <3> DEFINE k == First(l, Path)
               v == LocalBin(l)
    <3>1. k \in DOMAIN l /\ l[k].key = Path /\ v \in Value
      BY <1>2, <1>4, <1>8, <2>1, FirstIn
    <3>2. list = Modified(l, k, v)
      BY <1>1, <2>1 DEF InPlace, Modified
    <3> HIDE DEF k, v
    <3>3. /\ list \in Entries /\ Unique(list)
          /\ \A n \in Name : Lookup(list, n) = IF n = Path THEN v ELSE Lookup(l, n)
      BY <1>2, <1>4, <3>1, <3>2, Modify
    <3> QED  BY <2>1, <3>3 DEF v
  <2>2. CASE Path \notin Names(l)
    BY <1>1, <1>2, <1>4, <2>2 DEF InPlace
  <2> QED  BY <2>1, <2>2
<1>10. environ \in [Name -> Value \cup {Unset}]
  <2>1. \A n \in Name : Lookup(l, n) \in Value \cup {Unset}
    BY <1>6 DEF Lookup
  <2> QED  BY <1>1, <1>8, <2>1
<1>11. \A n \in Name : Lookup(list, n) \notin {Unset, Declared} => environ[n] = Lookup(list, n)
  <2> SUFFICES ASSUME NEW n \in Name, Lookup(list, n) \notin {Unset, Declared}
               PROVE  environ[n] = Lookup(list, n)
    OBVIOUS
  <2>1. CASE n = Path
    <3>1. Path \in Names(l)
      BY <1>9, <2>1 DEF Lookup
    <3> QED  BY <1>1, <1>9, <2>1, <3>1
  <2>2. CASE n # Path
    BY <1>1, <1>9, <2>2
  <2> QED  BY <2>1, <2>2
<1>12. CopiesAgree
  BY <1>9, <1>11, AgreeIs, CopiesAgreeIs
<1>13. TypeOK
  <2>1. /\ cwd \in Dir /\ there = Dir /\ gone = FALSE
        /\ todo = Idle /\ status = 0 /\ phase = "rc" /\ nrc = 0 /\ ncmd = 0
    BY DEF Init
  <2>2. 0 \in 0 .. MaxRc /\ 0 \in 0 .. MaxCommands
    BY EnvironmentAssumption
  <2> QED  BY <1>9, <1>10, <2>1, <2>2 DEF TypeOK, Entries
<1> QED  BY <1>9, <1>12, <1>13 DEF IInv, UniqueNames

(***************************************************************************)
(* The steps.                                                              *)
(***************************************************************************)
(* TypeOK of what is not a copy of the variables. *)
ControlOK ==
  /\ cwd \in Dir /\ there \subseteq Dir /\ gone \in BOOLEAN
  /\ \/ todo = Idle
     \/ todo \in [op : {"export"}, args : Seq(Input) \ {<<>>}]
     \/ todo \in [op : {"unset"}, args : Seq(Name) \ {<<>>}]
     \/ todo \in [op : {"name", "path", "runs"}, args : Found]
  /\ status \in {0, 1, 127}
  /\ phase \in {"rc", "prompt", "crashed"}
  /\ nrc \in 0 .. MaxRc /\ ncmd \in 0 .. MaxCommands
CopiesOK ==
  /\ list \in Entries /\ environ \in [Name -> Value \cup {Unset}]
  /\ UniqueNames /\ CopiesAgree

LEMMA IInvIs == (IInv <=> CopiesOK /\ ControlOK) /\ (IInv' <=> CopiesOK' /\ ControlOK')
BY DEF IInv, TypeOK, CopiesOK, ControlOK, Entries

(* What a step is in the abstract specification. *)
AbstractVars == <<[n \in Name |-> Lookup(list, n)], cwd>>
AbstractStep == Abstract!Next \/ UNCHANGED AbstractVars

LEMMA AssignmentType ==
  ASSUME NEW n \in Name, NEW v \in Value
  PROVE  /\ Assignment(n, v) \in Input /\ Assignment(n, v).key = n
         /\ Assignment(n, v).eq /\ Assignment(n, v).val = v
BY DEF Assignment, Input

(* An accepted argument is a Set, a Declare or nothing. *)
LEMMA ExportsStep ==
  ASSUME IInv, NEW in \in Input, Exports(in), cwd' = cwd
  PROVE  CopiesOK' /\ AbstractStep
<1>1. CopiesOK' /\ \A n \in Name : Lookup(list', n) = Added(list, in, n)
  BY ExportsOK DEF CopiesOK
<1>2. in.key \in Name /\ in.eq \in BOOLEAN /\ in.val \in Value
  BY DEF Input
<1> DEFINE f == [n \in Name |-> Lookup(list, n)]
           g == [n \in Name |-> Lookup(list', n)]
<1>3. CASE in.eq
  <2>1. g = [f EXCEPT ![in.key] = g[in.key]] /\ g[in.key] \in Value
    BY <1>1, <1>2, <1>3 DEF Added
  <2>2. Abstract!Set(in.key)
    BY <2>1 DEF Abstract!Set
  <2> QED  BY <1>1, <1>2, <2>2 DEF AbstractStep, Abstract!Next
<1>4. CASE ~in.eq /\ Lookup(list, in.key) = Unset
  <2>1. g = [f EXCEPT ![in.key] = Declared] /\ f[in.key] = Unset
    BY <1>1, <1>2, <1>4 DEF Added
  <2>2. Abstract!Declare(in.key)
    BY <2>1 DEF Abstract!Declare
  <2> QED  BY <1>1, <1>2, <2>2 DEF AbstractStep, Abstract!Next
<1>5. CASE ~in.eq /\ Lookup(list, in.key) # Unset
  <2>1. g = f
    BY <1>1, <1>2, <1>5 DEF Added
  <2> QED  BY <1>1, <2>1 DEF AbstractStep, AbstractVars
<1> QED  BY <1>2, <1>3, <1>4, <1>5

(* Nothing that the abstract specification knows changes. *)
LEMMA QuietStep ==
  ASSUME IInv, UNCHANGED <<list, environ, cwd>>
  PROVE  CopiesOK' /\ AbstractStep
BY ListSame DEF CopiesOK, AbstractStep, AbstractVars

LEMMA ChangeDirStep ==
  ASSUME IInv, NEW d \in Dir, ChangeDir(d)
  PROVE  CopiesOK' /\ AbstractStep /\ cwd' \in Dir
<1>1. cwd \in Dir /\ OldPwd \in Name /\ <<cwd>> \in Value
  BY EnvironmentAssumption DEF IInv, TypeOK, Value
<1> DEFINE in == Assignment(OldPwd, <<cwd>>)
<1>2. in \in Input /\ in.key = OldPwd /\ in.eq /\ in.val = <<cwd>>
  BY <1>1, AssignmentType
<1>3. Exports(in) /\ cwd' = d
  BY DEF ChangeDir
<1> HIDE DEF in
<1>4. CopiesOK' /\ \A n \in Name : Lookup(list', n) = Added(list, in, n)
  BY <1>2, <1>3, ExportsOK DEF CopiesOK
<1>5. \A n \in Name : Lookup(list', n) = IF n = OldPwd THEN <<cwd>> ELSE Lookup(list, n)
  BY <1>2, <1>4 DEF Added
<1>6. [n \in Name |-> Lookup(list', n)]
        = [[n \in Name |-> Lookup(list, n)] EXCEPT ![OldPwd] = <<cwd>>]
  BY <1>1, <1>5
<1>7. Abstract!Move(d)
  BY <1>3, <1>6 DEF Abstract!Move
<1> QED  BY <1>3, <1>4, <1>7 DEF AbstractStep, Abstract!Next

(* The ways a cd ends. *)
LEMMA CdToStep ==
  ASSUME IInv, NEW v, CdTo(v) \/ CdFails
  PROVE  CopiesOK' /\ AbstractStep /\ cwd' \in Dir /\ todo' = Idle /\ status' \in {0, 1}
<1>1. cwd \in Dir /\ there \subseteq Dir
  BY DEF IInv, TypeOK
<1>2. CASE CdFails
  BY <1>1, <1>2, QuietStep DEF CdFails, Return
<1>3. CASE CdTo(v) /\ Goes(v)
  <2>1. v[1] \in Dir
    BY <1>1, <1>3 DEF Goes
  <2>2. ChangeDir(v[1]) /\ Return(0)
    BY <1>3 DEF CdTo
  <2> QED  BY <2>1, <2>2, ChangeDirStep DEF Return
<1>4. CASE CdTo(v) /\ ~Goes(v)
  BY <1>2, <1>4 DEF CdTo
<1> QED  BY <1>2, <1>3, <1>4

(* The arguments a builtin has left. *)
LEMMA TailOK ==
  ASSUME NEW S, NEW s \in Seq(S) \ {<<>>}
  PROVE  /\ Head(s) \in S
         /\ Len(s) # 1 => Tail(s) \in Seq(S) \ {<<>>}
<1>1. Len(s) \in Nat /\ Len(s) # 0 /\ DOMAIN s = 1 .. Len(s)
  BY EmptySeq
<1>2. Head(s) \in S /\ Tail(s) \in Seq(S) /\ Len(Tail(s)) = Len(s) - 1
  BY HeadTailProperties
<1>3. Len(s) # 1 => Len(Tail(s)) # 0
  BY <1>1, <1>2
<1> QED  BY <1>2, <1>3, EmptySeq

LEMMA ExportNextOK ==
  ASSUME IInv, ExportNext  PROVE IInv' /\ AbstractStep
<1>1. ControlOK
  BY IInvIs
<1>2. todo \in [op : {"export"}, args : Seq(Input) \ {<<>>}]
  BY <1>1 DEF ExportNext, ControlOK, Idle
<1> DEFINE in == Head(todo.args)
<1>3. in \in Input
  BY <1>2, TailOK
<1>4. CASE InvalidIdentifier(in)
  <2>1. UNCHANGED <<list, environ, cwd>> /\ Return(1) /\ UNCHANGED <<place, phase, nrc, ncmd>>
    BY <1>4 DEF ExportNext, place
  <2>2. CopiesOK' /\ AbstractStep
    BY <2>1, QuietStep
  <2>3. ControlOK'
    BY <1>1, <2>1 DEF ControlOK, Return, place
  <2> QED  BY <2>2, <2>3, IInvIs
<1>5. CASE ~InvalidIdentifier(in)
  <2>1. /\ Exports(in) /\ UNCHANGED <<place, phase, nrc, ncmd>>
        /\ IF Len(todo.args) = 1 THEN Return(0)
           ELSE todo' = [todo EXCEPT !.args = Tail(@)] /\ UNCHANGED status
    BY <1>5 DEF ExportNext
  <2>2. CopiesOK' /\ AbstractStep
    BY <1>3, <2>1, ExportsStep DEF place
  <2>3. CASE Len(todo.args) = 1
    BY <1>1, <2>1, <2>2, <2>3, IInvIs DEF ControlOK, Return, place
  <2>4. CASE Len(todo.args) # 1
    <3>1. Tail(todo.args) \in Seq(Input) \ {<<>>}
      BY <1>2, <2>4, TailOK
    <3>2. todo' \in [op : {"export"}, args : Seq(Input) \ {<<>>}]
      BY <1>2, <2>1, <2>4, <3>1
    <3>3. ControlOK'
      BY <1>1, <2>1, <2>4, <3>2 DEF ControlOK, place
    <3> QED  BY <2>2, <3>3, IInvIs
  <2> QED  BY <2>3, <2>4
<1> QED  BY <1>4, <1>5

LEMMA UnsetNextOK ==
  ASSUME IInv, UnsetNext  PROVE IInv' /\ AbstractStep
<1>1. ControlOK /\ CopiesOK
  BY IInvIs
<1>2. todo \in [op : {"unset"}, args : Seq(Name) \ {<<>>}]
  BY <1>1 DEF UnsetNext, UnsetStep, ControlOK, Idle
<1> DEFINE o == Head(todo.args)
<1>3. o \in Name
  BY <1>2, TailOK
<1>4. /\ list' = UnsetHelper(list, o) /\ UNCHANGED <<environ, place, phase, nrc, ncmd>>
      /\ IF Len(todo.args) = 1 THEN Return(0)
         ELSE todo' = [todo EXCEPT !.args = Tail(@)] /\ UNCHANGED status
  BY DEF UnsetNext, UnsetStep
<1>5. list \in Entries /\ Unique(list) /\ Agree(list, environ)
  BY <1>1, CopiesAgreeIs DEF CopiesOK, UniqueNames
<1>6. /\ list' \in Entries /\ Unique(list')
      /\ \A n \in Name : Lookup(list', n) = IF n = o THEN Unset ELSE Lookup(list, n)
  BY <1>3, <1>4, <1>5, LookupUnset
<1>7. Agree(list', environ')
  <2>1. \A n \in Name : Lookup(list', n) \notin {Unset, Declared}
                          => environ'[n] = Lookup(list', n)
    BY <1>4, <1>5, <1>6, AgreeIs
  <2> QED  BY <1>6, <2>1, AgreeIs
<1>8. CopiesOK'
  BY <1>1, <1>4, <1>6, <1>7, CopiesAgreeIs DEF CopiesOK, UniqueNames
<1>9. AbstractStep
  <2>1. [n \in Name |-> Lookup(list', n)]
          = [[n \in Name |-> Lookup(list, n)] EXCEPT ![o] = Unset]
    BY <1>3, <1>6
  <2>2. Abstract!Remove(o)
    BY <1>4, <2>1 DEF Abstract!Remove, place
  <2> QED  BY <1>3, <2>2 DEF AbstractStep, Abstract!Next
<1>10. ControlOK'
  <2>1. CASE Len(todo.args) = 1
    BY <1>1, <1>4, <2>1 DEF ControlOK, Return, place
  <2>2. CASE Len(todo.args) # 1
    <3>1. Tail(todo.args) \in Seq(Name) \ {<<>>}
      BY <1>2, <2>2, TailOK
    <3>2. todo' \in [op : {"unset"}, args : Seq(Name) \ {<<>>}]
      BY <1>2, <1>4, <2>2, <3>1
    <3> QED  BY <1>1, <1>4, <2>2, <3>2 DEF ControlOK, place
  <2> QED  BY <2>1, <2>2
<1> QED  BY <1>8, <1>9, <1>10, IInvIs

(* One command more. *)
LEMMA ReadyOK ==
  ASSUME ControlOK, Ready  PROVE ncmd' \in 0 .. MaxCommands
BY EnvironmentAssumption DEF ControlOK, Ready

LEMMA CommandOK ==
  ASSUME IInv, Command  PROVE IInv' /\ AbstractStep
<1>1. ControlOK
  BY IInvIs
<1>2. Ready /\ UNCHANGED <<list, environ, place, phase, nrc>>
  BY DEF Command
<1>3. CopiesOK' /\ AbstractStep
  BY <1>2, QuietStep DEF place
<1>4. ncmd' \in 0 .. MaxCommands
  BY <1>1, <1>2, ReadyOK
<1>5. ASSUME NEW S, NEW op, NEW args \in Seq(S), Start(op, args)
      PROVE  \/ todo' = Idle /\ status' = 0
             \/ todo' \in [op : {op}, args : Seq(S) \ {<<>>}] /\ status' = status
  BY <1>5 DEF Start, Return
<1>6. \/ \E args \in Seq(Input) : Start("export", args)
      \/ \E args \in Seq(Name) : Start("unset", args)
  BY EnvironmentAssumption DEF Command
<1>7. CASE \E args \in Seq(Input) : Start("export", args)
  <2>1. \/ todo' = Idle /\ status' = 0
        \/ todo' \in [op : {"export"}, args : Seq(Input) \ {<<>>}] /\ status' = status
    BY <1>5, <1>7
  <2>2. ControlOK'
    BY <1>1, <1>2, <1>4, <2>1 DEF ControlOK, place
  <2> QED  BY <1>3, <2>2, IInvIs
<1>8. CASE \E args \in Seq(Name) : Start("unset", args)
  <2>1. \/ todo' = Idle /\ status' = 0
        \/ todo' \in [op : {"unset"}, args : Seq(Name) \ {<<>>}] /\ status' = status
    BY <1>5, <1>8
  <2>2. ControlOK'
    BY <1>1, <1>2, <1>4, <2>1 DEF ControlOK, place
  <2> QED  BY <1>3, <2>2, IInvIs
<1> QED  BY <1>6, <1>7, <1>8

(* What every cd keeps, however it ends. *)
LEMMA CdEnds ==
  ASSUME IInv, Ready, CopiesOK', cwd' \in Dir, todo' = Idle, status' \in {0, 1},
         UNCHANGED <<there, gone, phase, nrc>>
  PROVE  IInv'
<1>1. ControlOK /\ ncmd' \in 0 .. MaxCommands
  BY IInvIs, ReadyOK
<1> QED  BY <1>1, IInvIs DEF ControlOK

LEMMA CdHomeOK ==
  ASSUME IInv, CdHome  PROVE IInv' /\ AbstractStep
<1>1. Ready /\ UNCHANGED <<there, gone, phase, nrc>>
  BY DEF CdHome
<1>2. CASE CdFails
  BY <1>1, <1>2, CdToStep, CdEnds
<1>3. CASE ~CdFails
  <2> DEFINE home == Lookup(list, Home)
             d == IF Goes(home) THEN home[1] ELSE cwd
  <2>1. ChangeDir(d) /\ Return(0)
    BY <1>3 DEF CdHome
  <2>2. d \in Dir
    BY DEF IInv, TypeOK, Goes
  <2> HIDE DEF d
  <2>3. CopiesOK' /\ AbstractStep /\ cwd' \in Dir
    BY <2>1, <2>2, ChangeDirStep
  <2> QED  BY <1>1, <2>1, <2>3, CdEnds DEF Return
<1> QED  BY <1>2, <1>3

LEMMA CdOK ==
  ASSUME IInv, NEW a \in CdArg, Cd(a)  PROVE IInv' /\ AbstractStep
<1>1. Ready /\ UNCHANGED <<there, gone, phase, nrc>>
  BY DEF Cd
<1>2. PICK v : CdTo(v) \/ CdFails
  BY DEF Cd
<1>3. CopiesOK' /\ AbstractStep /\ cwd' \in Dir /\ todo' = Idle /\ status' \in {0, 1}
  BY <1>2, CdToStep
<1> QED  BY <1>1, <1>3, CdEnds

LEMMA CdCrashesOK ==
  ASSUME IInv, CdCrashes  PROVE IInv' /\ AbstractStep
<1>1. ControlOK
  BY IInvIs
<1>2. /\ Ready /\ phase' = "crashed"
      /\ UNCHANGED <<list, environ, place, todo, status, nrc>>
  BY DEF CdCrashes
<1>3. ControlOK'
  BY <1>1, <1>2, ReadyOK DEF ControlOK, place
<1> QED  BY <1>2, <1>3, IInvIs, QuietStep DEF place

(* A program that is looked for, runs and ends: only todo and status.      *)
LEMMA ProgramOK ==
  ASSUME IInv, ExecCmd \/ Execve \/ ProgramEnds  PROVE IInv' /\ AbstractStep
<1>1. ControlOK
  BY IInvIs
<1>2. UNCHANGED <<list, environ, place, phase, nrc>>
  BY DEF ExecCmd, Execve, ProgramEnds
<1>3. ncmd' \in 0 .. MaxCommands
  <2>1. CASE ExecCmd
    BY <1>1, <2>1, ReadyOK DEF ExecCmd
  <2>2. CASE Execve \/ ProgramEnds
    BY <1>1, <2>2 DEF Execve, ProgramEnds, ControlOK
  <2> QED  BY <2>1, <2>2
<1>4. /\ \/ todo' = Idle
         \/ todo' \in [op : {"name", "path", "runs"}, args : Found]
      /\ status' \in {0, 1, 127}
  <2>1. CASE ExecCmd
    BY <1>1, <2>1 DEF ExecCmd, ControlOK
  <2>2. CASE Execve
    <3>1. todo \in [op : {"name", "path", "runs"}, args : Found]
      BY <1>1, <2>2 DEF Execve, ControlOK, Idle
    <3>2. CASE todo' = [todo EXCEPT !.op = "runs"] /\ UNCHANGED status
      BY <1>1, <3>1, <3>2 DEF ControlOK
    <3>3. CASE Return(127)
      BY <3>3 DEF Return
    <3> QED  BY <2>2, <3>2, <3>3 DEF Execve
  <2>3. CASE ProgramEnds
    BY <2>3 DEF ProgramEnds, Return
  <2> QED  BY <2>1, <2>2, <2>3
<1>5. ControlOK'
  BY <1>1, <1>2, <1>3, <1>4 DEF ControlOK, place
<1> QED  BY <1>2, <1>5, IInvIs, QuietStep DEF place

LEMMA GetPromptStrOK ==
  ASSUME IInv, GetPromptStr  PROVE IInv' /\ AbstractStep
<1>1. ControlOK
  BY IInvIs
<1>2. /\ phase' = "crashed"
      /\ UNCHANGED <<list, environ, place, todo, status, nrc, ncmd>>
  BY DEF GetPromptStr
<1>3. ControlOK'
  BY <1>1, <1>2 DEF ControlOK, place
<1> QED  BY <1>2, <1>3, IInvIs, QuietStep DEF place

LEMMA SetPathOK ==
  ASSUME IInv, SetPath  PROVE IInv' /\ AbstractStep
<1>1. ControlOK /\ CopiesOK
  BY IInvIs
<1>2. PICK v \in RcValue : Exports(Assignment(Path, NewPath(v, environ)))
  BY DEF SetPath
<1>3. NewPath(v, environ) \in Value /\ Path \in Name
  <2>1. v \in Seq(Dir) /\ Path \in Name
    BY EnvironmentAssumption DEF Value
  <2>2. (IF environ[Path] = Unset THEN <<>> ELSE environ[Path]) \in Seq(Dir)
    BY <1>1, <2>1 DEF CopiesOK, Value
  <2> QED  BY <2>1, <2>2, ConcatProperties DEF NewPath, Value
<1> DEFINE in == Assignment(Path, NewPath(v, environ))
<1>4. in \in Input
  BY <1>3, AssignmentType
<1>5. Exports(in)
  BY <1>2
<1> HIDE DEF in
<1>6. /\ nrc < MaxRc /\ nrc' = nrc + 1
      /\ UNCHANGED <<place, todo, status, phase, ncmd>>
  BY DEF SetPath
<1>7. CopiesOK' /\ AbstractStep
  BY <1>4, <1>5, <1>6, ExportsStep DEF place
<1>8. nrc' \in 0 .. MaxRc
  BY <1>1, <1>6, EnvironmentAssumption DEF ControlOK
<1>9. ControlOK'
  BY <1>1, <1>6, <1>8 DEF ControlOK, place
<1> QED  BY <1>7, <1>9, IInvIs

LEMMA EndOfRcOK ==
  ASSUME IInv, EndOfRc  PROVE IInv' /\ AbstractStep
<1>1. ControlOK
  BY IInvIs
<1>2. phase' = "prompt" /\ UNCHANGED <<list, environ, place, todo, status, nrc, ncmd>>
  BY DEF EndOfRc
<1>3. ControlOK'
  BY <1>1, <1>2 DEF ControlOK, place
<1> QED  BY <1>2, <1>3, IInvIs, QuietStep DEF place

LEMMA OthersOK ==
  ASSUME IInv, NEW d \in Fragile, Rmdir(d) \/ Mkdir(d)  PROVE IInv' /\ AbstractStep
<1>1. ControlOK /\ d \in Dir
  BY IInvIs, EnvironmentAssumption
<1>2. /\ UNCHANGED <<list, environ, cwd, todo, status, phase, nrc, ncmd>>
      /\ there' \in {there \ {d}, there \cup {d}} /\ gone' \in {gone, gone \/ d = cwd}
  BY DEF Rmdir, Mkdir
<1>3. there' \subseteq Dir
  BY <1>1, <1>2 DEF ControlOK
<1>4. gone' \in BOOLEAN
  <2>1. gone \in BOOLEAN /\ (gone' = gone \/ gone' = (gone \/ d = cwd))
    BY <1>1, <1>2 DEF ControlOK
  <2> QED  BY <2>1
<1>5. ControlOK'
  BY <1>1, <1>2, <1>3, <1>4 DEF ControlOK
<1> QED  BY <1>2, <1>5, IInvIs, QuietStep

LEMMA StutterOK ==
  ASSUME IInv, UNCHANGED vars  PROVE IInv' /\ AbstractStep
<1>1. ControlOK /\ UNCHANGED <<list, environ, cwd, there, gone, todo, status, phase, nrc, ncmd>>
  BY IInvIs DEF vars
<1>2. ControlOK'
  BY <1>1 DEF ControlOK
<1> QED  BY <1>1, <1>2, IInvIs, QuietStep

LEMMA StepOK ==
  ASSUME IInv, [Next]_vars  PROVE IInv' /\ AbstractStep
<1>1. CASE Command
  BY <1>1, CommandOK
<1>2. CASE ExportNext
  BY <1>2, ExportNextOK
<1>3. CASE UnsetNext
  BY <1>3, UnsetNextOK
<1>4. CASE CdHome
  BY <1>4, CdHomeOK
<1>5. CASE CdCrashes
  BY <1>5, CdCrashesOK
<1>6. CASE \E a \in CdArg : Cd(a)
  BY <1>6, CdOK
<1>7. CASE SetPath
  BY <1>7, SetPathOK
<1>8. CASE EndOfRc
  BY <1>8, EndOfRcOK
<1>9. CASE \E d \in Fragile : Rmdir(d) \/ Mkdir(d)
  BY <1>9, OthersOK
<1>10. CASE UNCHANGED vars
  BY <1>10, StutterOK
<1>11. CASE ExecCmd \/ Execve \/ ProgramEnds
  BY <1>11, ProgramOK
<1>12. CASE GetPromptStr
  BY <1>12, GetPromptStrOK
<1> QED
  BY <1>1, <1>2, <1>3, <1>4, <1>5, <1>6, <1>7, <1>8, <1>9, <1>10, <1>11, <1>12 DEF Next

(* The environment of the C library changes through setenv alone. *)
LEMMA OnlySetenv ==
  ASSUME IInv, [Next]_vars
  PROVE  UNCHANGED environ \/ \E in \in Input : Exports(in)
<1>1. CASE ExportNext
  <2>1. todo \in [op : {"export"}, args : Seq(Input) \ {<<>>}]
    BY <1>1 DEF ExportNext, IInv, TypeOK, Idle
  <2>2. Head(todo.args) \in Input
    BY <2>1, TailOK
  <2>3. UNCHANGED environ \/ Exports(Head(todo.args))
    BY <1>1 DEF ExportNext
  <2> QED  BY <2>2, <2>3
<1>2. CASE SetPath
  <2>1. PICK v \in RcValue : Exports(Assignment(Path, NewPath(v, environ)))
    BY <1>2 DEF SetPath
  <2>2. v \in Seq(Dir) /\ Path \in Name
    BY EnvironmentAssumption DEF Value
  <2>3. (IF environ[Path] = Unset THEN <<>> ELSE environ[Path]) \in Seq(Dir)
    BY <2>2 DEF IInv, TypeOK, Value
  <2>4. NewPath(v, environ) \in Value
    BY <2>2, <2>3, ConcatProperties DEF NewPath, Value
  <2> QED  BY <2>1, <2>2, <2>4, AssignmentType
<1>3. ASSUME NEW d, ChangeDir(d)
      PROVE  \E in \in Input : Exports(in)
  <2>1. OldPwd \in Name /\ <<cwd>> \in Value
    BY EnvironmentAssumption DEF IInv, TypeOK, Value
  <2> QED  BY <1>3, <2>1, AssignmentType DEF ChangeDir
<1>4. CASE CdHome \/ \E a \in CdArg : Cd(a)
  <2>1. CdFails \/ \E d : ChangeDir(d)
    BY <1>4 DEF CdHome, Cd, CdTo
  <2> QED  BY <1>3, <2>1 DEF CdFails
<1>5. CASE GetPromptStr \/ Command \/ UnsetNext \/ CdCrashes \/ EndOfRc
  BY <1>5 DEF GetPromptStr, Command, UnsetNext, CdCrashes, EndOfRc
<1>6. CASE ExecCmd \/ Execve \/ ProgramEnds
  BY <1>6 DEF ExecCmd, Execve, ProgramEnds
<1>7. CASE \E d \in Fragile : Rmdir(d) \/ Mkdir(d)
  BY <1>7 DEF Rmdir, Mkdir
<1>8. CASE UNCHANGED vars
  BY <1>8 DEF vars
<1> QED  BY <1>1, <1>2, <1>4, <1>5, <1>6, <1>7, <1>8 DEF Next

LEMMA HomeStep ==
  ASSUME IInv, [Next]_vars, environ[Home] # Unset
  PROVE  environ'[Home] # Unset
<1>1. CASE UNCHANGED environ
  BY <1>1
<1>2. CASE \E in \in Input : Exports(in)
  <2>1. PICK in \in Input : Exports(in)
    BY <1>2
  <2>2. in.key \in Name /\ in.val \in Value /\ Home \in Name /\ Unset \notin Value
    BY EnvironmentAssumption DEF Input
  <2>3. environ \in [Name -> Value \cup {Unset}]
    BY DEF IInv, TypeOK
  <2> QED  BY <2>1, <2>2, <2>3 DEF Exports, SetEnv
<1> QED  BY <1>1, <1>2, OnlySetenv

(* A directory is only left through set_old_pwd(). *)
LEMMA ChangeDirRecords ==
  ASSUME IInv, NEW d \in Dir, ChangeDir(d)
  PROVE  Lookup(list', OldPwd) = <<cwd>>
<1>1. cwd \in Dir /\ OldPwd \in Name /\ <<cwd>> \in Value
  BY EnvironmentAssumption DEF IInv, TypeOK, Value
<1> DEFINE in == Assignment(OldPwd, <<cwd>>)
<1>2. in \in Input /\ in.key = OldPwd /\ in.eq /\ in.val = <<cwd>>
  BY <1>1, AssignmentType
<1>3. Exports(in)
  BY DEF ChangeDir
<1> HIDE DEF in
<1>4. Lookup(list', OldPwd) = Added(list, in, OldPwd)
  BY <1>1, <1>2, <1>3, ExportsOK
<1> QED  BY <1>2, <1>4 DEF Added

LEMMA OldPwdStep ==
  ASSUME IInv, [Next]_vars, cwd' # cwd
  PROVE  Lookup(list', OldPwd) = <<cwd>>
<1>1. PICK d \in Dir : ChangeDir(d)
  <2>1. cwd \in Dir /\ there \subseteq Dir
    BY DEF IInv, TypeOK
  <2>2. CASE CdHome
    <3>1. ~CdFails
      BY DEF CdFails
    <3> DEFINE home == Lookup(list, Home)
               d == IF Goes(home) THEN home[1] ELSE cwd
    <3>2. ChangeDir(d) /\ d \in Dir
      BY <2>1, <2>2, <3>1 DEF CdHome, Goes
    <3> QED  BY <3>2
  <2>3. CASE \E a \in CdArg : Cd(a)
    <3>1. PICK v : CdTo(v) \/ CdFails
      BY <2>3 DEF Cd
    <3>2. ~CdFails
      BY DEF CdFails
    <3>3. ChangeDir(v[1]) /\ v[1] \in Dir
      BY <2>1, <3>1, <3>2 DEF CdTo, Goes
    <3> QED  BY <3>3
  <2>4. CASE Command \/ ExportNext \/ UnsetNext
    BY <2>4 DEF Command, ExportNext, UnsetNext, place
  <2>5. CASE GetPromptStr \/ CdCrashes \/ SetPath \/ EndOfRc
    BY <2>5 DEF GetPromptStr, CdCrashes, SetPath, EndOfRc, place
  <2>6. CASE \E d \in Fragile : Rmdir(d) \/ Mkdir(d)
    BY <2>6 DEF Rmdir, Mkdir
  <2>7. CASE UNCHANGED vars
    BY <2>7 DEF vars
  <2>8. CASE ExecCmd \/ Execve \/ ProgramEnds
    BY <2>8 DEF ExecCmd, Execve, ProgramEnds, place
  <2> QED  BY <2>2, <2>3, <2>4, <2>5, <2>6, <2>7, <2>8 DEF Next
<1> QED  BY <1>1, ChangeDirRecords

(***************************************************************************)
(* The search for a program.                                               *)
(***************************************************************************)
(* Between the search and execve(): what was found is in the PATH of the   *)
(* array, and what stands before it was not there for good.                *)
FoundIn(path, d) ==
  \E i \in DOMAIN path :
    /\ path[i] = d /\ Installed[d] # "nothing"
    /\ \A j \in 1 .. i - 1 : path[j] \in Fragile \/ Installed[path[j]] = "nothing"
SearchOK ==
  todo.op = "name" =>
    /\ \A d \in Dir : todo.args = <<d>> => \E path \in Given(Path) : FoundIn(path, d)
    /\ todo.args = <<>> => \A path \in Given(Path) : \A i \in DOMAIN path :
         path[i] \in Fragile \/ Installed[path[i]] = "nothing"
LookupInv == IInv /\ Dir \ Fragile \subseteq there /\ SearchOK

(* The array has one value for a name, the one existed_env() finds.        *)
LEMMA GivenIs ==
  ASSUME IInv
  PROVE  Given(Path) = IF Existed(Path) THEN {Lookup(list, Path)} ELSE {}
<1>1. list \in Entries /\ Unique(list) /\ Path \in Name
  BY EnvironmentAssumption DEF IInv, TypeOK, UniqueNames, Entries
<1>2. CASE Path \notin Names(list)
  <2>1. Given(Path) = {} /\ ~Existed(Path)
    BY <1>2 DEF Given, Existed, Lookup, Names
  <2> QED  BY <2>1
<1>3. CASE Path \in Names(list)
  <2>1. PICK k \in DOMAIN list : list[k].key = Path
    BY <1>3 DEF Names
  <2>2. \A i \in DOMAIN list : list[i].key = Path => i = k
    BY <1>1, <2>1 DEF Unique
  <2>3. Lookup(list, Path) = list[k].val /\ list[k].val # Unset
    BY <1>1, <1>3, <2>1, LookupIs, LookupType
  <2>4. Given(Path) = {list[k].val} \ {Declared}
    BY <2>1, <2>2 DEF Given
  <2>5. Existed(Path) <=> list[k].val # Declared
    BY <2>3 DEF Existed
  <2> QED  BY <2>3, <2>4, <2>5
<1> QED  BY <1>2, <1>3

LEMMA PathIs ==
  ASSUME IInv, NEW i \in DOMAIN FindPath
  PROVE  Given(Path) = {FindPath} /\ FindPath \in Seq(Dir)
<1>1. CASE ~Existed(Path)
  BY <1>1 DEF FindPath
<1>2. CASE Existed(Path)
  <2>1. list \in Entries /\ Unique(list) /\ Path \in Name
    BY EnvironmentAssumption DEF IInv, TypeOK, UniqueNames, Entries
  <2>2. FindPath = Lookup(list, Path) /\ FindPath \in Value
    BY <1>2, <2>1, LookupType DEF FindPath, Existed
  <2> QED  BY <1>2, <2>2, GivenIs DEF Value
<1> QED  BY <1>1, <1>2

LEMMA GivenSeq ==
  ASSUME IInv, NEW path \in Given(Path)
  PROVE  path \in Seq(Dir) /\ DOMAIN path \subseteq Nat \ {0}
<1>1. list \in Entries /\ Unique(list) /\ Path \in Name
  BY EnvironmentAssumption DEF IInv, TypeOK, UniqueNames, Entries
<1>2. path = Lookup(list, Path) /\ Existed(Path)
  BY GivenIs
<1>3. path \in Seq(Dir)
  BY <1>1, <1>2, LookupType DEF Existed, Value
<1> QED  BY <1>3

LEMMA ExecCmdFinds ==
  ASSUME LookupInv, ExecCmd  PROVE SearchOK'
<1>1. PICK op \in {"name", "path"}, found \in Found :
        GetExePath(op, found) /\ todo' = [op |-> op, args |-> found]
  BY DEF ExecCmd
<1>2. Given(Path)' = Given(Path)
  BY DEF ExecCmd, Given
<1>3. CASE op = "path"
  BY <1>1, <1>3 DEF SearchOK
<1>4. CASE op = "name"
  <2>1. JoinPath(FindPath, found) /\ todo'.args = found
    BY <1>1, <1>4 DEF GetExePath
  <2>2. ASSUME NEW i \in DOMAIN FindPath, ~HasFile(FindPath[i])
        PROVE  FindPath[i] \in Fragile \/ Installed[FindPath[i]] = "nothing"
    <3>1. FindPath[i] \in Dir
      BY PathIs DEF LookupInv
    <3> QED  BY <2>2, <3>1 DEF LookupInv, HasFile
  <2>3. CASE found = <<>> /\ \A i \in DOMAIN FindPath : ~HasFile(FindPath[i])
    <3>1. ASSUME NEW path \in Given(Path)  PROVE path = FindPath
      BY GivenIs DEF LookupInv, FindPath
    <3>2. \A d \in Dir : todo'.args # <<d>>
      BY <2>1, <2>3
    <3> QED  BY <1>2, <2>1, <2>2, <2>3, <3>1, <3>2 DEF SearchOK
  <2>4. CASE \E i \in DOMAIN FindPath :
               /\ HasFile(FindPath[i]) /\ \A j \in 1 .. i - 1 : ~HasFile(FindPath[j])
               /\ found = <<FindPath[i]>>
    <3>1. PICK i \in DOMAIN FindPath :
               /\ HasFile(FindPath[i]) /\ \A j \in 1 .. i - 1 : ~HasFile(FindPath[j])
               /\ found = <<FindPath[i]>>
      BY <2>4
    <3>2. Given(Path) = {FindPath} /\ FindPath \in Seq(Dir)
      BY PathIs DEF LookupInv
    <3>3. \A j \in 1 .. i - 1 : j \in DOMAIN FindPath
      BY <3>2
    <3>4. FoundIn(FindPath, FindPath[i])
      BY <2>2, <3>1, <3>3 DEF FoundIn, HasFile
    <3>5. found # <<>> /\ \A d \in Dir : found = <<d>> => d = FindPath[i]
      BY <3>1
    <3> QED  BY <1>2, <2>1, <3>2, <3>4, <3>5 DEF SearchOK, FoundIn
  <2> QED  BY <2>1, <2>3, <2>4 DEF JoinPath
<1> QED  BY <1>1, <1>3, <1>4

LEMMA LookupStep ==
  ASSUME LookupInv, [Next]_vars  PROVE LookupInv'
<1>1. IInv'
  BY StepOK DEF LookupInv
<1>2. (Dir \ Fragile \subseteq there)'
  <2>1. CASE \E d \in Fragile : Rmdir(d) \/ Mkdir(d)
    BY <2>1 DEF Rmdir, Mkdir, LookupInv
  <2>2. CASE there' = there
    BY <2>2 DEF LookupInv
  <2>3. CASE Command \/ ExportNext \/ UnsetNext \/ ExecCmd \/ Execve \/ ProgramEnds
    BY <2>2, <2>3 DEF Command, ExportNext, UnsetNext, ExecCmd, Execve, ProgramEnds, place
  <2>4. CASE GetPromptStr \/ CdHome \/ CdCrashes \/ SetPath \/ EndOfRc
               \/ \E a \in CdArg : Cd(a)
    BY <2>2, <2>4 DEF GetPromptStr, CdHome, CdCrashes, SetPath, EndOfRc, Cd, place
  <2>5. CASE UNCHANGED vars
    BY <2>2, <2>5 DEF vars
  <2> QED  BY <2>1, <2>3, <2>4, <2>5 DEF Next
<1>3. SearchOK'
  <2>1. CASE ExecCmd
    BY <2>1, ExecCmdFinds
  <2>2. CASE UNCHANGED <<list, todo>>
    BY <2>2 DEF LookupInv, SearchOK, Given
  <2>3. CASE todo'.op # "name"
    BY <2>3 DEF SearchOK
  <2>4. CASE CdHome \/ CdCrashes \/ \E a \in CdArg : Cd(a)
    <3>1. todo' \in {todo, Idle} /\ todo = Idle
      BY <2>4 DEF CdHome, CdCrashes, Cd, CdTo, CdFails, Return, Ready
    <3> QED  BY <2>3, <3>1 DEF Idle
  <2>5. CASE Command
    BY <2>3, <2>5 DEF Command, Start, Return, Idle
  <2>6. CASE ExportNext \/ UnsetNext
    <3>1. todo \in [op : {"export"}, args : Seq(Input) \ {<<>>}]
            \/ todo \in [op : {"unset"}, args : Seq(Name) \ {<<>>}]
      BY <2>6 DEF ExportNext, UnsetNext, UnsetStep, LookupInv, IInv, TypeOK, Idle
    <3>2. todo' = Idle \/ todo' = [todo EXCEPT !.args = Tail(@)]
      BY <2>6 DEF ExportNext, UnsetNext, UnsetStep, Return
    <3> QED  BY <2>3, <3>1, <3>2 DEF Idle
  <2>7. CASE Execve \/ ProgramEnds
    <3>1. todo \in [op : {"name", "path", "runs"}, args : Found]
      BY <2>7 DEF Execve, ProgramEnds, LookupInv, IInv, TypeOK, Idle
    <3>2. todo' = Idle \/ todo' = [todo EXCEPT !.op = "runs"]
      BY <2>7 DEF Execve, ProgramEnds, Return
    <3> QED  BY <2>3, <3>1, <3>2 DEF Idle
  <2>8. CASE GetPromptStr \/ SetPath \/ EndOfRc
    BY <2>3, <2>8 DEF GetPromptStr, SetPath, EndOfRc, Idle
  <2>9. CASE \E d \in Fragile : Rmdir(d) \/ Mkdir(d)
    BY <2>2, <2>9 DEF Rmdir, Mkdir
  <2>10. CASE UNCHANGED vars
    BY <2>2, <2>10 DEF vars
  <2> QED  BY <2>1, <2>4, <2>5, <2>6, <2>7, <2>8, <2>9, <2>10 DEF Next
<1> QED  BY <1>1, <1>2, <1>3 DEF LookupInv

(* execve() after the search. *)
LEMMA ExecveFinds ==
  ASSUME LookupInv, Execve, todo.op = "name"
  PROVE  Answer
<1>1. todo \in [op : {"name", "path", "runs"}, args : Found]
  BY DEF LookupInv, IInv, TypeOK, Idle
<1>2. CASE todo.args = <<>>
  <2>1. todo' = Idle
    BY <1>2 DEF Execve, Return
  <2>2. \A path \in Given(Path) : \A i \in DOMAIN path :
          path[i] \in Fragile \/ Installed[path[i]] = "nothing"
    BY <1>2 DEF LookupInv, SearchOK
  <2>3. ASSUME NEW path \in Given(Path), NEW i \in DOMAIN path,
               Installed[path[i]] = "program"
        PROVE  \E j \in 1 .. i : path[j] \in Fragile
    <3>1. path[i] \in Fragile /\ i \in 1 .. i
      BY <2>2, <2>3, GivenSeq DEF LookupInv
    <3> QED  BY <3>1
  <2> QED  BY <2>1, <2>3 DEF Idle, Answer
<1>3. CASE todo.args # <<>>
  <2>1. PICK d \in Dir : todo.args = <<d>>
    BY <1>1, <1>3 DEF Found
  <2>2. PICK p \in Given(Path) : FoundIn(p, d)
    BY <2>1 DEF LookupInv, SearchOK
  <2>3. PICK k \in DOMAIN p :
          /\ p[k] = d /\ Installed[d] # "nothing"
          /\ \A j \in 1 .. k - 1 : p[j] \in Fragile \/ Installed[p[j]] = "nothing"
    BY <2>2 DEF FoundIn
  <2>4. CASE HasProgram(d)
    <3>1. todo' = [todo EXCEPT !.op = "runs"] /\ Installed[d] = "program"
      BY <1>3, <2>1, <2>4 DEF Execve, HasProgram
    <3>2. todo'.args = <<p[k]>> /\ todo' # Idle
      BY <1>1, <2>1, <2>3, <3>1 DEF Idle
    <3> QED  BY <2>3, <3>1, <3>2 DEF Answer, FirstFile
  <2>5. CASE ~HasProgram(d)
    <3>1. todo' = Idle
      BY <1>3, <2>1, <2>5 DEF Execve, Return
    <3>2. d \in Fragile \/ Installed[d] = "plain"
      BY <2>3, <2>5, EnvironmentAssumption DEF HasProgram, LookupInv
    <3>3. ASSUME NEW path \in Given(Path), ~Refused(path), NEW i \in DOMAIN path,
                 Installed[path[i]] = "program"
          PROVE  \E j \in 1 .. i : path[j] \in Fragile
      <4>1. path = p /\ i \in Nat \ {0} /\ k \in Nat \ {0}
        BY GivenIs, GivenSeq DEF LookupInv
      <4>2. CASE i < k
        <5>1. path[i] \in Fragile /\ i \in 1 .. i
          BY <2>3, <3>3, <4>1, <4>2
        <5> QED  BY <5>1
      <4>3. CASE k <= i
        <5>1. Installed[d] # "plain"
          BY <2>3, <3>3, <4>1 DEF Refused, FirstFile
        <5>2. path[k] \in Fragile /\ k \in 1 .. i
          BY <2>3, <3>2, <4>1, <4>3, <5>1
        <5> QED  BY <5>2
      <4> QED  BY <4>1, <4>2, <4>3
    <3> QED  BY <3>1, <3>3 DEF Idle, Answer
  <2> QED  BY <2>4, <2>5
<1> QED  BY <1>2, <1>3

(* No other step touches a word that has been looked for.                  *)
LEMMA NameOnlyExecve ==
  ASSUME LookupInv, [Next]_vars
  PROVE  [todo.op = "name" => Answer]_vars
<1>1. CASE Execve
  BY <1>1, ExecveFinds
<1>2. CASE todo.op # "name"
  BY <1>2
<1>3. CASE todo' = todo
  <2>1. todo.op = "name" => todo'.op # "runs" /\ todo' # Idle
    BY <1>3 DEF Idle
  <2> QED  BY <2>1 DEF Answer
<1>4. CASE Command \/ ExecCmd \/ CdHome \/ CdCrashes \/ \E a \in CdArg : Cd(a)
  <2>1. todo = Idle
    BY <1>4 DEF Command, ExecCmd, CdHome, CdCrashes, Cd, Ready
  <2>2. todo.op # "name"
    BY <2>1 DEF Idle
  <2> QED  BY <1>2, <2>2
<1>5. CASE ExportNext \/ UnsetNext \/ ProgramEnds
  <2>1. todo.op # "name"
    BY <1>5 DEF ExportNext, UnsetNext, UnsetStep, ProgramEnds
  <2> QED  BY <1>2, <2>1
<1>6. CASE GetPromptStr \/ SetPath \/ EndOfRc \/ \E d \in Fragile : Rmdir(d) \/ Mkdir(d)
  <2>1. todo' = todo
    BY <1>6 DEF GetPromptStr, SetPath, EndOfRc, Rmdir, Mkdir
  <2> QED  BY <1>3, <2>1
<1>7. CASE UNCHANGED vars
  BY <1>7
<1> QED  BY <1>1, <1>4, <1>5, <1>6, <1>7 DEF Next

(***************************************************************************)
(* The theorems.                                                           *)
(***************************************************************************)
(* The inductive invariant holds: no name is ever twice in the list, the   *)
(* list and the C library's environment agree.                             *)
THEOREM EnvironmentInvariance == Spec => []IInv
<1>1. IInv /\ [Next]_vars => IInv'
  BY StepOK
<1> QED  BY InitOK, <1>1, PTL DEF Spec

(* The builtins never leave the list, the two places or the arguments that *)
(* are left in a state of another type: a builtin that runs always has an  *)
(* argument to look at.                                                    *)
THEOREM EnvironmentTyped == Spec => []TypeOK
<1>1. IInv => TypeOK
  BY DEF IInv
<1> QED  BY EnvironmentInvariance, <1>1, PTL

(* add_link_list(), unset_helper() and the rc file's set_path() never put  *)
(* a name into the list a second time.                                     *)
THEOREM NamesStayUnique == Spec => []UniqueNames
<1>1. IInv => UniqueNames
  BY DEF IInv
<1> QED  BY EnvironmentInvariance, <1>1, PTL

(* A program finds in the environment env_list_to_arr() builds for it what *)
(* the shell finds with getenv.                                            *)
THEOREM TwoCopiesAgree == Spec => []CopiesAgree
<1>1. IInv => CopiesAgree
  BY DEF IInv
<1> QED  BY EnvironmentInvariance, <1>1, PTL

(* What getenv("HOME") has found once it finds at every later prompt,      *)
(* whatever export, unset, cd and the rc file did in between.              *)
THEOREM HomeStays == Spec => PromptHasHome
<1>1. IInv /\ [Next]_vars => [environ[Home] # Unset => environ'[Home] # Unset]_vars
  BY HomeStep
<1> QED  BY EnvironmentInvariance, <1>1, PTL DEF Spec, PromptHasHome

(* cd leaves a directory only with OLDPWD naming it in the list.           *)
THEOREM OldPwdRecorded == Spec => OldPwdFollows
<1>1. IInv /\ [Next]_vars => [cwd' # cwd => Lookup(list', OldPwd) = <<cwd>>]_vars
  BY OldPwdStep
<1> QED  BY EnvironmentInvariance, <1>1, PTL DEF Spec, OldPwdFollows

(* A program that is found by name comes from the PATH in the array it is  *)
(* given, and a program there is only passed over for a file that cannot be*)
(* executed, for any values of PATH and any installed programs: no export, *)
(* unset or rc line between makes the shell search another PATH than the   *)
(* program sees.                                                           *)
THEOREM FoundAsGivenHolds == Spec => FoundAsGiven
<1>1. Init => LookupInv
  BY InitOK DEF Init, LookupInv, SearchOK, Idle
<1>2. LookupInv /\ [Next]_vars => LookupInv'
  BY LookupStep
<1>3. LookupInv /\ [Next]_vars =>
        [todo.op = "name" => Answer]_vars
  BY NameOnlyExecve
<1> QED  BY <1>1, <1>2, <1>3, PTL DEF Spec, FoundAsGiven

(* The list of the shell implements a function from names to values in     *)
(* which export, unset, cd and the rc file change one name at a time.      *)
THEOREM ListImplementsVariables == Spec => ImplementsVariables
<1>1. Init => Abstract!Init
  <2> SUFFICES ASSUME Init  PROVE Abstract!Init
    OBVIOUS
  <2>1. list \in Entries /\ Unique(list) /\ cwd \in Dir
    BY InitOK DEF IInv, TypeOK, UniqueNames, Entries
  <2>2. \A n \in Name : Lookup(list, n) \in Value \cup {Unset, Declared}
    BY <2>1, LookupType
  <2> QED  BY <2>1, <2>2 DEF Abstract!Init
<1>2. IInv /\ [Next]_vars => [Abstract!Next]_AbstractVars
  BY StepOK DEF AbstractStep
<1> QED
  BY EnvironmentInvariance, <1>1, <1>2, PTL
     DEF Spec, ImplementsVariables, Abstract!Spec, AbstractVars
=============================================================================
