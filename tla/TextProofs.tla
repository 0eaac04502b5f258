----------------------------- MODULE TextProofs -----------------------------
(***************************************************************************)
(* A theorem about the lexer, for every line: TokensFit.                   *)
(*                                                                         *)
(* count_token() walks over the whole text before cmd_modifier() does, and *)
(* count_char() or count_sp_char() over each token before it is copied.    *)
(* The proof is that each pass ends a token where the other one does, and  *)
(* that the number of tokens count_token() finds from there on is what is  *)
(* left of the array.                                                      *)
(***************************************************************************)
EXTENDS Text, NaturalsInduction, WellFoundedInduction, SequenceTheorems, TLAPS

(***************************************************************************)
(* Induction, without an operator for the formula.                         *)
(***************************************************************************)
LEMMA MinIs ==
  ASSUME NEW S \in SUBSET Nat, S # {}
  PROVE  Min(S) \in S /\ \A y \in S : Min(S) <= y
<1> DEFINE Less == {ss \in Nat \X Nat : ss[1] < ss[2]}
<1>1. IsWellFoundedOn(Less, Nat)
  BY NatLessThanWellFounded DEF OpToRel
<1>2. \E x \in S : \A y \in S : <<y, x>> \notin Less
  <2> HIDE DEF Less
  <2> QED  BY <1>1, WFMin
<1>3. PICK x \in S : \A y \in S : ~ (y < x)
  BY <1>2
<1>4. \A y \in S : x <= y
  BY <1>3
<1> QED  BY <1>4 DEF Min

LEMMA Induction ==
  ASSUME NEW S \in SUBSET Nat, 0 \in S, \A k \in S : k + 1 \in S
  PROVE  S = Nat
<1>1. SUFFICES ASSUME Nat \ S # {}  PROVE FALSE
  OBVIOUS
<1> DEFINE x == Min(Nat \ S)
<1>2. x \in Nat \ S /\ \A y \in Nat \ S : x <= y
  BY <1>1, MinIs
<1> HIDE DEF x
<1>3. x # 0 /\ x - 1 \in Nat /\ ~(x <= x - 1)
  BY <1>2
<1>4. x - 1 \in S
  BY <1>2, <1>3
<1> QED  BY <1>2, <1>3, <1>4

(* The greatest of a bounded set of numbers. *)
LEMMA MaxIs ==
  ASSUME NEW n \in Nat, NEW S \in SUBSET (1 .. n), S # {}
  PROVE  Max(S) \in S /\ \A y \in S : Max(S) >= y
<1> DEFINE T == {n - y : y \in S}
<1>1. T \in SUBSET Nat /\ T # {}
  <2>1. \A y \in S : n - y \in Nat /\ n - y \in T
    OBVIOUS
  <2> QED  BY <2>1
<1>2. PICK x \in S : Min(T) = n - x
  BY <1>1, MinIs
<1>3. \A y \in S : x >= y
  <2>1. ASSUME NEW y \in S  PROVE x >= y
    <3>1. n - y \in T
      OBVIOUS
    <3>2. n - x <= n - y
      <4> HIDE DEF T
      <4> QED  BY <1>1, <1>2, <3>1, MinIs
    <3> QED  BY <3>2
  <2> QED  BY <2>1
<1> QED  BY <1>3 DEF Max

(***************************************************************************)
(* The passes over a quoted part, and up to a character.                   *)
(***************************************************************************)
LEMMA AtIs ==
  ASSUME NEW s \in CStrings, NEW i \in Int
  PROVE  /\ At(s, i) # Nul => i \in 1 .. Len(s) /\ At(s, i) = s[i]
         /\ At(s, i) = Nul => i \notin 1 .. Len(s)
BY TextAssumption DEF At, CStrings

LEMMA QuoteCountIs ==
  ASSUME NEW s \in CStrings, NEW i \in 1 .. Len(s)
  PROVE  \/ QuoteCount(s, i) = -1
         \/ QuoteCount(s, i) = 0
         \/ QuoteCount(s, i) \in Nat /\ QuoteCount(s, i) >= 2 /\ i + QuoteCount(s, i) <= Len(s) + 1
<1> DEFINE ends == {j \in i + 1 .. Len(s) : s[j] = s[i]}
<1>1. Len(s) \in Nat
  BY DEF CStrings
<1>2. ends \in SUBSET Nat
  BY <1>1
<1>3. CASE ends = {}
  BY <1>3 DEF QuoteCount
<1>4. CASE ends # {}
  <2>1. Min(ends) \in i + 1 .. Len(s)
    BY <1>2, <1>4, MinIs
  <2>2. QuoteCount(s, i) = 0 \/ QuoteCount(s, i) = Min(ends) - i + 1
    BY <1>4 DEF QuoteCount
  <2> HIDE DEF ends
  <2> QED  BY <1>1, <2>1, <2>2
<1> QED  BY <1>3, <1>4

LEMMA AfterIs ==
  ASSUME NEW s \in CStrings, NEW i \in 1 .. Len(s) + 1, NEW c
  PROVE  /\ After(s, i, c) \in i .. Len(s) + 1
         /\ At(s, i) = c /\ c # Nul => After(s, i, c) > i
<1> DEFINE S == {j \in i .. Len(s) : s[j] # c} \cup {Len(s) + 1}
           m == Min(S)
<1>1. Len(s) \in Nat /\ S \in SUBSET Nat /\ S \in SUBSET (i .. Len(s) + 1) /\ S # {}
  BY DEF CStrings
<1>2. m \in S
  BY <1>1, MinIs
<1>3. At(s, i) = c /\ c # Nul => i \notin S
  BY <1>1, AtIs
<1>4. After(s, i, c) = m
  BY DEF After
<1> HIDE DEF S, m
<1>5. m \in i .. Len(s) + 1 /\ (m # i => m > i)
  BY <1>1, <1>2
<1> QED  BY <1>2, <1>3, <1>4, <1>5

LEMMA BlanksEndIs ==
  ASSUME NEW s \in CStrings, NEW i \in 1 .. Len(s)
  PROVE  BlanksEnd(s, i) \in i + 1 .. Len(s) + 1
<1> DEFINE S == {j \in i + 1 .. Len(s) : s[j] # s[j - 1] /\ s[j] # Space} \cup {Len(s) + 1}
<1>1. Len(s) \in Nat /\ S \in SUBSET (i + 1 .. Len(s) + 1) /\ S # {}
  BY DEF CStrings
<1>2. Min(S) \in S
  BY <1>1, MinIs
<1>3. BlanksEnd(s, i) = Min(S)
  BY DEF BlanksEnd
<1> HIDE DEF S
<1> QED  BY <1>1, <1>2, <1>3

(***************************************************************************)
(* Skip is the function its definition says: there is one.                 *)
(***************************************************************************)
SkipStep(s, stop, f, j) ==
  IF At(s, j) \in stop \cup {Nul} THEN j
  ELSE IF QuoteCount(s, j) = -1 THEN Null
  ELSE IF QuoteCount(s, j) = 0 THEN f[j + 1]
  ELSE f[j + QuoteCount(s, j)]
Skips(s, stop, i, f) == f = [j \in i .. Len(s) + 1 |-> SkipStep(s, stop, f, j)]

(* A step reads f only further on, and not at the end. *)
LEMMA SkipStepAhead ==
  ASSUME NEW s \in CStrings, NEW stop, NEW j \in 1 .. Len(s) + 1, NEW f, NEW g,
         \A k \in j + 1 .. Len(s) + 1 : f[k] = g[k]
  PROVE  SkipStep(s, stop, f, j) = SkipStep(s, stop, g, j)
<1>1. Len(s) \in Nat
  BY DEF CStrings
<1>2. CASE At(s, j) \in stop \cup {Nul}
  BY <1>2 DEF SkipStep
<1>3. CASE At(s, j) \notin stop \cup {Nul}
  <2>1. j \in 1 .. Len(s)
    BY <1>3, AtIs
  <2>2. j + 1 \in j + 1 .. Len(s) + 1
    BY <1>1, <2>1
  <2>3. QuoteCount(s, j) = -1 \/ QuoteCount(s, j) = 0 \/ j + QuoteCount(s, j) \in j + 1 .. Len(s) + 1
    BY <1>1, <2>1, QuoteCountIs
  <2> QED  BY <1>3, <2>2, <2>3 DEF SkipStep
<1> QED  BY <1>2, <1>3

LEMMA SkipExists ==
  ASSUME NEW s \in CStrings, NEW stop, NEW i \in 1 .. Len(s) + 1
  PROVE  \E f : Skips(s, stop, i, f)
<1> DEFINE S == {n \in Nat : n <= Len(s) => \E f : Skips(s, stop, Len(s) + 1 - n, f)}
<1>0. Len(s) \in Nat
  BY DEF CStrings
<1>1. 0 \in S
  <2> DEFINE e == Len(s) + 1
             f == [j \in e .. e |-> SkipStep(s, stop, <<>>, j)]
  <2>1. \A j \in e .. e : SkipStep(s, stop, f, j) = SkipStep(s, stop, <<>>, j)
    BY <1>0, SkipStepAhead
  <2>2. Skips(s, stop, e, f)
    BY <2>1 DEF Skips
  <2> QED  BY <1>0, <2>2
<1>2. ASSUME NEW n \in S  PROVE n + 1 \in S
  <2>1. SUFFICES ASSUME n + 1 <= Len(s)  PROVE \E f : Skips(s, stop, Len(s) + 1 - (n + 1), f)
    OBVIOUS
  <2> DEFINE lo == Len(s) + 1 - n
             b == Len(s) + 1 - (n + 1)
  <2>2. PICK f : Skips(s, stop, lo, f)
    BY <1>0, <2>1
  <2>3. n \in Nat /\ b \in 1 .. Len(s) /\ lo = b + 1 /\ b .. Len(s) + 1 = {b} \cup lo .. Len(s) + 1
    BY <1>0, <2>1
  <2> HIDE DEF lo, b
  <2> DEFINE g == [j \in b .. Len(s) + 1 |-> IF j = b THEN SkipStep(s, stop, f, b) ELSE f[j]]
  <2>4. \A j \in lo .. Len(s) + 1 : j # b /\ g[j] = f[j] /\ f[j] = SkipStep(s, stop, f, j)
    BY <1>0, <2>2, <2>3 DEF Skips
  <2>5. ASSUME NEW j \in b .. Len(s) + 1  PROVE g[j] = SkipStep(s, stop, g, j)
    <3>1. j \in 1 .. Len(s) + 1 /\ \A k \in j + 1 .. Len(s) + 1 : k \in lo .. Len(s) + 1
      BY <1>0, <2>3
    <3>2. \A k \in j + 1 .. Len(s) + 1 : f[k] = g[k]
      BY <2>4, <3>1
    <3>3. SkipStep(s, stop, f, j) = SkipStep(s, stop, g, j)
      BY <3>1, <3>2, SkipStepAhead
    <3>4. CASE j = b
      BY <3>3, <3>4
    <3>5. CASE j # b
      BY <2>3, <2>4, <3>3, <3>5
    <3> QED  BY <3>4, <3>5
  <2>6. Skips(s, stop, b, g)
    BY <2>5 DEF Skips
  <2> QED  BY <2>6 DEF b
<1>3. S = Nat
  <2> HIDE DEF S
  <2>1. S \in SUBSET Nat
    BY DEF S
  <2> QED  BY <1>1, <1>2, <2>1, Induction
<1>4. Len(s) + 1 - i \in Nat /\ Len(s) + 1 - i <= Len(s) /\ Len(s) + 1 - (Len(s) + 1 - i) = i
  BY <1>0
<1>5. Len(s) + 1 - i \in S
  <2> HIDE DEF S
  <2> QED  BY <1>3, <1>4
<1> QED  BY <1>4, <1>5

(* Where a loop ends that starts at i. *)
LEMMA SkipIs ==
  ASSUME NEW s \in CStrings, NEW stop, NEW i \in 1 .. Len(s) + 1
  PROVE  /\ Skip(s, i, stop) = Null \/ Skip(s, i, stop) \in i .. Len(s) + 1
         /\ At(s, i) \notin stop \cup {Nul} /\ Skip(s, i, stop) # Null => Skip(s, i, stop) > i
<1>0. Len(s) \in Nat
  BY DEF CStrings
<1> DEFINE f == CHOOSE g : Skips(s, stop, i, g)
<1>1. Skips(s, stop, i, f)
  BY SkipExists
<1>2. Skip(s, i, stop) = f[i]
  BY DEF Skip, Skips, SkipStep
<1> HIDE DEF f
<1>3. \A j \in i .. Len(s) + 1 : f[j] = SkipStep(s, stop, f, j)
  BY <1>1 DEF Skips
<1>4. ASSUME NEW j \in i .. Len(s) + 1,
             \A k \in j + 1 .. Len(s) + 1 : f[k] = Null \/ f[k] \in k .. Len(s) + 1
      PROVE  /\ f[j] = Null \/ f[j] \in j .. Len(s) + 1
             /\ At(s, j) \notin stop \cup {Nul} /\ f[j] # Null => f[j] > j
  <2>1. CASE At(s, j) \in stop \cup {Nul}
    BY <1>3, <2>1 DEF SkipStep
  <2>2. CASE At(s, j) \notin stop \cup {Nul}
    <3>1. j \in 1 .. Len(s)
      BY <2>2, AtIs
    <3>2. CASE QuoteCount(s, j) = -1
      BY <1>3, <2>2, <3>2 DEF SkipStep
    <3>3. CASE QuoteCount(s, j) = 0
      <4>1. f[j] = f[j + 1] /\ j + 1 \in j + 1 .. Len(s) + 1
        BY <1>3, <2>2, <3>1, <3>3 DEF SkipStep
      <4>2. f[j + 1] = Null \/ f[j + 1] \in j + 1 .. Len(s) + 1
        BY <1>4, <4>1
      <4> QED  BY <4>1, <4>2
    <3>4. CASE QuoteCount(s, j) # -1 /\ QuoteCount(s, j) # 0
      <4> DEFINE n == QuoteCount(s, j)
      <4>1. n \in Nat /\ n >= 2 /\ j + n <= Len(s) + 1 /\ f[j] = f[j + n]
        BY <1>3, <2>2, <3>1, <3>4, QuoteCountIs DEF SkipStep
      <4> HIDE DEF n
      <4>2. j + n \in j + 1 .. Len(s) + 1
        BY <1>0, <3>1, <4>1
      <4>3. f[j + n] = Null \/ f[j + n] \in j + n .. Len(s) + 1
        BY <1>4, <4>2
      <4> QED  BY <4>1, <4>2, <4>3
    <3> QED  BY <3>2, <3>3, <3>4
  <2> QED  BY <2>1, <2>2
<1> DEFINE S == {n \in Nat : \A j \in i .. Len(s) + 1 :
                   j >= Len(s) + 1 - n => f[j] = Null \/ f[j] \in j .. Len(s) + 1}
<1>5. 0 \in S
  <2>1. ASSUME NEW j \in i .. Len(s) + 1, j >= Len(s) + 1 - 0
        PROVE  f[j] = Null \/ f[j] \in j .. Len(s) + 1
    <3>1. \A k \in j + 1 .. Len(s) + 1 : FALSE
      BY <1>0, <2>1
    <3> QED  BY <1>4, <3>1
  <2> QED  BY <2>1
<1>6. ASSUME NEW n \in S  PROVE n + 1 \in S
  <2>1. ASSUME NEW j \in i .. Len(s) + 1, j >= Len(s) + 1 - (n + 1)
        PROVE  f[j] = Null \/ f[j] \in j .. Len(s) + 1
    <3>1. \A k \in j + 1 .. Len(s) + 1 : k \in i .. Len(s) + 1 /\ k >= Len(s) + 1 - n
      BY <1>0, <2>1
    <3> QED  BY <1>4, <3>1
  <2> QED  BY <2>1
<1>7. S = Nat
  <2> HIDE DEF S
  <2>1. S \in SUBSET Nat
    BY DEF S
  <2> QED  BY <1>5, <1>6, <2>1, Induction
<1>8. \A j \in i .. Len(s) + 1 : f[j] = Null \/ f[j] \in j .. Len(s) + 1
  <2>1. ASSUME NEW j \in i .. Len(s) + 1  PROVE f[j] = Null \/ f[j] \in j .. Len(s) + 1
    <3>1. Len(s) + 1 - j \in S /\ j >= Len(s) + 1 - (Len(s) + 1 - j)
      BY <1>0, <1>7
    <3> QED  BY <3>1
  <2> QED  BY <2>1
<1>9. i \in i .. Len(s) + 1 /\ \A k \in i + 1 .. Len(s) + 1 : k \in i .. Len(s) + 1
  BY <1>0
<1> QED  BY <1>2, <1>4, <1>8, <1>9

(***************************************************************************)
(* The passes that count and that cut end a token at the same place, and   *)
(* further on than where it begins.                                        *)
(***************************************************************************)
TokenEnd(s, i) ==
  LET k == After(s, i, Space)
  IN  IF At(s, k) = "|" THEN After(s, k, "|")
      ELSE IF At(s, k) \in Redirections
        THEN Skip(s, BlanksEnd(s, k), Operators \cup {Space})
      ELSE Skip(s, k, Operators)

LEMMA TokenEndIs ==
  ASSUME NEW s \in CStrings, NEW i \in 1 .. Len(s)
  PROVE  TokenEnd(s, i) = Null \/ TokenEnd(s, i) \in i + 1 .. Len(s) + 1
<1>0. Len(s) \in Nat
  BY DEF CStrings
<1> DEFINE k == After(s, i, Space)
<1>1. k \in i .. Len(s) + 1 /\ k \in Int
  BY <1>0, AfterIs
<1>2. CASE At(s, k) = "|"
  <2>1. TokenEnd(s, i) = After(s, k, "|")
    BY <1>2 DEF TokenEnd
  <2> HIDE DEF k
  <2>2. k \in 1 .. Len(s) + 1 /\ "|" # Nul
    BY <1>0, <1>1 DEF Nul
  <2>3. After(s, k, "|") \in k .. Len(s) + 1 /\ After(s, k, "|") > k
    BY <1>2, <2>2, AfterIs
  <2> QED  BY <1>0, <1>1, <2>1, <2>3
<1>3. CASE At(s, k) \in Redirections
  <2>1. TokenEnd(s, i) = Skip(s, BlanksEnd(s, k), Operators \cup {Space})
    BY <1>3 DEF TokenEnd, Redirections
  <2> HIDE DEF k
  <2>2. k \in 1 .. Len(s)
    BY <1>1, <1>3, AtIs DEF Redirections, Nul
  <2> DEFINE b == BlanksEnd(s, k)
             e == Skip(s, b, Operators \cup {Space})
  <2>3. b \in k + 1 .. Len(s) + 1
    BY <2>2, BlanksEndIs
  <2>4. TokenEnd(s, i) = e
    BY <2>1
  <2>5. e = Null \/ e \in b .. Len(s) + 1
    <3> HIDE DEF b
    <3>1. b \in 1 .. Len(s) + 1
      BY <1>0, <2>2, <2>3
    <3> QED  BY <3>1, SkipIs
  <2> HIDE DEF b, e
  <2> QED  BY <1>0, <1>1, <2>3, <2>4, <2>5
<1>4. CASE At(s, k) \notin Operators
  <2> DEFINE e == Skip(s, k, Operators)
  <2>1. TokenEnd(s, i) = e
    BY <1>4 DEF TokenEnd, Operators
  <2>2. k \in 1 .. Len(s) + 1
    BY <1>0, <1>1
  <2>3. (e = Null \/ e \in k .. Len(s) + 1) /\ (At(s, k) # Nul /\ e # Null => e > k)
    <3> HIDE DEF k
    <3> QED  BY <1>4, <2>2, SkipIs
  <2>4. At(s, k) = Nul => k > i
    <3> HIDE DEF k
    <3> QED  BY <1>0, <1>1, <2>2, AtIs
  <2> HIDE DEF k, e
  <2> QED  BY <1>0, <1>1, <2>1, <2>3, <2>4
<1> HIDE DEF k
<1> QED  BY <1>2, <1>3, <1>4 DEF Operators

(***************************************************************************)
(* CountFrom is the function its definition says: there is one.            *)
(***************************************************************************)
CountStep(s, f, i) ==
  LET rest == IF TokenEnd(s, i) = Null THEN -1 ELSE f[TokenEnd(s, i)]
  IN  IF i > Len(s) THEN 0 ELSE IF rest = -1 THEN -1 ELSE rest + 1
Counts(s, i, f) == f = [j \in i .. Len(s) + 1 |-> CountStep(s, f, j)]

LEMMA CountStepAhead ==
  ASSUME NEW s \in CStrings, NEW j \in 1 .. Len(s) + 1, NEW f, NEW g,
         \A k \in j + 1 .. Len(s) + 1 : f[k] = g[k]
  PROVE  CountStep(s, f, j) = CountStep(s, g, j)
<1>0. Len(s) \in Nat
  BY DEF CStrings
<1>1. CASE j > Len(s)
  BY <1>1 DEF CountStep
<1>2. CASE j \in 1 .. Len(s)
  <2>1. TokenEnd(s, j) = Null \/ TokenEnd(s, j) \in j + 1 .. Len(s) + 1
    BY <1>2, TokenEndIs
  <2> QED  BY <2>1 DEF CountStep
<1> QED  BY <1>0, <1>1, <1>2

LEMMA CountExists ==
  ASSUME NEW s \in CStrings
  PROVE  \E f : Counts(s, 1, f)
<1> DEFINE S == {n \in Nat : n <= Len(s) => \E f : Counts(s, Len(s) + 1 - n, f)}
<1>0. Len(s) \in Nat
  BY DEF CStrings
<1>1. 0 \in S
  <2> DEFINE e == Len(s) + 1
             f == [j \in e .. e |-> CountStep(s, <<>>, j)]
  <2>1. \A j \in e .. e : CountStep(s, f, j) = CountStep(s, <<>>, j)
    BY <1>0, CountStepAhead
  <2>2. Counts(s, e, f)
    BY <2>1 DEF Counts
  <2> QED  BY <1>0, <2>2
<1>2. ASSUME NEW n \in S  PROVE n + 1 \in S
  <2>1. SUFFICES ASSUME n + 1 <= Len(s)  PROVE \E f : Counts(s, Len(s) + 1 - (n + 1), f)
    OBVIOUS
  <2> DEFINE lo == Len(s) + 1 - n
             b == Len(s) + 1 - (n + 1)
  <2>2. PICK f : Counts(s, lo, f)
    BY <1>0, <2>1
  <2>3. n \in Nat /\ b \in 1 .. Len(s) /\ lo = b + 1 /\ b .. Len(s) + 1 = {b} \cup lo .. Len(s) + 1
    BY <1>0, <2>1
  <2> HIDE DEF lo, b
  <2> DEFINE g == [j \in b .. Len(s) + 1 |-> IF j = b THEN CountStep(s, f, b) ELSE f[j]]
  <2>4. \A j \in lo .. Len(s) + 1 : j # b /\ g[j] = f[j] /\ f[j] = CountStep(s, f, j)
    BY <1>0, <2>2, <2>3 DEF Counts
  <2>5. ASSUME NEW j \in b .. Len(s) + 1  PROVE g[j] = CountStep(s, g, j)
    <3>1. j \in 1 .. Len(s) + 1 /\ \A k \in j + 1 .. Len(s) + 1 : k \in lo .. Len(s) + 1
      BY <1>0, <2>3
    <3>2. \A k \in j + 1 .. Len(s) + 1 : f[k] = g[k]
      BY <2>4, <3>1
    <3>3. CountStep(s, f, j) = CountStep(s, g, j)
      BY <3>1, <3>2, CountStepAhead
    <3>4. CASE j = b
      BY <3>3, <3>4
    <3>5. CASE j # b
      BY <2>3, <2>4, <3>3, <3>5
    <3> QED  BY <3>4, <3>5
  <2>6. Counts(s, b, g)
    BY <2>5 DEF Counts
  <2> QED  BY <2>6 DEF b
<1>3. S = Nat
  <2> HIDE DEF S
  <2>1. S \in SUBSET Nat
    BY DEF S
  <2> QED  BY <1>1, <1>2, <2>1, Induction
<1>4. Len(s) \in S /\ Len(s) + 1 - Len(s) = 1
  <2> HIDE DEF S
  <2> QED  BY <1>0, <1>3
<1> QED  BY <1>4

(* What count_token() finds from i on is one token, and what it finds from *)
(* the end of that token on.                                               *)
LEMMA CountIs ==
  ASSUME NEW s \in CStrings
  PROVE  /\ \A i \in 1 .. Len(s) + 1 : CountFrom(s)[i] \in Nat \cup {-1}
         /\ \A i \in 1 .. Len(s) : CountFrom(s)[i] \in Nat =>
              /\ TokenEnd(s, i) \in i + 1 .. Len(s) + 1
              /\ CountFrom(s)[TokenEnd(s, i)] \in Nat
              /\ CountFrom(s)[i] = CountFrom(s)[TokenEnd(s, i)] + 1
<1>0. Len(s) \in Nat
  BY DEF CStrings
<1> DEFINE f == CHOOSE g : Counts(s, 1, g)
<1>1. Counts(s, 1, f)
  BY CountExists
<1>2. CountFrom(s) = f
  BY DEF CountFrom, Counts, CountStep, TokenEnd
<1> HIDE DEF f
<1>3. \A j \in 1 .. Len(s) + 1 : f[j] = CountStep(s, f, j)
  BY <1>1 DEF Counts
<1>4. ASSUME NEW j \in 1 .. Len(s) + 1,
             \A k \in j + 1 .. Len(s) + 1 : f[k] \in Nat \cup {-1}
      PROVE  f[j] \in Nat \cup {-1}
  <2>1. CASE j > Len(s)
    BY <1>3, <2>1 DEF CountStep
  <2>2. CASE j \in 1 .. Len(s)
    <3>1. TokenEnd(s, j) = Null \/ TokenEnd(s, j) \in j + 1 .. Len(s) + 1
      BY <2>2, TokenEndIs
    <3>2. TokenEnd(s, j) # Null => f[TokenEnd(s, j)] \in Nat \cup {-1}
      BY <1>4, <3>1
    <3> QED  BY <1>3, <3>2 DEF CountStep
  <2> QED  BY <1>0, <2>1, <2>2
<1> DEFINE S == {n \in Nat : \A j \in 1 .. Len(s) + 1 :
                   j >= Len(s) + 1 - n => f[j] \in Nat \cup {-1}}
<1>5. 0 \in S
  <2>1. ASSUME NEW j \in 1 .. Len(s) + 1, j >= Len(s) + 1 - 0
        PROVE  f[j] \in Nat \cup {-1}
    <3>1. \A k \in j + 1 .. Len(s) + 1 : FALSE
      BY <1>0, <2>1
    <3> QED  BY <1>4, <3>1
  <2> QED  BY <2>1
<1>6. ASSUME NEW n \in S  PROVE n + 1 \in S
  <2>1. ASSUME NEW j \in 1 .. Len(s) + 1, j >= Len(s) + 1 - (n + 1)
        PROVE  f[j] \in Nat \cup {-1}
    <3>1. \A k \in j + 1 .. Len(s) + 1 : k \in 1 .. Len(s) + 1 /\ k >= Len(s) + 1 - n
      BY <1>0, <2>1
    <3> QED  BY <1>4, <3>1
  <2> QED  BY <2>1
<1>7. S = Nat
  <2> HIDE DEF S
  <2>1. S \in SUBSET Nat
    BY DEF S
  <2> QED  BY <1>5, <1>6, <2>1, Induction
<1>8. \A j \in 1 .. Len(s) + 1 : f[j] \in Nat \cup {-1}
  <2>1. ASSUME NEW j \in 1 .. Len(s) + 1  PROVE f[j] \in Nat \cup {-1}
    <3>1. Len(s) + 1 - j \in S /\ j >= Len(s) + 1 - (Len(s) + 1 - j)
      BY <1>0, <1>7
    <3> QED  BY <3>1
  <2> QED  BY <2>1
<1>9. ASSUME NEW i \in 1 .. Len(s), f[i] \in Nat
      PROVE  /\ TokenEnd(s, i) \in i + 1 .. Len(s) + 1
             /\ f[TokenEnd(s, i)] \in Nat /\ f[i] = f[TokenEnd(s, i)] + 1
  <2>1. TokenEnd(s, i) = Null \/ TokenEnd(s, i) \in i + 1 .. Len(s) + 1
    BY TokenEndIs
  <2>2. f[i] = CountStep(s, f, i) /\ f[i] # -1 /\ ~(i > Len(s))
    BY <1>0, <1>3, <1>9
  <2>3. TokenEnd(s, i) # Null
    BY <2>2 DEF CountStep
  <2>4. f[TokenEnd(s, i)] # -1 /\ f[i] = f[TokenEnd(s, i)] + 1
    BY <2>2, <2>3 DEF CountStep
  <2>5. TokenEnd(s, i) \in 1 .. Len(s) + 1
    BY <1>0, <2>1, <2>3
  <2> QED  BY <1>8, <2>1, <2>3, <2>4, <2>5
<1> QED  BY <1>2, <1>8, <1>9

(***************************************************************************)
(* The tokens that are copied.                                             *)
(***************************************************************************)
LEMMA SubSeqIs ==
  ASSUME NEW s \in CStrings, NEW m \in 1 .. Len(s) + 1, NEW n \in m - 1 .. Len(s)
  PROVE  SubSeq(s, m, n) \in CStrings /\ Len(SubSeq(s, m, n)) = n - m + 1
BY SubSeqProperties DEF CStrings

LEMMA TrimIs ==
  ASSUME NEW s \in CStrings
  PROVE  Trim(s) \in CStrings /\ Len(Trim(s)) <= Len(s)
<1> DEFINE kept == {i \in DOMAIN s : s[i] # Space}
<1>0. Len(s) \in Nat /\ DOMAIN s = 1 .. Len(s)
  BY DEF CStrings
<1>1. CASE kept = {}
  <2>1. Trim(s) = <<>>
    BY <1>1 DEF Trim
  <2> QED  BY <1>0, <2>1 DEF CStrings
<1>2. CASE kept # {}
  <2> DEFINE m == Min(kept)
             n == Max(kept)
  <2>1. Trim(s) = SubSeq(s, m, n)
    BY <1>2 DEF Trim
  <2>2. kept \in SUBSET (1 .. Len(s)) /\ kept \in SUBSET Nat
    BY <1>0
  <2> HIDE DEF kept
  <2>3. m \in kept /\ n \in kept /\ m <= n
    BY <1>0, <1>2, <2>2, MinIs, MaxIs
  <2> HIDE DEF m, n
  <2>4. m \in 1 .. Len(s) + 1 /\ n \in m - 1 .. Len(s) /\ n - m + 1 <= Len(s)
    BY <1>0, <2>2, <2>3
  <2> QED  BY <2>1, <2>4, SubSeqIs
<1> QED  BY <1>1, <1>2

(* A token, and the bytes allocated for it. *)
Token == {t \in [text : CStrings, room : Nat] : Len(t.text) <= t.room}

LEMMA PipeToken ==
  ASSUME NEW s \in CStrings, NEW k \in 1 .. Len(s), At(s, k) = "|"
  PROVE  [text |-> SubSeq(s, k, After(s, k, "|") - 1), room |-> CountSpChar(s, k)] \in Token
<1> DEFINE end == After(s, k, "|")
<1>0. Len(s) \in Nat
  BY DEF CStrings
<1>1. end \in k + 1 .. Len(s) + 1
  <2>1. k \in 1 .. Len(s) + 1 /\ "|" # Nul
    BY <1>0 DEF Nul
  <2>2. end \in k .. Len(s) + 1 /\ end > k
    BY <2>1, AfterIs
  <2> QED  BY <1>0, <2>2
<1>2. CountSpChar(s, k) = end - k
  BY <1>0 DEF CountSpChar, At, CStrings
<1> HIDE DEF end
<1>3. k \in 1 .. Len(s) + 1 /\ end - 1 \in k - 1 .. Len(s) /\ end - k \in Nat
  BY <1>0, <1>1
<1>4. SubSeq(s, k, end - 1) \in CStrings /\ Len(SubSeq(s, k, end - 1)) = end - 1 - k + 1
  BY <1>3, SubSeqIs
<1> DEFINE t == SubSeq(s, k, end - 1)
<1>5. t \in CStrings /\ Len(t) <= end - k
  BY <1>0, <1>1, <1>4
<1>6. [text |-> t, room |-> end - k] \in Token
  <2> HIDE DEF t
  <2> QED  BY <1>3, <1>5 DEF Token
<1> QED  BY <1>2, <1>6 DEF end

LEMMA WordToken ==
  ASSUME NEW s \in CStrings, NEW k \in 1 .. Len(s), Skip(s, k, Operators) # Null
  PROVE  [text |-> SubSeq(s, k, Skip(s, k, Operators) - 1), room |-> CountChar(s, k)] \in Token
<1> DEFINE end == Skip(s, k, Operators)
<1>0. Len(s) \in Nat
  BY DEF CStrings
<1>1. end \in k .. Len(s) + 1
  <2>1. k \in 1 .. Len(s) + 1
    BY <1>0
  <2> QED  BY <2>1, SkipIs
<1>2. CountChar(s, k) = end - k
  BY DEF CountChar
<1> HIDE DEF end
<1>3. k \in 1 .. Len(s) + 1 /\ end - 1 \in k - 1 .. Len(s) /\ end - k \in Nat
  BY <1>0, <1>1
<1> DEFINE t == SubSeq(s, k, end - 1)
<1>4. t \in CStrings /\ Len(t) = end - 1 - k + 1
  BY <1>3, SubSeqIs
<1>5. Len(t) <= end - k
  BY <1>0, <1>1, <1>4
<1>6. [text |-> t, room |-> end - k] \in Token
  <2> HIDE DEF t
  <2> QED  BY <1>3, <1>4, <1>5 DEF Token
<1> QED  BY <1>2, <1>6 DEF end

Gap(s, word) == IF SpaceInserted(s, word) THEN <<Space>> ELSE <<>>

LEMMA RedirToken ==
  ASSUME NEW s \in CStrings, NEW k \in 1 .. Len(s), At(s, k) \in Redirections,
         NEW word, word = BlanksEnd(s, k),
         NEW end, end = Skip(s, word, Operators \cup {Space}), end # Null
  PROVE  [text |-> SubSeq(s, k, word - 1) \o Gap(s, word) \o SubSeq(s, word, end - 1),
          room |-> CountSpChar(s, k)] \in Token
<1>0. Len(s) \in Nat
  BY DEF CStrings
<1>1. word \in k + 1 .. Len(s) + 1
  BY BlanksEndIs
<1>2. end \in word .. Len(s) + 1
  <2>1. word \in 1 .. Len(s) + 1
    BY <1>0, <1>1
  <2> QED  BY <2>1, SkipIs
<1> DEFINE a == SubSeq(s, k, word - 1)
           b == Gap(s, word)
           c == SubSeq(s, word, end - 1)
           n == CountSpChar(s, k)
<1>3. a \in CStrings /\ Len(a) = word - k
  <2>1. k \in 1 .. Len(s) + 1 /\ word - 1 \in k - 1 .. Len(s)
    BY <1>0, <1>1
  <2>2. a \in CStrings /\ Len(a) = word - 1 - k + 1
    BY <2>1, SubSeqIs
  <2> HIDE DEF a
  <2> QED  BY <1>0, <1>1, <2>2
<1>4. c \in CStrings /\ Len(c) = end - word
  <2>1. word \in 1 .. Len(s) + 1 /\ end - 1 \in word - 1 .. Len(s)
    BY <1>0, <1>1, <1>2
  <2>2. c \in CStrings /\ Len(c) = end - 1 - word + 1
    BY <2>1, SubSeqIs
  <2> HIDE DEF c
  <2> QED  BY <1>0, <1>1, <1>2, <2>2
<1> DEFINE gap == IF SpaceInserted(s, word) THEN 1 ELSE 0
<1>5. b \in CStrings /\ Len(b) = gap
  <2>1. CASE SpaceInserted(s, word)
    <3>1. Space \in Char \cup {Other}
      BY TextAssumption
    <3>2. <<Space>> \in CStrings /\ Len(<<Space>>) = 1
      BY <3>1 DEF CStrings
    <3> QED  BY <2>1, <3>2 DEF Gap
  <2>2. CASE ~SpaceInserted(s, word)
    <3>1. <<>> \in CStrings /\ Len(<<>>) = 0
      BY DEF CStrings
    <3> QED  BY <2>2, <3>1 DEF Gap
  <2> QED  BY <2>1, <2>2
<1>6. n = end - k + gap
  <2>1. s[k] # "|"
    BY AtIs DEF At, Redirections, Nul
  <2> QED  BY <2>1 DEF CountSpChar
<1>7. gap \in Nat
  OBVIOUS
<1> HIDE DEF a, b, c, n, gap
<1> DEFINE ab == a \o b
<1>8. ab \in CStrings /\ Len(ab) = Len(a) + Len(b)
  BY <1>3, <1>4, <1>5, ConcatProperties DEF CStrings
<1> HIDE DEF ab
<1> DEFINE t == ab \o c
<1>9. t \in CStrings /\ Len(t) = Len(ab) + Len(c)
  BY <1>4, <1>8, ConcatProperties DEF CStrings
<1> HIDE DEF t
<1>10. Len(t) = n /\ n \in Nat
  <2>1. Len(t) = word - k + gap + (end - word)
    BY <1>3, <1>4, <1>5, <1>8, <1>9
  <2>2. word \in Int /\ end \in Int /\ k \in Int /\ gap \in Nat /\ end - k \in Nat
    BY <1>0, <1>1, <1>2, <1>7
  <2>3. word - k + gap + (end - word) = end - k + gap /\ end - k + gap \in Nat
    BY <2>2
  <2>4. n \in Nat
    BY <1>6, <2>3
  <2>5. Len(t) = n
    BY <1>6, <2>1, <2>3
  <2> QED  BY <2>4, <2>5
<1>11. [text |-> t, room |-> n] \in Token
  BY <1>9, <1>10 DEF Token
<1> QED  BY <1>11 DEF a, b, c, n, ab, t

(***************************************************************************)
(* The invariant: what is still to be cut is what is left of the array.    *)
(***************************************************************************)
Passes == {"expand", "lex", "cut", "split", "done", "refused"}

(* What expand() and tokenizer() start from. *)
Prepared ==
  /\ text \in CStrings /\ out \in CStrings /\ pos \in Int
  /\ before \in {Nul, Other} /\ room \in Nat
  /\ phase = "expand" => dollar = Null \/ dollar \in DOMAIN text
  /\ phase \in {"expand", "lex"} => tokens = <<>>
  /\ phase = "lex" => pos = 1

(* What cmd_modifier() has cut and has left. *)
LeftToCut ==
  /\ pos \in 1 .. Len(text) + 1
  /\ CountFrom(text)[pos] \in Nat
  /\ Len(tokens) + CountFrom(text)[pos] = room

Cutting ==
  /\ phase \in Passes
  /\ tokens \in Seq(Token) /\ Len(tokens) <= room
  /\ phase = "cut" => LeftToCut

Fitting == Prepared /\ Cutting

(***************************************************************************)
(* The steps of expand(): its texts are texts, its pointers numbers.       *)
(***************************************************************************)
LEMMA StrChrIs ==
  ASSUME text \in CStrings, NEW i, NEW c
  PROVE  StrChr(i, c) = Null \/ StrChr(i, c) \in DOMAIN text
<1> DEFINE hits == {j \in DOMAIN text : j >= i /\ text[j] = c}
<1>1. hits \in SUBSET Nat /\ hits \in SUBSET DOMAIN text
  BY DEF CStrings
<1>2. CASE hits = {}
  BY <1>2 DEF StrChr
<1>3. CASE hits # {}
  <2>1. StrChr(i, c) = Null \/ StrChr(i, c) = Min(hits)
    BY DEF StrChr
  <2> HIDE DEF hits
  <2> QED  BY <1>1, <1>3, <2>1, MinIs
<1> QED  BY <1>2, <1>3

LEMMA FromIs ==
  ASSUME text \in CStrings, before \in {Nul, Other}, NEW i \in Int
  PROVE  From(i) \in CStrings
<1>0. Len(text) \in Nat
  BY DEF CStrings
<1>1. CASE i > 0 /\ i <= Len(text)
  <2>1. SubSeq(text, i, Len(text)) \in CStrings
    BY <1>0, <1>1, SubSeqIs
  <2> QED  BY <1>1, <2>1 DEF From
<1>2. CASE i > 0 /\ i > Len(text)
  <2>1. SubSeq(text, i, Len(text)) = <<>>
    BY <1>0, <1>2, SubSeqEmpty
  <2>2. <<>> \in CStrings
    BY DEF CStrings
  <2> QED  BY <1>2, <2>1, <2>2 DEF From
<1>3. CASE ~(i > 0) /\ before = Nul
  <2>1. <<>> \in CStrings
    BY DEF CStrings
  <2> QED  BY <1>3, <2>1 DEF From
<1>4. CASE ~(i > 0) /\ before # Nul
  <2>1. <<before>> \in CStrings
    BY <1>4 DEF CStrings
  <2> DEFINE b == <<before>>
  <2>2. From(i) = b \o text
    BY <1>4 DEF From
  <2> HIDE DEF b
  <2>3. b \in CStrings
    BY <2>1 DEF b
  <2> QED  BY <2>2, <2>3, ConcatProperties DEF CStrings
<1> QED  BY <1>0, <1>1, <1>2, <1>3, <1>4

LEMMA FirstOfIs ==
  ASSUME text \in CStrings, before \in {Nul, Other}, NEW i \in Int, NEW len \in Int
  PROVE  FirstOf(i, len) \in CStrings
<1> DEFINE s == From(i)
<1>1. s \in CStrings
  BY FromIs
<1>2. FirstOf(i, len) = IF len \in 0 .. Len(s) THEN SubSeq(s, 1, len) ELSE s
  BY DEF FirstOf
<1> HIDE DEF s
<1>3. Len(s) \in Nat
  BY <1>1 DEF CStrings
<1>4. CASE len \in 0 .. Len(s)
  <2>1. 1 \in 1 .. Len(s) + 1 /\ len \in 1 - 1 .. Len(s)
    BY <1>3, <1>4
  <2>2. SubSeq(s, 1, len) \in CStrings
    BY <1>1, <2>1, SubSeqIs
  <2> QED  BY <1>2, <1>4, <2>2
<1> QED  BY <1>1, <1>2, <1>4

LEMMA KeyIs ==
  ASSUME text \in CStrings, NEW i \in 1 .. Len(text) + 1
  PROVE  Len(Key(i)) \in Nat
<1> DEFINE S == {j \in i .. Len(text) : text[j] \notin Alnum} \cup {Len(text) + 1}
           m == Min(S)
<1>0. Len(text) \in Nat
  BY DEF CStrings
<1>1. S \in SUBSET Nat /\ S \in SUBSET (i .. Len(text) + 1) /\ S # {}
  BY <1>0
<1>2. Key(i) = SubSeq(text, i, m - 1)
  BY DEF Key
<1> HIDE DEF S
<1>3. m \in i .. Len(text) + 1
  BY <1>1, MinIs
<1> HIDE DEF m
<1>4. m - 1 \in i - 1 .. Len(text)
  BY <1>0, <1>3
<1>5. SubSeq(text, i, m - 1) \in CStrings
  BY <1>4, SubSeqIs
<1> QED  BY <1>2, <1>5 DEF CStrings

LEMMA ValueIs ==
  ASSUME NEW i
  PROVE  Value(i) \in CStrings
<1>1. Status \in CStrings /\ \A key \in DOMAIN Vars : Vars[key] \in CStrings
  <2>1. \A s \in Seq(Char) : s \in CStrings
    BY DEF CStrings
  <2> QED  BY <2>1, TextAssumption
<1>2. "$" \in Char \cup {Other}
  BY TextAssumption
<1>3. <<"$">> \in CStrings /\ <<>> \in CStrings
  BY <1>2 DEF CStrings
<1> QED  BY <1>1, <1>3 DEF Value

LEMMA TextsConcat ==
  ASSUME NEW s \in CStrings, NEW t \in CStrings
  PROVE  s \o t \in CStrings
BY ConcatProperties DEF CStrings

LEMMA SingleQuoteFits == Fitting /\ SingleQuote => Fitting'
<1> SUFFICES ASSUME Fitting, SingleQuote  PROVE Fitting'
  OBVIOUS
<1> DEFINE single == StrChr(pos, "'")
           len == single - pos + QuoteCount(text, single)
<1>1. text \in CStrings /\ out \in CStrings /\ pos \in Int /\ before \in {Nul, Other}
  BY DEF Fitting, Prepared
<1>2. len \in Int
  <2>0. single # Null
    BY DEF SingleQuote, InSingleQuote
  <2>1. single \in 1 .. Len(text)
    BY <1>1, <2>0, StrChrIs DEF CStrings
  <2> HIDE DEF single
  <2>2. QuoteCount(text, single) \in Int
    BY <1>1, <2>1, QuoteCountIs
  <2> QED  BY <1>1, <2>1, <2>2
<1>3. out' = out \o FirstOf(pos, len) /\ pos' = pos + len /\ dollar' = StrChr(pos + len, "$")
  BY DEF SingleQuote, Turn
<1>4. UNCHANGED <<line, before, phase, text, room, tokens, words>> /\ phase = "expand"
  BY DEF SingleQuote, Expanding
<1> HIDE DEF len
<1>5. out' \in CStrings
  BY <1>1, <1>2, <1>3, FirstOfIs, TextsConcat
<1>6. pos' \in Int /\ (dollar' = Null \/ dollar' \in DOMAIN text)
  BY <1>1, <1>2, <1>3, StrChrIs
<1>7. Prepared'
  BY <1>1, <1>4, <1>5, <1>6 DEF Fitting, Prepared
<1>8. Cutting'
  BY <1>4 DEF Fitting, Cutting
<1> QED  BY <1>7, <1>8 DEF Fitting

LEMMA JoinDollarPtrFits == Fitting /\ JoinDollarPtr => Fitting'
<1> SUFFICES ASSUME Fitting, JoinDollarPtr  PROVE Fitting'
  OBVIOUS
<1> DEFINE next == dollar + Width(dollar)
<1>1. text \in CStrings /\ out \in CStrings /\ pos \in Int /\ before \in {Nul, Other}
  BY DEF Fitting, Prepared
<1>2. UNCHANGED <<line, before, phase, text, room, tokens, words>> /\ phase = "expand"
  BY DEF JoinDollarPtr, Expanding
<1>3. dollar \in 1 .. Len(text) /\ Len(text) \in Nat
  BY <1>1, <1>2 DEF Fitting, Prepared, JoinDollarPtr, Expanding, CStrings
<1>4. next \in Int
  <2>1. dollar + 1 \in 1 .. Len(text) + 1
    BY <1>3
  <2>2. Len(Key(dollar + 1)) \in Nat
    BY <1>1, <2>1, KeyIs
  <2>3. Width(dollar) \in Int
    BY <2>2 DEF Width
  <2> QED  BY <1>3, <2>3
<1>5. /\ out' = out \o FirstOf(pos, dollar - pos) \o Value(dollar)
      /\ pos' = next /\ dollar' = StrChr(next, "$")
  BY DEF JoinDollarPtr, Turn
<1> HIDE DEF next
<1>6. out' \in CStrings
  <2>1. dollar - pos \in Int
    BY <1>1, <1>3
  <2>2. FirstOf(pos, dollar - pos) \in CStrings
    BY <1>1, <2>1, FirstOfIs
  <2>3. Value(dollar) \in CStrings
    BY ValueIs
  <2> QED  BY <1>1, <1>5, <2>2, <2>3, TextsConcat
<1>7. pos' \in Int /\ (dollar' = Null \/ dollar' \in DOMAIN text)
  BY <1>1, <1>4, <1>5, StrChrIs
<1>8. Prepared'
  BY <1>1, <1>2, <1>6, <1>7 DEF Fitting, Prepared
<1>9. Cutting'
  BY <1>2 DEF Fitting, Cutting
<1> QED  BY <1>8, <1>9 DEF Fitting

LEMMA JoinRemainingFits == Fitting /\ JoinRemaining => Fitting'
<1> SUFFICES ASSUME Fitting, JoinRemaining  PROVE Fitting'
  OBVIOUS
<1>1. text \in CStrings /\ out \in CStrings /\ pos \in Int /\ before \in {Nul, Other}
  BY DEF Fitting, Prepared
<1>2. /\ UNCHANGED <<line, before, dollar, room, tokens, words>>
      /\ phase = "expand" /\ phase' = "lex" /\ pos' = 1 /\ out' = <<>>
      /\ text' = out \o From(pos)
  BY DEF JoinRemaining
<1>3. text' \in CStrings
  BY <1>1, <1>2, FromIs, TextsConcat
<1>4. out' \in CStrings
  BY <1>2 DEF CStrings
<1>5. Prepared'
  BY <1>1, <1>2, <1>3, <1>4 DEF Fitting, Prepared
<1>6. Cutting'
  BY <1>2 DEF Fitting, Cutting, Passes
<1> QED  BY <1>5, <1>6 DEF Fitting

(***************************************************************************)
(* The steps of the lexer.                                                 *)
(***************************************************************************)
LEMMA RefusedFits == Fitting /\ TokenizerRefuses => Fitting'
<1> SUFFICES ASSUME Fitting, TokenizerRefuses  PROVE Fitting'
  OBVIOUS
<1>1. UNCHANGED <<before, text, pos, out, room, tokens>> /\ phase' = "refused"
  BY DEF TokenizerRefuses
<1>2. Prepared'
  BY <1>1 DEF Fitting, Prepared
<1>3. Cutting'
  BY <1>1 DEF Fitting, Cutting, Passes
<1> QED  BY <1>2, <1>3 DEF Fitting

(* count_token() has counted what cmd_modifier() is about to cut. *)
LEMMA TokenizerFits == Fitting /\ Tokenizer => Fitting'
<1> SUFFICES ASSUME Fitting, Tokenizer  PROVE Fitting'
  OBVIOUS
<1>1. /\ UNCHANGED <<before, text, pos, out, tokens>> /\ phase' = "cut"
      /\ phase = "lex" /\ CountFrom(text)[1] # -1 /\ room' = CountFrom(text)[1]
  BY DEF Tokenizer, CountToken
<1>2. text \in CStrings /\ pos = 1 /\ tokens = <<>>
  BY <1>1 DEF Fitting, Prepared
<1>3. Len(text) \in Nat /\ 1 \in 1 .. Len(text) + 1
  BY <1>2 DEF CStrings
<1>4. CountFrom(text)[1] \in Nat
  BY <1>1, <1>2, <1>3, CountIs
<1>5. Prepared'
  BY <1>1, <1>4 DEF Fitting, Prepared
<1>6. tokens \in Seq(Token) /\ Len(tokens) = 0
  BY <1>2
<1> DEFINE n == CountFrom(text)[1]
<1>7. CountFrom(text')[pos'] = n /\ room' = n /\ tokens' = tokens /\ pos' = 1 /\ text' = text
  BY <1>1, <1>2
<1>8. n \in Nat
  BY <1>4
<1> HIDE DEF n
<1>9. LeftToCut'
  BY <1>3, <1>6, <1>7, <1>8 DEF LeftToCut
<1>10. tokens' \in Seq(Token) /\ Len(tokens') <= room'
  BY <1>6, <1>7, <1>8
<1>11. phase' \in Passes
  BY <1>1 DEF Passes
<1>12. Cutting'
  BY <1>9, <1>10, <1>11 DEF Cutting
<1> QED  BY <1>5, <1>12 DEF Fitting

(* A token is cut where count_token() ended one. *)
LEMMA CutFits ==
  ASSUME Fitting, phase = "cut", pos \in 1 .. Len(text),
         NEW k, NEW end, end = TokenEnd(text, pos),
         NEW token, NEW size, [text |-> token, room |-> size] \in Token,
         Cut(k, end, token, size)
  PROVE  Fitting'
<1> DEFINE t == [text |-> token, room |-> size]
           n == CountFrom(text)[pos]
           rest == CountFrom(text)[end]
<1>1. /\ UNCHANGED <<before, phase, text, out, room>>
      /\ tokens' = Append(tokens, t) /\ pos' = end
  BY DEF Cut
<1>2. t \in Token /\ tokens \in Seq(Token) /\ text \in CStrings /\ room \in Nat
  BY DEF Fitting, Prepared, Cutting
<1>3. n \in Nat /\ Len(tokens) + n = room
  BY DEF Fitting, Cutting, LeftToCut
<1>4. end \in pos + 1 .. Len(text) + 1 /\ rest \in Nat /\ n = rest + 1
  BY <1>2, <1>3, CountIs
<1>5. Len(text) \in Nat /\ Len(tokens) \in Nat
  BY <1>2 DEF CStrings
<1>6. CountFrom(text')[pos'] = rest
  BY <1>1
<1> HIDE DEF t, n, rest
<1>7. tokens' \in Seq(Token) /\ Len(tokens') = Len(tokens) + 1
  BY <1>1, <1>2, AppendProperties
<1>8. end \in 1 .. Len(text) + 1
  BY <1>4, <1>5
<1>9. LeftToCut'
  BY <1>1, <1>3, <1>4, <1>5, <1>6, <1>7, <1>8 DEF LeftToCut
<1>10. Len(tokens') <= room'
  BY <1>1, <1>3, <1>4, <1>5, <1>7
<1>11. Prepared'
  <2>1. pos' \in Int
    BY <1>1, <1>8
  <2> QED  BY <1>1, <2>1 DEF Fitting, Prepared
<1>12. Cutting'
  BY <1>1, <1>7, <1>9, <1>10 DEF Fitting, Cutting
<1> QED  BY <1>11, <1>12 DEF Fitting

(* A turn of cmd_modifier() that finds a character is before the end.      *)
LEMMA BeforeTheEnd ==
  ASSUME Fitting, phase = "cut", NEW k, k = After(text, pos, Space), At(text, k) # Nul
  PROVE  text \in CStrings /\ k \in 1 .. Len(text) /\ pos \in 1 .. Len(text)
<1>1. text \in CStrings /\ pos \in 1 .. Len(text) + 1
  BY DEF Fitting, Prepared, Cutting, LeftToCut
<1>2. Len(text) \in Nat
  BY <1>1 DEF CStrings
<1>3. k \in pos .. Len(text) + 1
  BY <1>1, AfterIs
<1>4. k \in 1 .. Len(text)
  BY <1>1, <1>3, AtIs
<1> QED  BY <1>1, <1>2, <1>3, <1>4

LEMMA PipeTokenizeFits == Fitting /\ PipeTokenize => Fitting'
<1> SUFFICES ASSUME Fitting, PipeTokenize  PROVE Fitting'
  OBVIOUS
<1> DEFINE k == After(text, pos, Space)
           end == After(text, k, "|")
           token == SubSeq(text, k, end - 1)
           size == CountSpChar(text, k)
<1>1. phase = "cut" /\ At(text, k) = "|" /\ Cut(k, end, token, size)
  BY DEF PipeTokenize
<1>2. text \in CStrings /\ k \in 1 .. Len(text) /\ pos \in 1 .. Len(text)
  BY <1>1, BeforeTheEnd DEF Nul
<1>3. end = TokenEnd(text, pos)
  BY <1>1 DEF TokenEnd
<1>4. [text |-> token, room |-> size] \in Token
  <2> HIDE DEF k
  <2> QED  BY <1>1, <1>2, PipeToken
<1> HIDE DEF k, end, token, size
<1> QED  BY <1>1, <1>2, <1>3, <1>4, CutFits

LEMMA RedirTokenizeFits == Fitting /\ RedirTokenize => Fitting'
<1> SUFFICES ASSUME Fitting, RedirTokenize  PROVE Fitting'
  OBVIOUS
<1> DEFINE k == After(text, pos, Space)
           word == BlanksEnd(text, k)
           end == Skip(text, word, Operators \cup {Space})
           token == SubSeq(text, k, word - 1) \o Gap(text, word) \o SubSeq(text, word, end - 1)
           size == CountSpChar(text, k)
<1>1. phase = "cut" /\ At(text, k) \in Redirections /\ Cut(k, end, token, size)
  BY DEF RedirTokenize, Gap
<1>2. At(text, k) # Nul /\ At(text, k) # "|"
  BY <1>1 DEF Redirections, Nul
<1>3. text \in CStrings /\ k \in 1 .. Len(text) /\ pos \in 1 .. Len(text)
  BY <1>1, <1>2, BeforeTheEnd
<1>4. end = TokenEnd(text, pos)
  BY <1>1, <1>2 DEF TokenEnd
<1>5. end # Null
  BY <1>1 DEF Cut
<1>6. [text |-> token, room |-> size] \in Token
  <2> HIDE DEF k
  <2>1. word = BlanksEnd(text, k)
    OBVIOUS
  <2> HIDE DEF word
  <2>2. end = Skip(text, word, Operators \cup {Space})
    OBVIOUS
  <2> HIDE DEF end
  <2> QED  BY <1>1, <1>3, <1>5, <2>1, <2>2, RedirToken
<1> HIDE DEF k, word, end, token, size
<1> QED  BY <1>1, <1>3, <1>4, <1>6, CutFits

LEMMA WordTokenizeFits == Fitting /\ WordTokenize => Fitting'
<1> SUFFICES ASSUME Fitting, WordTokenize  PROVE Fitting'
  OBVIOUS
<1> DEFINE k == After(text, pos, Space)
           end == Skip(text, k, Operators)
           token == SubSeq(text, k, end - 1)
           size == CountChar(text, k)
<1>1. phase = "cut" /\ At(text, k) \notin Operators \cup {Nul} /\ Cut(k, end, token, size)
  BY DEF WordTokenize
<1>2. text \in CStrings /\ k \in 1 .. Len(text) /\ pos \in 1 .. Len(text)
  BY <1>1, BeforeTheEnd
<1>3. end = TokenEnd(text, pos)
  BY <1>1 DEF TokenEnd, Operators
<1>4. end # Null
  BY <1>1 DEF Cut
<1>5. [text |-> token, room |-> size] \in Token
  <2> HIDE DEF k
  <2> QED  BY <1>2, <1>4, WordToken
<1> HIDE DEF k, end, token, size
<1> QED  BY <1>1, <1>2, <1>3, <1>5, CutFits

(* A trimmed token is no longer than it was. *)
LEMMA TokenTrimmed ==
  ASSUME NEW t \in Token
  PROVE  [t EXCEPT !.text = Trim(@)] \in Token
<1>1. t \in [text : CStrings, room : Nat] /\ Len(t.text) <= t.room
  BY DEF Token
<1> DEFINE s == Trim(t.text)
           u == [t EXCEPT !.text = s]
<1>2. s \in CStrings /\ Len(s) <= Len(t.text)
  BY <1>1, TrimIs
<1>3. Len(t.text) \in Nat /\ Len(s) \in Nat
  BY <1>1, <1>2 DEF CStrings
<1> HIDE DEF s
<1>4. u \in [text : CStrings, room : Nat] /\ u.text = s /\ u.room = t.room
  BY <1>1, <1>2
<1> HIDE DEF u
<1>5. u \in Token
  BY <1>1, <1>2, <1>3, <1>4 DEF Token
<1> QED  BY <1>5 DEF u, s

LEMMA LexerFits == Fitting /\ Lexer => Fitting'
<1> SUFFICES ASSUME Fitting, Lexer  PROVE Fitting'
  OBVIOUS
<1>1. /\ UNCHANGED <<before, text, pos, out, room>> /\ phase' \in {"refused", "split"}
      /\ tokens' = [i \in DOMAIN tokens |-> [tokens[i] EXCEPT !.text = Trim(@)]]
  BY DEF Lexer
<1>2. tokens \in Seq(Token) /\ Len(tokens) <= room
  BY DEF Fitting, Cutting
<1>3. DOMAIN tokens = 1 .. Len(tokens) /\ Len(tokens) \in Nat
  BY <1>2
<1>4. tokens' \in Seq(Token) /\ Len(tokens') = Len(tokens)
  <2>1. \A i \in 1 .. Len(tokens) : tokens'[i] \in Token
    <3>1. \A i \in 1 .. Len(tokens) : tokens[i] \in Token
      BY <1>2
    <3> QED  BY <1>1, <1>3, <3>1, TokenTrimmed
  <2>2. DOMAIN tokens' = 1 .. Len(tokens)
    BY <1>1, <1>3
  <2>3. tokens' = [i \in 1 .. Len(tokens) |-> tokens'[i]]
    BY <1>1, <1>3
  <2> DEFINE r == tokens'
             n == Len(tokens)
  <2>4. n \in Nat /\ r = [i \in 1 .. n |-> r[i]] /\ \A i \in 1 .. n : r[i] \in Token
    BY <1>3, <2>1, <2>3
  <2> HIDE DEF r, n
  <2>5. r \in Seq(Token) /\ Len(r) = n
    BY <2>4
  <2> QED  BY <2>5 DEF r, n
<1>5. Prepared'
  BY <1>1 DEF Fitting, Prepared
<1>6. Cutting'
  BY <1>1, <1>2, <1>4 DEF Fitting, Cutting, Passes
<1> QED  BY <1>5, <1>6 DEF Fitting

LEMMA SplitFits == Fitting /\ Split => Fitting'
<1> SUFFICES ASSUME Fitting, Split  PROVE Fitting'
  OBVIOUS
<1>1. UNCHANGED <<before, text, pos, out, room, tokens>> /\ phase' = "done"
  BY DEF Split
<1>2. Prepared'
  BY <1>1 DEF Fitting, Prepared
<1>3. Cutting'
  BY <1>1 DEF Fitting, Cutting, Passes
<1> QED  BY <1>2, <1>3 DEF Fitting

LEMMA InitFits == Init => Fitting
<1> SUFFICES ASSUME Init  PROVE Fitting
  OBVIOUS
<1>1. text \in CStrings
  BY TextAssumption DEF Init, CStrings
<1>2. dollar = Null \/ dollar \in DOMAIN text
  BY <1>1, StrChrIs DEF Init
<1>3. out \in CStrings /\ tokens \in Seq(Token) /\ Len(tokens) = 0
  BY DEF Init, CStrings
<1>4. Prepared
  BY <1>1, <1>2, <1>3 DEF Init, Prepared
<1>5. Cutting
  BY <1>3 DEF Init, Cutting, Passes
<1> QED  BY <1>4, <1>5 DEF Fitting

LEMMA StepFits == Fitting /\ [Next]_vars => Fitting'
<1> SUFFICES ASSUME Fitting, [Next]_vars  PROVE Fitting'
  OBVIOUS
<1>1. CASE Next
  BY <1>1, SingleQuoteFits, JoinDollarPtrFits, JoinRemainingFits, RefusedFits, TokenizerFits,
     PipeTokenizeFits, RedirTokenizeFits, WordTokenizeFits, LexerFits, SplitFits DEF Next
<1>2. CASE UNCHANGED vars
  BY <1>2 DEF vars, Fitting, Prepared, Cutting, LeftToCut
<1> QED  BY <1>1, <1>2

(* cmd_modifier() never writes more tokens than count_token() had made room *)
(* for, nor copies a token into fewer bytes than it has: for every line,    *)
(* every variable that is expanded in it, and whatever stands before it.    *)
THEOREM TokensFitHolds == Spec => []TokensFit
<1>1. Fitting => TokensFit
  <2> SUFFICES ASSUME Fitting  PROVE TokensFit
    OBVIOUS
  <2>1. tokens \in Seq(Token) /\ Len(tokens) <= room
    BY DEF Fitting, Cutting
  <2>2. \A i \in DOMAIN tokens : tokens[i] \in Token
    BY <2>1
  <2> QED  BY <2>1, <2>2 DEF TokensFit, Token
<1> QED  BY InitFits, StepFits, <1>1, PTL DEF Spec
=============================================================================
