--------------------------- MODULE ExecutorProofs ---------------------------
(***************************************************************************)
(* Theorems about Executor, for every value of its constants.              *)
(*                                                                         *)
(* TypeOK is not inductive alone, nor are PipeHeld and ProgramSignals.  An *)
(* action reads tokens through the indices of its frame, calls dup2 on     *)
(* sh->pipe and pops its stack, so the invariant has to know that the      *)
(* indices are in the line, that the pipe of a handler is open until the   *)
(* handler closes it, whatever frames run above it, that a process always  *)
(* has a frame to return to, and that only child_restore_signals() may be  *)
(* above the frame that becomes a program.  Grounded says that.            *)
(***************************************************************************)
EXTENDS Executor, SequenceTheorems, WellFoundedInduction, TLAPS

(***************************************************************************)
(* The invariant.                                                          *)
(***************************************************************************)
(* Frames of a node of the tree, and of a program. *)
NodeOp == PipeOp \cup {"bst", "heredoc_open"}
ProgramOp == ProgramKind \cup {"exec", "put"}

(* Frames that end the process or replace themselves: they are the last of *)
(* a stack, and no other frame is.                                         *)
LastOp == ProgramOp \cup {"prompt", "_exit", "heredoc_child", "heredoc_input"}

(* The indices of a frame are in the line, and where they must be. *)
Indexed(f, line) ==
  /\ f.op \in NodeOp => f.lo \in 1 .. f.hi /\ f.hi \in 1 .. Len(line)
  /\ f.op \in ProgramOp => f.lo \in 1 .. Len(line) /\ line[f.lo].c = "w"
  /\ f.op = "exec" => Prog[line[f.lo].w].k \notin BuiltinKind
  /\ f.op \in {"wait", "fork_right"} => f.ref \in Pid

(* The frame neither closes nor replaces sh->pipe. *)
KeepsPipe(f, line) ==
  /\ f.op \notin {"close_pipe", "left", "right", "fork_left", "fork_right"}
  /\ f.op \in {"bst", "heredoc_open"} => TokensOf(line, f.lo, f.hi, "|") = {}

(* Both ends of sh->pipe are open. *)
Open(m, f) == m.r \in f.rd /\ m.w \in f.wr

StackOK(s, m, f) ==
  /\ s # <<>>
  /\ \A i \in 1 .. Len(s) :
       /\ s[i].op \in LastOp <=> i = Len(s)
       /\ Indexed(s[i], m.line)
       /\ s[i].op \in PipeOp =>
            Open(m, f) /\ \A j \in 1 .. i - 1 : KeepsPipe(s[j], m.line)
       /\ s[i].op \in ProgramOp => i = 1 \/ (i = 2 /\ s[1].op = "child")

(* A program has the default dispositions. *)
Ready(s, d) == s[1].op \in ProgramOp => d.int = "default" /\ d.job = "default"

Grounded ==
  \A p \in Pid : st[p] \in {"run", "stop"} =>
    StackOK(todo[p], mem[p], fd[p]) /\ Ready(todo[p], sig[p])
IInv == TypeOK /\ Grounded

(***************************************************************************)
(* The tree.                                                               *)
(***************************************************************************)
(* The least of a nonempty set of positions is one of them.                *)
LEMMA MinIsMember ==
  ASSUME NEW S \in SUBSET Nat, S # {}
  PROVE  Min(S) \in S
<1> DEFINE Less == {ss \in Nat \X Nat : ss[1] < ss[2]}
<1>1. IsWellFoundedOn(Less, Nat)
  BY NatLessThanWellFounded DEF OpToRel
<1>2. \E x \in S : \A y \in S : <<y, x>> \notin Less
  <2> HIDE DEF Less
  <2> QED  BY <1>1, WFMin
<1>3. PICK x \in S : \A y \in S : ~ (y < x)
  BY <1>2
<1> QED
  BY <1>3, \A y \in S : x =< y DEF Min

LEMMA LineType ==
  ASSUME NEW line \in Lines \cup {<<>>}
  PROVE  /\ line \in Seq(Token) /\ Len(line) \in Nat
         /\ \A i \in 1 .. Len(line) :
              /\ line[i].c \in OpChar /\ line[i].n \in Nat
              /\ line[i].c = "w" => line[i].w \in Word
              /\ line[i].c = ">" => line[i].w \in File \cup {NoWord}
<1>1. line \in Seq(Token)
  BY LineAssumption, EmptySeq
<1>2. Len(line) \in Nat /\ DOMAIN line = 1 .. Len(line)
  BY <1>1, LenProperties
<1>3. ASSUME NEW i \in 1 .. Len(line)
      PROVE  /\ line[i].c \in OpChar /\ line[i].n \in Nat
             /\ line[i].c = "w" => line[i].w \in Word
  BY <1>1, ElementOfSeq DEF Token
<1>4. ASSUME NEW i \in 1 .. Len(line), line[i].c = ">"
      PROVE  line[i].w \in File \cup {NoWord}
  BY <1>2, <1>4, LineAssumption
<1> QED
  BY <1>1, <1>2, <1>3, <1>4

(* The root of a nonempty subtree is one of its tokens; it is a command    *)
(* only when it is the first, and a pipe as soon as there is one.          *)
LEMMA RootInside ==
  ASSUME NEW line \in Lines \cup {<<>>}, NEW lo \in Nat, NEW hi \in 1 .. Len(line),
         lo \in 1 .. hi
  PROVE  /\ Root(line, lo, hi) \in lo .. hi
         /\ Kind(line, lo, hi) = TypeAssign(line[Root(line, lo, hi)])
         /\ Kind(line, lo, hi) # "PIPE" => TokensOf(line, lo, hi, "|") = {}
         /\ Kind(line, lo, hi) = "COMMAND" =>
              Root(line, lo, hi) = lo /\ line[lo].c = "w"
<1> DEFINE at(c) == TokensOf(line, lo, hi, c)
<1>1. \A c : at(c) # {} => Min(at(c)) \in at(c)
  <2>1. \A c : at(c) \in SUBSET Nat
    BY DEF TokensOf
  <2> QED
    BY <2>1, MinIsMember
<1>2. \A i \in lo .. hi : line[i].c \in OpChar
  BY LineType
<1>3. \A c : \A i \in at(c) : i \in lo .. hi /\ line[i].c = c
  BY DEF TokensOf
<1>4. lo \in lo .. hi /\ ~ (lo > hi)
  BY LineType
<1>5. Kind(line, lo, hi) = TypeAssign(line[Root(line, lo, hi)])
  BY <1>4 DEF Kind
<1>6. CASE at("|") # {}
  <2>1. Root(line, lo, hi) = Min(at("|"))
    BY <1>6 DEF Root
  <2>2. Root(line, lo, hi) \in at("|")
    BY <1>6, <1>1, <2>1
  <2>3. TypeAssign(line[Root(line, lo, hi)]) = "PIPE"
    BY <2>2, <1>3 DEF TypeAssign
  <2> QED
    BY <2>2, <2>3, <1>3, <1>5
<1>7. CASE at("|") = {} /\ (at("<") # {} \/ at(">") # {})
  <2>1. \/ Root(line, lo, hi) \in at("<")
        \/ Root(line, lo, hi) \in at(">")
    BY <1>7, <1>1 DEF Root
  <2>2. TypeAssign(line[Root(line, lo, hi)]) # "COMMAND"
    BY <2>1, <1>3 DEF TypeAssign
  <2> QED
    BY <2>1, <2>2, <1>3, <1>5, <1>7
<1>8. CASE at("|") = {} /\ at("<") = {} /\ at(">") = {}
  <2>1. Root(line, lo, hi) = lo
    BY <1>8 DEF Root
  <2>2. line[lo].c = "w"
    BY <1>8, <1>2, <1>4 DEF TokensOf, OpChar
  <2> QED
    BY <2>1, <2>2, <1>4, <1>5, <1>8
<1> QED
  BY <1>6, <1>7, <1>8

(***************************************************************************)
(* Stacks.                                                                 *)
(***************************************************************************)
(* Frames that a handler may push before it returns: none is a last frame, *)
(* and those before a frame of a pipe keep the pipe.                       *)
Called(a, m, f) ==
  \A i \in 1 .. Len(a) :
    /\ a[i].op \notin LastOp
    /\ Indexed(a[i], m.line)
    /\ a[i].op \in PipeOp =>
         Open(m, f) /\ \A j \in 1 .. i - 1 : KeepsPipe(a[j], m.line)
AllKeep(a, line) == \A i \in 1 .. Len(a) : KeepsPipe(a[i], line)

(* A frame of a pipe waits below the top of the stack. *)
PipeBelow(s) == \E i \in 2 .. Len(s) : s[i].op \in PipeOp

LEMMA CalledConcat ==
  ASSUME NEW a \in Seq(Frame), NEW b \in Seq(Frame), NEW m, NEW f,
         Called(a, m, f), Called(b, m, f),
         (\E i \in 1 .. Len(b) : b[i].op \in PipeOp) => AllKeep(a, m.line)
  PROVE  Called(a \o b, m, f)
<1>1. /\ Len(a) \in Nat /\ Len(b) \in Nat /\ Len(a \o b) = Len(a) + Len(b)
      /\ \A i \in 1 .. Len(a \o b) :
           (a \o b)[i] = IF i <= Len(a) THEN a[i] ELSE b[i - Len(a)]
  BY ConcatProperties, LenProperties
<1> SUFFICES ASSUME NEW i \in 1 .. Len(a \o b)
             PROVE  LET x == (a \o b)[i] IN
                    /\ x.op \notin LastOp
                    /\ Indexed(x, m.line)
                    /\ x.op \in PipeOp =>
                         /\ Open(m, f)
                         /\ \A j \in 1 .. i - 1 : KeepsPipe((a \o b)[j], m.line)
  BY DEF Called
<1>2. CASE i <= Len(a)
  <2>1. i \in 1 .. Len(a) /\ \A j \in 1 .. i : (a \o b)[j] = a[j]
    BY <1>1, <1>2
  <2> QED
    BY <2>1, <1>1 DEF Called
<1>3. CASE i > Len(a)
  <2> DEFINE k == i - Len(a)
  <2>1. k \in 1 .. Len(b) /\ (a \o b)[i] = b[k]
    BY <1>1, <1>3
  <2>2. ASSUME NEW j \in 1 .. i - 1, b[k].op \in PipeOp
        PROVE  KeepsPipe((a \o b)[j], m.line)
    <3>1. CASE j <= Len(a)
      BY <3>1, <2>1, <2>2, <1>1 DEF AllKeep
    <3>2. CASE j > Len(a)
      <4>1. j - Len(a) \in 1 .. k - 1 /\ (a \o b)[j] = b[j - Len(a)]
        BY <3>2, <1>1
      <4> QED
        BY <4>1, <2>1, <2>2 DEF Called
    <3> QED
      BY <3>1, <3>2, <1>1
  <2> HIDE DEF k
  <2> QED
    BY <2>1, <2>2 DEF Called
<1> QED
  BY <1>1, <1>2, <1>3

LEMMA AllKeepConcat ==
  ASSUME NEW a \in Seq(Frame), NEW b \in Seq(Frame), NEW line,
         AllKeep(a, line), AllKeep(b, line)
  PROVE  AllKeep(a \o b, line)
BY ConcatProperties, LenProperties DEF AllKeep

(* The stack after a call that pushes frames in place of its own. *)
LEMMA PushOK ==
  ASSUME NEW s \in Seq(Frame), NEW m, NEW n, NEW f, NEW g, NEW a \in Seq(Frame),
         StackOK(s, m, f), s[1].op \notin LastOp, n.line = m.line, Called(a, n, g),
         PipeBelow(s) => Open(n, g) /\ AllKeep(a, n.line),
         s[1].op = "child" => a = <<>>
  PROVE  /\ a \o Tail(s) \in Seq(Frame) /\ StackOK(a \o Tail(s), n, g)
         /\ (a \o Tail(s))[1].op \in ProgramOp => s[1].op = "child"
<1> DEFINE t == a \o Tail(s)
<1>1. Len(s) \in Nat /\ Len(s) > 1
  <2>1. Len(s) \in Nat /\ Len(s) > 0
    BY LenProperties, EmptySeq DEF StackOK
  <2> QED
    BY <2>1 DEF StackOK
<1>2. /\ Tail(s) \in Seq(Frame) /\ Len(Tail(s)) = Len(s) - 1
      /\ \A i \in 1 .. Len(s) - 1 : Tail(s)[i] = s[i + 1]
  BY <1>1, HeadTailProperties DEF StackOK
<1>3. /\ t \in Seq(Frame) /\ Len(a) \in Nat /\ Len(t) = Len(a) + Len(s) - 1
      /\ \A i \in 1 .. Len(a) : t[i] = a[i]
      /\ \A i \in Len(a) + 1 .. Len(t) : t[i] = s[i - Len(a) + 1]
  BY <1>1, <1>2, ConcatProperties, LenProperties
<1> HIDE DEF t
<1>4. t # <<>>
  BY <1>1, <1>3
<1>5. ASSUME NEW i \in 1 .. Len(a)
      PROVE  /\ t[i].op \in LastOp <=> i = Len(t)
             /\ Indexed(t[i], n.line)
             /\ t[i].op \in PipeOp =>
                  Open(n, g) /\ \A j \in 1 .. i - 1 : KeepsPipe(t[j], n.line)
             /\ t[i].op \in ProgramOp => i = 1 /\ s[1].op = "child"
  <2>1. i # Len(t)
    BY <1>1, <1>3
  <2>2. ASSUME NEW j \in 1 .. i
        PROVE  t[j] = a[j]
    <3>1. j \in 1 .. Len(a)
      BY <1>3
    <3> QED
      BY <3>1, <1>3
  <2> QED
    BY <2>1, <2>2 DEF Called, LastOp
<1>6. ASSUME NEW i \in Len(a) + 1 .. Len(t)
      PROVE  /\ t[i].op \in LastOp <=> i = Len(t)
             /\ Indexed(t[i], n.line)
             /\ t[i].op \in PipeOp =>
                  Open(n, g) /\ \A j \in 1 .. i - 1 : KeepsPipe(t[j], n.line)
             /\ t[i].op \in ProgramOp => i = 1 /\ s[1].op = "child"
  <2> DEFINE k == i - Len(a) + 1
  <2>1. k \in 2 .. Len(s) /\ t[i] = s[k] /\ (i = Len(t) <=> k = Len(s))
    <3>1. k \in 2 .. Len(s) /\ (i = Len(t) <=> k = Len(s))
      <4>1. Len(a) \in Nat /\ Len(s) \in Nat /\ Len(t) = Len(a) + Len(s) - 1
        BY <1>1, <1>3
      <4> QED
        BY <4>1
    <3>2. t[i] = s[k]
      BY <1>3
    <3> QED
      BY <3>1, <3>2
  <2>k. k = i - Len(a) + 1
    OBVIOUS
  <2> HIDE DEF k
  <2>2. (t[i].op \in LastOp <=> i = Len(t)) /\ Indexed(t[i], n.line)
    BY <2>1, <1>1 DEF StackOK
  <2>3. ASSUME t[i].op \in PipeOp, NEW j \in 1 .. i - 1
        PROVE  KeepsPipe(t[j], n.line)
    <3>1. CASE j \in 1 .. Len(a)
      BY <3>1, <2>1, <2>3, <1>3 DEF PipeBelow, AllKeep
    <3>2. CASE j \in Len(a) + 1 .. Len(t)
      <4>1. j - Len(a) + 1 \in 1 .. k - 1 /\ t[j] = s[j - Len(a) + 1]
        BY <3>2, <1>3, <1>1, <2>k
      <4> QED
        BY <4>1, <2>1, <2>3, <1>1 DEF StackOK
    <3> QED
      BY <3>1, <3>2, <1>3, <1>1
  <2>4. t[i].op \in ProgramOp => i = 1 /\ s[1].op = "child"
    <3>1. t[i].op \in ProgramOp => k = 2 /\ s[1].op = "child"
      BY <2>1, <1>1 DEF StackOK
    <3>2. s[1].op = "child" /\ k = 2 => i = 1
      BY <2>k, <1>3, EmptySeq
    <3> QED
      BY <3>1, <3>2
  <2> QED
    BY <2>1, <2>2, <2>3, <2>4 DEF PipeBelow
<1>7. \A i \in 1 .. Len(t) : i \in 1 .. Len(a) \/ i \in Len(a) + 1 .. Len(t)
  BY <1>1, <1>3
<1>8. StackOK(t, n, g)
  BY <1>4, <1>5, <1>6, <1>7 DEF StackOK
<1>9. t[1].op \in ProgramOp => s[1].op = "child"
  <2>1. 1 \in 1 .. Len(t)
    BY <1>1, <1>3
  <2> QED
    BY <2>1, <1>5, <1>6, <1>7
<1> QED
  BY <1>3, <1>8, <1>9 DEF t

(* The frames of recurse_bst on a part of the line. *)
LEMMA BstOK ==
  ASSUME NEW m, NEW g, m.line \in Lines \cup {<<>>}, NEW l \in Nat, NEW h \in Nat,
         1 <= l, h <= Len(m.line)
  PROVE  /\ Bst(l, h) \in Seq(Frame)
         /\ Called(Bst(l, h), m, g)
         /\ \A i \in 1 .. Len(Bst(l, h)) : Bst(l, h)[i].op = "bst"
         /\ TokensOf(m.line, l, h, "|") = {} => AllKeep(Bst(l, h), m.line)
<1> DEFINE f == On("bst", l, h, Nobody)
<1>1. CASE l > h
  BY <1>1, EmptySeq DEF Bst, Called, AllKeep
<1>2. CASE ~ (l > h)
  <2>1. f \in Frame /\ f.op = "bst" /\ f.lo = l /\ f.hi = h
    BY DEF Frame, On, FrameOp
  <2>2. Indexed(f, m.line)
    BY <2>1, <1>2, LineType DEF Indexed, ProgramOp, ProgramKind
  <2>3. TokensOf(m.line, l, h, "|") = {} => KeepsPipe(f, m.line)
    BY <2>1 DEF KeepsPipe
  <2>4. f.op \notin LastOp /\ f.op \notin PipeOp
    BY <2>1 DEF LastOp, PipeOp, ProgramOp, ProgramKind
  <2>5. Bst(l, h) = <<f>>
    BY <1>2 DEF Bst
  <2>6. <<f>> \in Seq(Frame) /\ Len(<<f>>) = 1 /\ <<f>>[1] = f
    BY <2>1
  <2> HIDE DEF f
  <2> QED
    BY <2>1, <2>2, <2>3, <2>4, <2>5, <2>6 DEF Called, AllKeep
<1> QED
  BY <1>1, <1>2

(* What an action knows of the process that takes it. *)
LEMMA RunningFrame ==
  ASSUME IInv, NEW p \in Pid, st[p] \in {"run", "stop"}
  PROVE  /\ todo[p] \in Seq(Frame) /\ todo[p] # <<>> /\ StackOK(todo[p], mem[p], fd[p])
         /\ Top(p) = todo[p][1] /\ Top(p) \in Frame
         /\ Len(todo[p]) \in Nat /\ Len(todo[p]) >= 1
         /\ Top(p).op \in LastOp <=> Len(todo[p]) = 1
         /\ mem[p] \in Memory /\ mem[p].line \in Lines \cup {<<>>}
         /\ Indexed(Top(p), mem[p].line)
         /\ Top(p).op \in PipeOp =>
              Open(mem[p], fd[p]) /\ mem[p].r \in PipeId /\ mem[p].w \in PipeId
         /\ PipeBelow(todo[p]) =>
              Open(mem[p], fd[p]) /\ KeepsPipe(Top(p), mem[p].line)
         /\ Top(p).op \in ProgramOp => sig[p].int = "default" /\ sig[p].job = "default"
<1>1. todo[p] \in Seq(Frame) /\ mem[p] \in Memory /\ StackOK(todo[p], mem[p], fd[p])
  BY DEF IInv, TypeOK, Grounded
<1>2. todo[p] # <<>>
  BY <1>1 DEF StackOK
<1>3. Len(todo[p]) \in Nat /\ Len(todo[p]) >= 1
  BY <1>1, <1>2, EmptySeq
<1>4. Top(p) = todo[p][1] /\ Top(p) \in Frame
  BY <1>1, <1>2, <1>3, ElementOfSeq DEF Top
<1>5. ASSUME PipeBelow(todo[p])
      PROVE  Open(mem[p], fd[p]) /\ KeepsPipe(Top(p), mem[p].line)
  <2>1. PICK i \in 2 .. Len(todo[p]) : todo[p][i].op \in PipeOp
    BY <1>5 DEF PipeBelow
  <2>2. i \in 1 .. Len(todo[p]) /\ 1 \in 1 .. i - 1
    BY <2>1, <1>3
  <2>3. /\ Open(mem[p], fd[p])
        /\ \A j \in 1 .. i - 1 : KeepsPipe(todo[p][j], mem[p].line)
    BY <2>1, <2>2, <1>1 DEF StackOK
  <2> QED
    BY <2>2, <2>3, <1>4
<1>6. /\ Indexed(Top(p), mem[p].line)
      /\ Top(p).op \in LastOp <=> Len(todo[p]) = 1
      /\ Top(p).op \in PipeOp => Open(mem[p], fd[p])
  <2>1. 1 \in 1 .. Len(todo[p]) /\ (1 = Len(todo[p]) <=> Len(todo[p]) = 1)
    BY <1>3
  <2> QED
    BY <2>1, <1>1, <1>4 DEF StackOK
<1>7. mem[p].line \in Lines \cup {<<>>}
  BY <1>1 DEF Memory
<1>8. fd[p].rd \subseteq PipeId /\ fd[p].wr \subseteq PipeId
  BY DEF IInv, TypeOK, Descriptors
<1>9. Top(p).op \in ProgramOp => sig[p].int = "default" /\ sig[p].job = "default"
  BY <1>4 DEF IInv, Grounded, Ready
<1> QED
  BY <1>1, <1>2, <1>3, <1>4, <1>5, <1>6, <1>7, <1>8, <1>9 DEF Open

(* What an action of p leaves alone. *)
Others(p) == \A q \in Pid \ {p} : fd'[q] = fd[q] /\ sig'[q] = sig[q]
SamePipes(p) == fd'[p].rd = fd[p].rd /\ fd'[p].wr = fd[p].wr

(* A process returns to its caller, after pushing the frames a and         *)
(* changing its own memory to m.                                           *)
LEMMA ReturnOK ==
  ASSUME IInv, NEW p \in Pid, st[p] = "run", Top(p).op \notin LastOp,
         NEW a \in Seq(Frame), NEW m \in Memory, m.line = mem[p].line,
         Called(a, m, fd'[p]),
         PipeBelow(todo[p]) => Open(m, fd'[p]) /\ AllKeep(a, m.line),
         Top(p).op = "child" =>
           a = <<>> /\ sig'[p].int = "default" /\ sig'[p].job = "default",
         Others(p),
         todo' = Return(p, a),
         mem' = [mem EXCEPT ![p] = m],
         \A q \in Pid : st'[q] \in {"run", "stop"} => st[q] \in {"run", "stop"}
  PROVE  todo' \in [Pid -> Seq(Frame)] /\ mem' \in [Pid -> Memory] /\ Grounded'
<1> DEFINE t == a \o Tail(todo[p])
<1>1. /\ t \in Seq(Frame) /\ StackOK(t, m, fd'[p])
      /\ t[1].op \in ProgramOp => Top(p).op = "child"
  <2> DEFINE s == todo[p]
             g == fd'[p]
  <2>1. /\ s \in Seq(Frame) /\ StackOK(s, mem[p], fd[p])
        /\ s[1] = Top(p) /\ s[1].op \notin LastOp
    BY RunningFrame
  <2>2. /\ Called(a, m, g) /\ (PipeBelow(s) => Open(m, g) /\ AllKeep(a, m.line))
        /\ s[1].op = "child" => a = <<>>
    BY <2>1
  <2> HIDE DEF s, g
  <2>3. /\ a \o Tail(s) \in Seq(Frame) /\ StackOK(a \o Tail(s), m, g)
        /\ (a \o Tail(s))[1].op \in ProgramOp => s[1].op = "child"
    BY <2>1, <2>2, PushOK
  <2> QED
    BY <2>1, <2>3 DEF s, g
<1>2. todo \in [Pid -> Seq(Frame)] /\ mem \in [Pid -> Memory]
  BY DEF IInv, TypeOK
<1>3. todo' = [todo EXCEPT ![p] = t]
  BY <1>2 DEF Return
<1> HIDE DEF t
<1>4. Ready(t, sig'[p])
  BY <1>1 DEF Ready
<1>5. ASSUME NEW q \in Pid, st'[q] \in {"run", "stop"}
      PROVE  StackOK(todo'[q], mem'[q], fd'[q]) /\ Ready(todo'[q], sig'[q])
  <2>1. CASE q = p
    BY <2>1, <1>1, <1>2, <1>3, <1>4
  <2>2. CASE q # p
    BY <2>2, <1>2, <1>3, <1>5 DEF IInv, Grounded, Others
  <2> QED
    BY <2>1, <2>2
<1> QED
  BY <1>1, <1>2, <1>3, <1>5 DEF Grounded

(* The same, when sh->pipe and its descriptors do not change. *)
LEMMA SetOK ==
  ASSUME IInv, NEW p \in Pid, st[p] = "run", Top(p).op \notin LastOp \cup {"child"},
         NEW a \in Seq(Frame), NEW m \in Memory,
         m.line = mem[p].line, m.r = mem[p].r, m.w = mem[p].w,
         Called(a, m, fd'[p]), PipeBelow(todo[p]) => AllKeep(a, m.line),
         Others(p), SamePipes(p),
         todo' = Return(p, a),
         mem' = [mem EXCEPT ![p] = m],
         \A q \in Pid : st'[q] \in {"run", "stop"} => st[q] \in {"run", "stop"}
  PROVE  todo' \in [Pid -> Seq(Frame)] /\ mem' \in [Pid -> Memory] /\ Grounded'
<1>1. PipeBelow(todo[p]) => Open(m, fd'[p])
  BY RunningFrame DEF SamePipes, Open
<1> QED
  BY <1>1, ReturnOK

LEMMA SameAll ==
  ASSUME NEW p \in Pid, fd' = fd
  PROVE  SamePipes(p) /\ (sig' = sig => Others(p))
BY DEF SamePipes, Others

(* The same, when its memory and its pipes do not change. *)
LEMMA CallOK ==
  ASSUME IInv, NEW p \in Pid, st[p] = "run", Top(p).op \notin LastOp,
         NEW a \in Seq(Frame), Called(a, mem[p], fd'[p]),
         PipeBelow(todo[p]) => AllKeep(a, mem[p].line),
         Top(p).op = "child" =>
           a = <<>> /\ sig'[p].int = "default" /\ sig'[p].job = "default",
         Others(p), SamePipes(p),
         todo' = Return(p, a), mem' = mem, st' = st
  PROVE  todo' \in [Pid -> Seq(Frame)] /\ Grounded'
<1>1. mem[p] \in Memory /\ mem' = [mem EXCEPT ![p] = mem[p]]
  BY DEF IInv, TypeOK
<1>2. PipeBelow(todo[p]) => Open(mem[p], fd'[p])
  BY RunningFrame DEF SamePipes, Open
<1> QED
  BY <1>1, <1>2, ReturnOK

(* A process forks c, which runs the frames b, and goes on with a. *)
LEMMA ForkOK ==
  ASSUME IInv, NEW p \in Pid, st[p] = "run", Top(p).op \notin LastOp \cup {"child"},
         NEW c \in FreePid, NEW a \in Seq(Frame), NEW b \in Seq(Frame),
         Called(a, mem[p], fd'[p]), PipeBelow(todo[p]) => AllKeep(a, mem[p].line),
         StackOK(b, mem[p], fd[p]), b[1].op \notin ProgramOp,
         st' = [st EXCEPT ![c] = "run"],
         todo' = [Return(p, a) EXCEPT ![c] = b],
         mem' = [mem EXCEPT ![c] = mem[p]],
         \A q \in Pid \ {c} : sig'[q] = sig[q],
         \A q \in Pid \ {p, c} : fd'[q] = fd[q],
         SamePipes(p), fd'[c].rd = fd[p].rd, fd'[c].wr = fd[p].wr
  PROVE  /\ st' \in [Pid -> {"none", "run", "stop", "zombie"}]
         /\ todo' \in [Pid -> Seq(Frame)]
         /\ mem' \in [Pid -> Memory]
         /\ Grounded'
<1> DEFINE t == a \o Tail(todo[p])
<1>1. /\ t \in Seq(Frame) /\ StackOK(t, mem[p], fd'[p])
      /\ t[1].op \notin ProgramOp
  <2>1. PipeBelow(todo[p]) => Open(mem[p], fd'[p])
    BY RunningFrame DEF SamePipes, Open
  <2> DEFINE s == todo[p]
             g == fd'[p]
  <2>2. /\ s \in Seq(Frame) /\ StackOK(s, mem[p], fd[p])
        /\ s[1] = Top(p) /\ s[1].op \notin LastOp /\ s[1].op # "child"
    BY RunningFrame
  <2>3. /\ Called(a, mem[p], g)
        /\ PipeBelow(s) => Open(mem[p], g) /\ AllKeep(a, mem[p].line)
    BY <2>1
  <2> HIDE DEF s, g
  <2>4. /\ a \o Tail(s) \in Seq(Frame) /\ StackOK(a \o Tail(s), mem[p], g)
        /\ (a \o Tail(s))[1].op \notin ProgramOp
    BY <2>2, <2>3, PushOK
  <2> QED
    BY <2>4 DEF s, g
<1>2. /\ todo \in [Pid -> Seq(Frame)] /\ mem \in [Pid -> Memory]
      /\ st \in [Pid -> {"none", "run", "stop", "zombie"}]
  BY DEF IInv, TypeOK
<1>3. c \in Pid /\ c # p
  BY DEF FreePid
<1>4. todo' = [[todo EXCEPT ![p] = t] EXCEPT ![c] = b]
  BY <1>2 DEF Return
<1> HIDE DEF t
<1>5. StackOK(b, mem[p], fd'[c])
  BY DEF StackOK, Open
<1>6. ASSUME NEW q \in Pid, st'[q] \in {"run", "stop"}
      PROVE  StackOK(todo'[q], mem'[q], fd'[q]) /\ Ready(todo'[q], sig'[q])
  <2>1. CASE q = p
    BY <2>1, <1>1, <1>2, <1>3, <1>4 DEF Ready
  <2>2. CASE q = c
    BY <2>2, <1>2, <1>3, <1>4, <1>5 DEF Ready
  <2>3. CASE q # p /\ q # c
    <3>1. /\ todo'[q] = todo[q] /\ mem'[q] = mem[q] /\ st'[q] = st[q]
          /\ fd'[q] = fd[q] /\ sig'[q] = sig[q]
      BY <2>3, <1>2, <1>3, <1>4
    <3> QED
      BY <3>1, <1>6 DEF IInv, Grounded
  <2> QED
    BY <2>1, <2>2, <2>3
<1>7. Grounded'
  BY <1>6 DEF Grounded
<1>8. todo' \in [Pid -> Seq(Frame)]
  BY <1>1, <1>2, <1>4
<1>9. /\ st' \in [Pid -> {"none", "run", "stop", "zombie"}]
      /\ mem' \in [Pid -> Memory]
  BY <1>2
<1> QED
  BY <1>7, <1>8, <1>9

(* Processes end. *)
LEMMA EndOK ==
  ASSUME IInv, NEW D \in SUBSET Pid, NEW status \in [D -> Nat], End(status)
  PROVE  /\ st' \in [Pid -> {"none", "run", "stop", "zombie"}]
         /\ par' \in [Pid -> Pid \cup {Nobody}]
         /\ todo' \in [Pid -> Seq(Frame)]
         /\ fd' \in [Pid -> Descriptors]
         /\ mem' \in [Pid -> Memory]
         /\ sig' \in [Pid -> Signals]
         /\ ws' \in [Pid -> Nat]
         /\ Grounded'
<1> USE DEF IInv, TypeOK
<1>1. DOMAIN status = D
  OBVIOUS
<1>2. /\ Closed \in Descriptors /\ Blank \in Memory /\ DefaultSignals \in Signals
      /\ <<>> \in Seq(Frame)
  BY EmptySeq DEF Closed, Descriptors, Object, Blank, Memory, DefaultSignals,
                  Signals, Disposition
<1>3. /\ st' \in [Pid -> {"none", "run", "stop", "zombie"}]
      /\ par' \in [Pid -> Pid \cup {Nobody}]
      /\ ws' \in [Pid -> Nat]
  BY <1>1 DEF End
<1>4. /\ todo' \in [Pid -> Seq(Frame)]
      /\ fd' \in [Pid -> Descriptors]
      /\ mem' \in [Pid -> Memory]
      /\ sig' \in [Pid -> Signals]
  BY <1>1, <1>2 DEF End
<1>5. ASSUME NEW q \in Pid, st'[q] \in {"run", "stop"}
      PROVE  StackOK(todo'[q], mem'[q], fd'[q]) /\ Ready(todo'[q], sig'[q])
  <2>1. q \notin D /\ st[q] \in {"run", "stop"}
    BY <1>1, <1>5 DEF End
  <2>2. /\ todo'[q] = todo[q] /\ mem'[q] = mem[q]
        /\ fd'[q] = fd[q] /\ sig'[q] = sig[q]
    BY <2>1, <1>1 DEF End
  <2> QED
    BY <2>1, <2>2 DEF Grounded
<1> QED
  BY <1>3, <1>4, <1>5 DEF Grounded

(* The frames that a handler pushes for the parts of its node. *)
LEMMA NodeParts ==
  ASSUME IInv, NEW p \in Pid, st[p] = "run", Top(p).op \in NodeOp,
         NEW m, NEW g, m.line = mem[p].line
  PROVE  /\ Top(p).lo \in 1 .. Top(p).hi /\ Top(p).hi \in 1 .. Len(m.line)
         /\ RootAt(p) \in Top(p).lo .. Top(p).hi
         /\ KindAt(p) = TypeAssign(RootToken(p))
         /\ KindAt(p) = "COMMAND" => m.line[Top(p).lo].c = "w"
         /\ LeftBst(p) \in Seq(Frame) /\ Called(LeftBst(p), m, g)
         /\ RightBst(p) \in Seq(Frame) /\ Called(RightBst(p), m, g)
         /\ TreeTransversal(p) \in Seq(Frame) /\ Called(TreeTransversal(p), m, g)
         /\ LeftKind(p) = "HEREDOC" => AllKeep(LeftBst(p), m.line)
         /\ RightKind(p) = "HEREDOC" => AllKeep(RightBst(p), m.line)
         /\ TokensOf(m.line, Top(p).lo, Top(p).hi, "|") = {} =>
              AllKeep(TreeTransversal(p), m.line)
<1> DEFINE lo == Top(p).lo
           hi == Top(p).hi
           line == mem[p].line
           r == RootAt(p)
           before == r - 1
           after == r + 1
<1>1. /\ line \in Lines \cup {<<>>} /\ lo \in 1 .. hi /\ hi \in 1 .. Len(line)
      /\ Len(line) \in Nat /\ lo \in Nat /\ hi \in Nat
  BY RunningFrame, LineType DEF Indexed
<1>2. /\ r \in lo .. hi /\ KindAt(p) = TypeAssign(RootToken(p))
      /\ KindAt(p) = "COMMAND" => line[lo].c = "w"
  BY <1>1, RootInside DEF KindAt, RootAt, RootToken
<1>3. /\ before \in Nat /\ after \in Nat /\ 1 <= after /\ 1 <= lo
      /\ before <= Len(line) /\ hi <= Len(line)
      /\ before <= hi /\ lo <= after
  BY <1>1, <1>2
<1>4. /\ LeftBst(p) = Bst(lo, before) /\ RightBst(p) = Bst(after, hi)
      /\ LeftKind(p) = Kind(line, lo, before) /\ RightKind(p) = Kind(line, after, hi)
  BY DEF LeftBst, RightBst, LeftKind, RightKind
<1> HIDE DEF lo, hi, line, r, before, after
<1>5. /\ LeftBst(p) \in Seq(Frame) /\ Called(LeftBst(p), m, g)
      /\ \A i \in 1 .. Len(LeftBst(p)) : LeftBst(p)[i].op = "bst"
      /\ TokensOf(line, lo, before, "|") = {} => AllKeep(LeftBst(p), line)
  <2>1. m.line = line /\ m.line \in Lines \cup {<<>>}
    BY <1>1 DEF line
  <2>2. /\ Bst(lo, before) \in Seq(Frame) /\ Called(Bst(lo, before), m, g)
        /\ \A i \in 1 .. Len(Bst(lo, before)) : Bst(lo, before)[i].op = "bst"
        /\ TokensOf(line, lo, before, "|") = {} => AllKeep(Bst(lo, before), line)
    <3>1. lo \in Nat /\ before \in Nat /\ 1 <= lo /\ before <= Len(m.line)
      BY <1>1, <1>3, <2>1
    <3>2. /\ Bst(lo, before) \in Seq(Frame) /\ Called(Bst(lo, before), m, g)
          /\ \A i \in 1 .. Len(Bst(lo, before)) : Bst(lo, before)[i].op = "bst"
          /\ TokensOf(m.line, lo, before, "|") = {} => AllKeep(Bst(lo, before), m.line)
      BY <2>1, <3>1, BstOK
    <3> QED
      BY <2>1, <3>2
  <2> QED
    BY <2>2, <1>4
<1>6. /\ RightBst(p) \in Seq(Frame) /\ Called(RightBst(p), m, g)
      /\ TokensOf(line, after, hi, "|") = {} => AllKeep(RightBst(p), line)
  <2>1. m.line = line /\ m.line \in Lines \cup {<<>>}
    BY <1>1 DEF line
  <2>2. /\ Bst(after, hi) \in Seq(Frame) /\ Called(Bst(after, hi), m, g)
        /\ \A i \in 1 .. Len(Bst(after, hi)) : Bst(after, hi)[i].op = "bst"
        /\ TokensOf(line, after, hi, "|") = {} => AllKeep(Bst(after, hi), line)
    <3>1. after \in Nat /\ hi \in Nat /\ 1 <= after /\ hi <= Len(m.line)
      BY <1>1, <1>3, <2>1
    <3>2. /\ Bst(after, hi) \in Seq(Frame) /\ Called(Bst(after, hi), m, g)
          /\ \A i \in 1 .. Len(Bst(after, hi)) : Bst(after, hi)[i].op = "bst"
          /\ TokensOf(m.line, after, hi, "|") = {} => AllKeep(Bst(after, hi), m.line)
      BY <2>1, <3>1, BstOK
    <3> QED
      BY <2>1, <3>2
  <2> QED
    BY <2>2, <1>4
<1>7. LeftKind(p) = "HEREDOC" => AllKeep(LeftBst(p), line)
  <2>1. CASE lo > before
    BY <2>1, <1>4 DEF Kind
  <2>2. CASE ~ (lo > before)
    <3>1. lo \in 1 .. before /\ before \in 1 .. Len(line)
      BY <2>2, <1>1, <1>3
    <3> QED
      BY <3>1, <1>1, <1>4, <1>5, RootInside
  <2> QED
    BY <2>1, <2>2
<1>8. RightKind(p) = "HEREDOC" => AllKeep(RightBst(p), line)
  <2>1. CASE after > hi
    BY <2>1, <1>4 DEF Kind
  <2>2. CASE ~ (after > hi)
    <3>1. after \in 1 .. hi
      BY <2>2, <1>1, <1>3
    <3> QED
      BY <3>1, <1>1, <1>3, <1>4, <1>6, RootInside
  <2> QED
    BY <2>1, <2>2
<1>9. TokensOf(line, lo, hi, "|") = {} =>
        AllKeep(LeftBst(p), line) /\ AllKeep(RightBst(p), line)
  <2>1. TokensOf(line, lo, hi, "|") = {} =>
          TokensOf(line, lo, before, "|") = {} /\ TokensOf(line, after, hi, "|") = {}
    BY <1>1, <1>3 DEF TokensOf
  <2> QED
    BY <2>1, <1>5, <1>6
<1>10. <<>> \in Seq(Frame) /\ Called(<<>>, m, g) /\ AllKeep(<<>>, line)
  BY EmptySeq DEF Called, AllKeep
<1>11. /\ TreeTransversal(p) \in Seq(Frame)
       /\ TokensOf(line, lo, hi, "|") = {} => AllKeep(TreeTransversal(p), line)
  BY <1>5, <1>6, <1>9, <1>10, AllKeepConcat, ConcatProperties DEF TreeTransversal
<1>12. Called(TreeTransversal(p), m, g)
  BY <1>5, <1>6, <1>10, CalledConcat DEF TreeTransversal, PipeOp
<1> QED
  BY <1>1, <1>2, <1>5, <1>6, <1>7, <1>8, <1>11, <1>12 DEF lo, hi, line, r

(***************************************************************************)
(* The actions, one by one.                                                *)
(***************************************************************************)
LEMMA NothingPushed ==
  ASSUME NEW m, NEW g
  PROVE  <<>> \in Seq(Frame) /\ Called(<<>>, m, g) /\ AllKeep(<<>>, m.line)
BY EmptySeq DEF Called, AllKeep

(* A process exits. *)
LEMMA ExitOK ==
  ASSUME IInv, NEW p \in Pid, NEW code \in Nat, Exit(p, code),
         data' \in [Object -> Nat], present' \in SUBSET File,
         tmp' \in Doc \cup {NoDoc}, tty' \in {"previous", "current"},
         nlines' \in 0 .. MaxLines, nsig' \in 0 .. MaxSig
  PROVE  IInv'
<1>1. [q \in {p} |-> code] \in [{p} -> Nat] /\ {p} \in SUBSET Pid
  OBVIOUS
<1>2. End([q \in {p} |-> code])
  BY DEF Exit
<1> QED
  BY <1>1, <1>2, EndOK DEF IInv, TypeOK

LEMMA StatusIsNat ==
  /\ \A code \in Nat : Exited(code) \in Nat /\ ExitStatus(code) \in Nat
  /\ \A n \in {SIGINT, SIGQUIT, SIGKILL, SIGPIPE} : Killed(n) \in Nat
BY DEF Exited, ExitStatus, Killed, SIGINT, SIGQUIT, SIGKILL, SIGPIPE

LEMMA WaitEndedOK ==
  ASSUME IInv, NEW p \in Pid, WaitEnded(p)  PROVE IInv'
<1>1. st[p] = "run" /\ Top(p).op = "wait" /\ Top(p).op \notin LastOp
  BY DEF WaitEnded, At, LastOp, ProgramOp, ProgramKind
<1> DEFINE c == Top(p).ref
           m == [mem[p] EXCEPT !.g = ws[c]]
<1>2. c \in Pid /\ st[c] = "zombie"
  BY <1>1, RunningFrame DEF Indexed, WaitEnded, Reapable
<1>3. ws[c] \in Nat /\ mem \in [Pid -> Memory] /\ st \in [Pid -> {"none", "run", "stop", "zombie"}]
  BY <1>2 DEF IInv, TypeOK
<1>4. m.line = mem[p].line /\ m.r = mem[p].r /\ m.w = mem[p].w /\ m \in Memory
  BY <1>3 DEF Memory
<1>5. /\ mem' = [mem EXCEPT ![p] = m] /\ st' = [st EXCEPT ![c] = "none"]
      /\ todo' = Return(p, <<>>)
  BY DEF WaitEnded
<1>6. \A q \in Pid : st'[q] \in {"run", "stop"} => st[q] \in {"run", "stop"}
  BY <1>3, <1>5
<1> HIDE DEF m, c
<1>7. todo' \in [Pid -> Seq(Frame)] /\ mem' \in [Pid -> Memory] /\ Grounded'
  <2>1. Others(p) /\ SamePipes(p)
    BY SameAll DEF WaitEnded
  <2> QED
    BY <1>1, <1>4, <1>5, <1>6, <2>1, NothingPushed, SetOK
<1> QED
  BY <1>7 DEF WaitEnded, IInv, TypeOK, disk, user

LEMMA WaitStoppedOK ==
  ASSUME IInv, NEW p \in Pid, WaitStopped(p)  PROVE IInv'
<1>1. Top(p).ref \in Pid
  BY RunningFrame DEF WaitStopped, At, Indexed
<1> QED
  BY <1>1, StatusIsNat, ExitOK DEF WaitStopped, disk, user, IInv, TypeOK

LEMMA SigintIgnoreOK ==
  ASSUME IInv, NEW p \in Pid, SigintIgnore(p)  PROVE IInv'
<1>1. st[p] = "run" /\ Top(p).op \notin LastOp /\ todo' = Return(p, <<>>)
  BY DEF SigintIgnore, At, LastOp, ProgramOp, ProgramKind
<1>2. todo' \in [Pid -> Seq(Frame)] /\ Grounded'
  <2>1. Others(p) /\ SamePipes(p)
    BY DEF SigintIgnore, Others, SamePipes, IInv, TypeOK
  <2>2. Top(p).op # "child"
    BY DEF SigintIgnore, At
  <2> QED
    BY <1>1, <2>1, <2>2, NothingPushed, CallOK DEF SigintIgnore, procs
<1>3. sig' \in [Pid -> Signals]
  <2>1. sig \in [Pid -> Signals] /\ sig[p] \in Signals
    BY DEF IInv, TypeOK
  <2>2. sig[p].int \in Disposition /\ sig[p].job \in {"ignore", "default"} /\ sig[p].old \in Disposition
    BY <2>1 DEF Signals
  <2> QED
    BY <2>1, <2>2 DEF SigintIgnore, Signals, Disposition
<1> QED
  BY <1>2, <1>3 DEF SigintIgnore, IInv, TypeOK, procs, disk, user

LEMMA SigintRestoreOK ==
  ASSUME IInv, NEW p \in Pid, SigintRestore(p)  PROVE IInv'
<1>1. st[p] = "run" /\ Top(p).op \notin LastOp /\ todo' = Return(p, <<>>)
  BY DEF SigintRestore, At, LastOp, ProgramOp, ProgramKind
<1> DEFINE m == [mem[p] EXCEPT !.g = ExitStatus(mem[p].g)]
<1>2. mem \in [Pid -> Memory] /\ mem' = [mem EXCEPT ![p] = m]
  BY DEF SigintRestore, IInv, TypeOK
<1>3. /\ m \in Memory /\ m.line = mem[p].line /\ m.r = mem[p].r /\ m.w = mem[p].w
  BY <1>2, StatusIsNat DEF Memory
<1> HIDE DEF m
<1>4. todo' \in [Pid -> Seq(Frame)] /\ mem' \in [Pid -> Memory] /\ Grounded'
  <2>1. Others(p) /\ SamePipes(p)
    BY DEF SigintRestore, Others, SamePipes, IInv, TypeOK
  <2>2. Top(p).op # "child"
    BY DEF SigintRestore, At
  <2>3. st' = st
    BY DEF SigintRestore, procs
  <2> QED
    BY <1>1, <1>2, <1>3, <2>1, <2>2, <2>3, NothingPushed, SetOK
<1>5. sig' \in [Pid -> Signals]
  <2>1. sig \in [Pid -> Signals] /\ sig[p] \in Signals
    BY DEF IInv, TypeOK
  <2>2. sig[p].int \in Disposition /\ sig[p].job \in {"ignore", "default"} /\ sig[p].old \in Disposition
    BY <2>1 DEF Signals
  <2> QED
    BY <2>1, <2>2 DEF SigintRestore, Signals, Disposition
<1> QED
  BY <1>4, <1>5 DEF SigintRestore, IInv, TypeOK, procs, disk, user

LEMMA ChildRestoreSignalsOK ==
  ASSUME IInv, NEW p \in Pid, ChildRestoreSignals(p)  PROVE IInv'
<1>1. st[p] = "run" /\ Top(p).op \notin LastOp /\ todo' = Return(p, <<>>)
  BY DEF ChildRestoreSignals, At, LastOp, ProgramOp, ProgramKind
<1>2. todo' \in [Pid -> Seq(Frame)] /\ Grounded'
  <2>1. /\ Others(p) /\ SamePipes(p)
        /\ sig'[p].int = "default" /\ sig'[p].job = "default"
    <3>1. sig \in [Pid -> Signals] /\ sig[p] \in Signals
      BY DEF IInv, TypeOK
    <3> QED
      BY <3>1 DEF ChildRestoreSignals, Others, SamePipes, Signals
  <2>2. st' = st /\ mem' = mem
    BY DEF ChildRestoreSignals, procs
  <2> QED
    BY <1>1, <2>1, <2>2, NothingPushed, CallOK
<1>3. sig' \in [Pid -> Signals]
  <2>1. sig \in [Pid -> Signals] /\ sig[p] \in Signals
    BY DEF IInv, TypeOK
  <2>2. sig[p].int \in Disposition /\ sig[p].job \in {"ignore", "default"} /\ sig[p].old \in Disposition
    BY <2>1 DEF Signals
  <2> QED
    BY <2>1, <2>2 DEF ChildRestoreSignals, Signals, Disposition
<1> QED
  BY <1>2, <1>3 DEF ChildRestoreSignals, IInv, TypeOK, procs, disk, user

(* Awaiting a child pushes frames that leave the pipe alone. *)
LEMMA AwaitPushed ==
  ASSUME NEW c \in Pid, NEW m, NEW g
  PROVE  Await(c) \in Seq(Frame) /\ Called(Await(c), m, g) /\ AllKeep(Await(c), m.line)
<1> DEFINE w == On("wait", 0, 0, c)
<1>1. Do("ignore") \in Frame /\ w \in Frame /\ Do("restore") \in Frame
  BY DEF Do, On, Frame, FrameOp
<1>2. /\ Await(c) \in Seq(Frame) /\ Len(Await(c)) = 3
      /\ Await(c)[1].op = "ignore" /\ Await(c)[2].op = "wait"
      /\ Await(c)[2].ref = c /\ Await(c)[3].op = "restore"
  BY <1>1 DEF Await, Do, On
<1>3. \A i \in 1 .. Len(Await(c)) : i = 1 \/ i = 2 \/ i = 3
  BY <1>2
<1>4. \A i \in 1 .. Len(Await(c)) :
        /\ Await(c)[i].op \in {"ignore", "wait", "restore"}
        /\ Await(c)[i].op = "wait" => Await(c)[i].ref \in Pid
  BY <1>2, <1>3
<1>5. Called(Await(c), m, g)
  BY <1>4 DEF Called, Indexed, LastOp, NodeOp, ProgramOp, ProgramKind, PipeOp
<1>6. AllKeep(Await(c), m.line)
  BY <1>4 DEF AllKeep, KeepsPipe
<1> QED
  BY <1>2, <1>5, <1>6

LEMMA ReadLineOK ==
  ASSUME IInv, NEW p \in Pid, ReadLine(p)  PROVE IInv'
<1>1. PICK line \in Lines :
        /\ mem' = [mem EXCEPT ![p].line = line]
        /\ todo' = [todo EXCEPT ![p] = Bst(1, Len(line)) \o <<Do("reset")>> \o @]
  BY DEF ReadLine
<1> DEFINE m == [mem[p] EXCEPT !.line = line]
           a == Bst(1, Len(line)) \o <<Do("reset")>>
           r == Do("reset")
           s == <<r>> \o todo[p]
<1>2. /\ todo \in [Pid -> Seq(Frame)] /\ mem \in [Pid -> Memory]
      /\ st[p] = "run" /\ st' = st /\ Top(p).op = "prompt"
  BY DEF ReadLine, At, IInv, TypeOK, procs
<1>3. m \in Memory /\ m.line = line /\ mem' = [mem EXCEPT ![p] = m]
  BY <1>1, <1>2 DEF Memory
<1>4. /\ todo[p] \in Seq(Frame) /\ Len(todo[p]) = 1 /\ todo[p][1].op = "prompt"
      /\ StackOK(todo[p], mem[p], fd[p])
  BY <1>2, RunningFrame DEF LastOp
<1>5. r \in Frame /\ r.op = "reset"
  BY DEF Frame, Do, On, FrameOp
<1>6. /\ line \in Lines \cup {<<>>} /\ 1 \in Nat /\ Len(line) \in Nat /\ Len(line) <= Len(line)
  BY LineType
<1> HIDE DEF m, r
<1>7. <<r>> \in Seq(Frame) /\ Called(<<r>>, m, fd'[p]) /\ AllKeep(<<r>>, m.line)
  <2>1. /\ r.op \notin LastOp /\ r.op \notin PipeOp /\ Indexed(r, m.line)
        /\ KeepsPipe(r, m.line)
    BY <1>5 DEF Indexed, KeepsPipe, LastOp, NodeOp, PipeOp, ProgramOp, ProgramKind
  <2> QED
    BY <1>5, <2>1 DEF Called, AllKeep
<1>8. a \in Seq(Frame) /\ Called(a, m, fd'[p])
  <2>1. Bst(1, Len(line)) \in Seq(Frame) /\ Called(Bst(1, Len(line)), m, fd'[p])
    <3>1. m.line \in Lines \cup {<<>>} /\ 1 <= 1 /\ Len(line) <= Len(m.line)
      BY <1>3, <1>6
    <3> QED
      BY <3>1, <1>6, BstOK, Zenon
  <2>2. ~ \E i \in 1 .. Len(<<r>>) : <<r>>[i].op \in PipeOp
    BY <1>5 DEF PipeOp
  <2>3. a = Bst(1, Len(line)) \o <<r>>
    BY DEF r
  <2> HIDE DEF a
  <2> QED
    BY <2>1, <2>2, <2>3, <1>7, CalledConcat, ConcatProperties
<1>9. /\ s \in Seq(Frame) /\ Len(s) = 2 /\ s[1] = r /\ s[2] = todo[p][1]
      /\ Tail(s) = todo[p]
  <2>1. s \in Seq(Frame) /\ Len(s) = 2 /\ s[1] = r /\ s[2] = todo[p][1] /\ s # <<>>
    <3>1. <<r>> \in Seq(Frame) /\ Len(<<r>>) = 1 /\ <<r>>[1] = r
      BY <1>5
    <3>2. /\ s \in Seq(Frame) /\ Len(s) = 2
          /\ \A i \in 1 .. 2 : s[i] = IF i <= 1 THEN <<r>>[i] ELSE todo[p][i - 1]
      <4> DEFINE u == <<r>>
      <4>1. u \in Seq(Frame) /\ Len(u) = 1 /\ s = u \o todo[p]
        BY <3>1
      <4> HIDE DEF u, s
      <4>2. /\ s \in Seq(Frame) /\ Len(s) = 1 + 1
            /\ \A i \in 1 .. 1 + 1 : s[i] = IF i <= 1 THEN u[i] ELSE todo[p][i - 1]
        BY <4>1, <1>4, ConcatProperties
      <4> QED
        BY <4>2 DEF u
    <3> QED
      BY <3>1, <3>2
  <2>2. /\ Tail(s) \in Seq(Frame) /\ Len(Tail(s)) = Len(todo[p])
        /\ \A i \in 1 .. Len(Tail(s)) : Tail(s)[i] = todo[p][i]
    BY <2>1, <1>4, HeadTailProperties
  <2> QED
    BY <2>1, <2>2, <1>4, SeqEqual
<1> HIDE DEF a, s
<1>10. StackOK(s, m, fd[p]) /\ ~ PipeBelow(s) /\ s[1].op \notin LastOp \cup {"child"}
  <2>1. /\ s[1].op = "reset" /\ s[2].op = "prompt"
    BY <1>4, <1>5, <1>9
  <2>2. \A i \in 1 .. Len(s) : i = 1 \/ i = 2
    BY <1>9
  <2>3. s # <<>> /\ s[1].op \notin LastOp /\ s[2].op \in LastOp
    <3>1. s # <<>>
      BY <1>9, EmptySeq
    <3> QED
      BY <3>1, <2>1 DEF LastOp, ProgramOp, ProgramKind
  <2>4. /\ Indexed(s[1], m.line) /\ s[1].op \notin PipeOp \cup ProgramOp
        /\ Indexed(s[2], m.line) /\ s[2].op \notin PipeOp \cup ProgramOp
    BY <2>1 DEF Indexed, NodeOp, PipeOp, ProgramOp, ProgramKind
  <2> QED
    BY <1>9, <2>1, <2>2, <2>3, <2>4 DEF StackOK, PipeBelow
<1>11. /\ a \o Tail(s) \in Seq(Frame) /\ StackOK(a \o Tail(s), m, fd'[p])
       /\ (a \o Tail(s))[1].op \notin ProgramOp
  BY <1>8, <1>9, <1>10, PushOK
<1>12. todo' = [todo EXCEPT ![p] = a \o Tail(s)]
  BY <1>1, <1>9 DEF a
<1>13. /\ todo' \in [Pid -> Seq(Frame)] /\ mem' \in [Pid -> Memory]
       /\ Grounded'
  <2>1. fd' = fd /\ sig' = sig
    BY DEF ReadLine
  <2> QED
    BY <1>2, <1>3, <1>11, <1>12, <2>1 DEF Grounded, Ready, IInv
<1>14. nlines' \in 0 .. MaxLines
  BY LineAssumption DEF ReadLine, IInv, TypeOK
<1>15. data' \in [Object -> Nat] /\ tty' \in {"previous", "current"}
  BY DEF ReadLine, IInv, TypeOK
<1> QED
  BY <1>13, <1>14, <1>15 DEF ReadLine, IInv, TypeOK, procs

LEMMA EndOfInputOK ==
  ASSUME IInv, NEW p \in Pid, EndOfInput(p)  PROVE IInv'
<1>1. Exited(mem[p].g) \in Nat
  BY StatusIsNat DEF IInv, TypeOK, Memory
<1> QED
  BY <1>1, ExitOK DEF EndOfInput, IInv, TypeOK, disk, user

LEMMA ResetDataOK ==
  ASSUME IInv, NEW p \in Pid, ResetData(p)  PROVE IInv'
<1>1. /\ tmp' \in Doc \cup {NoDoc} /\ tty' \in {"previous", "current"}
      /\ data' \in [Object -> Nat] /\ present' \in SUBSET File
      /\ nlines' \in 0 .. MaxLines /\ nsig' \in 0 .. MaxSig
  BY DEF ResetData, IInv, TypeOK
<1>2. CASE mem[p].exit
  <2>1. Exited(mem[p].g) \in Nat
    BY StatusIsNat DEF IInv, TypeOK, Memory
  <2> QED
    BY <1>1, <1>2, <2>1, ExitOK DEF ResetData
<1>3. CASE ~ mem[p].exit
  <2>1. st[p] = "run" /\ Top(p).op \notin LastOp /\ todo' = Return(p, <<>>)
    BY <1>3 DEF ResetData, At, LastOp, ProgramOp, ProgramKind
  <2> DEFINE m == [mem[p] EXCEPT !.arg = 0]
  <2>2. mem \in [Pid -> Memory] /\ mem' = [mem EXCEPT ![p] = m]
    BY <1>3 DEF ResetData, IInv, TypeOK
  <2>3. m \in Memory /\ m.line = mem[p].line /\ m.r = mem[p].r /\ m.w = mem[p].w
    BY <2>2 DEF Memory
  <2> HIDE DEF m
  <2>4. todo' \in [Pid -> Seq(Frame)] /\ mem' \in [Pid -> Memory] /\ Grounded'
    <3>1. Others(p) /\ SamePipes(p) /\ st' = st
      <4>1. fd \in [Pid -> Descriptors]
        BY DEF IInv, TypeOK
      <4> QED
        BY <1>3, <4>1 DEF ResetData, Others, SamePipes, Descriptors, procs
    <3>2. Top(p).op # "child"
      BY DEF ResetData, At
    <3> QED
      BY <2>1, <2>2, <2>3, <3>1, <3>2, NothingPushed, SetOK
  <2>5. fd' \in [Pid -> Descriptors]
    <3>1. fd \in [Pid -> Descriptors] /\ Tty \in Object
      BY DEF IInv, TypeOK, Object
    <3> QED
      BY <1>3, <3>1 DEF ResetData, Descriptors
  <2> QED
    BY <1>1, <1>3, <2>4, <2>5 DEF ResetData, IInv, TypeOK, procs
<1> QED
  BY <1>2, <1>3

(* The word of a command, and what its program does. *)
LEMMA CommandType ==
  ASSUME IInv, NEW p \in Pid, st[p] = "run",
         \/ Top(p).op = "bst" /\ KindAt(p) = "COMMAND"
         \/ Top(p).op \in ProgramOp
  PROVE  /\ mem[p].line[Top(p).lo].c = "w"
         /\ Top(p).lo \in 1 .. Len(mem[p].line)
         /\ Command(p) \in Word /\ CommandKind(p) = Prog[Command(p)].k
         /\ CommandKind(p) \in BuiltinKind \cup ProgramKind \cup {"none"}
         /\ Prog[Command(p)].n \in Nat
<1>1. mem[p].line[Top(p).lo].c = "w" /\ Top(p).lo \in 1 .. Len(mem[p].line)
  <2>1. CASE Top(p).op = "bst" /\ KindAt(p) = "COMMAND"
    <3>1. /\ Top(p).lo \in 1 .. Top(p).hi /\ Top(p).hi \in 1 .. Len(mem[p].line)
          /\ mem[p].line[Top(p).lo].c = "w"
      BY <2>1, NodeParts DEF NodeOp
    <3>2. Len(mem[p].line) \in Nat
      BY RunningFrame, LineType
    <3> QED
      BY <3>1, <3>2
  <2>2. CASE Top(p).op \in ProgramOp
    BY <2>2, RunningFrame DEF Indexed
  <2> QED
    BY <2>1, <2>2
<1>2. Command(p) \in Word
  BY <1>1, RunningFrame, LineType DEF Command
<1> QED
  BY <1>1, <1>2, ProgAssumption DEF CommandKind

LEMMA ExecBuiltinOK ==
  ASSUME IInv, NEW p \in Pid, ExecBuiltin(p)  PROVE IInv'
<1>1. st[p] = "run" /\ Top(p).op = "bst" /\ KindAt(p) = "COMMAND"
  BY DEF ExecBuiltin, Builtin, At
<1> DEFINE n == Prog[Command(p)].n
           e == Do("echo")
           a == IF CommandKind(p) = "echo" THEN <<e>> ELSE <<>>
<1>2. n \in Nat /\ mem \in [Pid -> Memory] /\ mem[p] \in Memory
  BY <1>1, CommandType DEF IInv, TypeOK
<1>3. e \in Frame /\ e.op = "echo"
  BY DEF Frame, Do, On, FrameOp
<1>4. a \in Seq(Frame) /\ Called(a, mem[p], fd'[p]) /\ AllKeep(a, mem[p].line)
  <2>1. /\ e.op \notin LastOp /\ e.op \notin PipeOp /\ Indexed(e, mem[p].line)
        /\ KeepsPipe(e, mem[p].line)
    BY <1>3 DEF Indexed, KeepsPipe, LastOp, NodeOp, PipeOp, ProgramOp, ProgramKind
  <2> HIDE DEF e
  <2> QED
    BY <1>3, <2>1, NothingPushed DEF Called, AllKeep
<1>5. PICK m \in Memory : /\ mem' = [mem EXCEPT ![p] = m] /\ m.line = mem[p].line
                          /\ m.r = mem[p].r /\ m.w = mem[p].w
  <2>1. CASE CommandKind(p) = "echo"
    BY <2>1, <1>2 DEF ExecBuiltin
  <2>2. CASE CommandKind(p) = "exit"
    <3> DEFINE m == [mem[p] EXCEPT !.exit = TRUE, !.g = IF n = 0 THEN @ ELSE n]
    <3>1. /\ m \in Memory /\ m.line = mem[p].line /\ m.r = mem[p].r /\ m.w = mem[p].w
      BY <1>2 DEF Memory
    <3>2. mem' = [mem EXCEPT ![p] = m]
      BY <2>2, <1>2 DEF ExecBuiltin
    <3> QED
      BY <3>1, <3>2
  <2>3. CASE CommandKind(p) \notin {"echo", "exit"}
    <3> DEFINE m == [mem[p] EXCEPT !.g = n]
    <3>1. /\ m \in Memory /\ m.line = mem[p].line /\ m.r = mem[p].r /\ m.w = mem[p].w
      BY <1>2 DEF Memory
    <3>2. mem' = [mem EXCEPT ![p] = m]
      BY <2>3, <1>2 DEF ExecBuiltin
    <3> QED
      BY <3>1, <3>2
  <2> QED
    BY <2>1, <2>2, <2>3
<1>6. todo' = Return(p, a) /\ Top(p).op \notin LastOp
  BY <1>1 DEF ExecBuiltin, LastOp, ProgramOp, ProgramKind
<1> HIDE DEF a
<1>7. Called(a, m, fd'[p])
  BY <1>4, <1>5 DEF Called, Open
<1>8. todo' \in [Pid -> Seq(Frame)] /\ mem' \in [Pid -> Memory] /\ Grounded'
  <2>1. Others(p) /\ SamePipes(p) /\ st' = st
    BY SameAll DEF ExecBuiltin, procs
  <2> QED
    BY <1>1, <1>4, <1>5, <1>6, <1>7, <2>1, SetOK
<1> QED
  BY <1>8 DEF ExecBuiltin, IInv, TypeOK, procs, disk, user

(* What fork() copies has the types of what it copies from. *)
LEMMA ForkTypes ==
  ASSUME IInv, NEW p \in Pid, NEW c \in FreePid, NEW a, NEW b, Fork(p, c, b, a)
  PROVE  /\ par' \in [Pid -> Pid \cup {Nobody}]
         /\ fd' \in [Pid -> Descriptors]
         /\ sig' \in [Pid -> Signals]
         /\ ws' \in [Pid -> Nat]
BY DEF Fork, FreePid, IInv, TypeOK

LEMMA ForksOK ==
  ASSUME IInv, NEW p \in Pid, st[p] = "run", Top(p).op \notin LastOp \cup {"child"},
         NEW c \in FreePid, NEW a \in Seq(Frame), NEW b \in Seq(Frame),
         Called(a, mem[p], fd'[p]), PipeBelow(todo[p]) => AllKeep(a, mem[p].line),
         StackOK(b, mem[p], fd[p]), b[1].op \notin ProgramOp, Fork(p, c, b, a)
  PROVE  /\ st' \in [Pid -> {"none", "run", "stop", "zombie"}]
         /\ todo' \in [Pid -> Seq(Frame)] /\ mem' \in [Pid -> Memory] /\ Grounded'
<1>1. /\ st' = [st EXCEPT ![c] = "run"]
      /\ todo' = [Return(p, a) EXCEPT ![c] = b]
      /\ mem' = [mem EXCEPT ![c] = mem[p]]
  BY DEF Fork
<1>2. /\ \A q \in Pid \ {c} : sig'[q] = sig[q] /\ fd'[q] = fd[q]
      /\ fd'[c] = fd[p]
  BY DEF Fork, FreePid, IInv, TypeOK
<1>3. p # c
  BY DEF FreePid
<1>4. SamePipes(p) /\ fd'[c].rd = fd[p].rd /\ fd'[c].wr = fd[p].wr
  BY <1>2, <1>3 DEF SamePipes
<1> QED
  BY <1>1, <1>2, <1>4, ForkOK

LEMMA ExecCmdOK ==
  ASSUME IInv, NEW p \in Pid, ExecCmd(p)  PROVE IInv'
<1>1. /\ st[p] = "run" /\ Top(p).op = "bst" /\ KindAt(p) = "COMMAND"
      /\ CommandKind(p) \notin BuiltinKind
  BY DEF ExecCmd, External, At
<1> DEFINE f == Do("child")
           e == On("exec", Top(p).lo, mem[p].arg, Nobody)
           b == <<f, e>>
<1>2. PICK c \in FreePid : Fork(p, c, b, Await(c))
  BY DEF ExecCmd
<1>3. /\ Top(p).lo \in 1 .. Len(mem[p].line) /\ mem[p].line[Top(p).lo].c = "w"
      /\ Prog[mem[p].line[Top(p).lo].w].k \notin BuiltinKind /\ c \in Pid
  BY <1>1, CommandType DEF Command, FreePid
<1>4. mem[p] \in Memory /\ mem[p].arg \in Nat /\ Top(p) \in Frame /\ Top(p).lo \in Nat
  BY <1>1, RunningFrame DEF Memory, Frame
<1>5. /\ f \in Frame /\ f.op = "child" /\ e \in Frame /\ e.op = "exec"
      /\ e.lo = Top(p).lo
  BY <1>4 DEF Frame, Do, On, FrameOp
<1>6. Indexed(f, mem[p].line) /\ Indexed(e, mem[p].line)
  BY <1>3, <1>5 DEF Indexed, NodeOp, PipeOp, ProgramOp, ProgramKind
<1>7. /\ f.op \notin LastOp /\ e.op \in LastOp
      /\ f.op \notin PipeOp /\ e.op \notin PipeOp
  BY <1>5 DEF LastOp, PipeOp, ProgramOp, ProgramKind
<1> HIDE DEF f, e
<1>8. b \in Seq(Frame) /\ StackOK(b, mem[p], fd[p])
  BY <1>5, <1>6, <1>7 DEF StackOK
<1>9. /\ Await(c) \in Seq(Frame) /\ Called(Await(c), mem[p], fd'[p])
      /\ AllKeep(Await(c), mem[p].line)
  BY <1>3, AwaitPushed
<1> HIDE DEF b
<1>10. /\ st' \in [Pid -> {"none", "run", "stop", "zombie"}]
       /\ todo' \in [Pid -> Seq(Frame)] /\ mem' \in [Pid -> Memory] /\ Grounded'
  <2>1. b[1].op \notin ProgramOp /\ Top(p).op \notin LastOp \cup {"child"}
    BY <1>1, <1>5 DEF b, LastOp, ProgramOp, ProgramKind
  <2> QED
    BY <1>1, <1>2, <1>8, <1>9, <2>1, ForksOK
<1> QED
  BY <1>2, <1>10, ForkTypes DEF ExecCmd, IInv, TypeOK, disk, user

(* A stack of one frame, which replaces another. *)
LEMMA ReplaceOK ==
  ASSUME IInv, NEW p \in Pid, st[p] = "run", Top(p).op \in LastOp,
         NEW f \in Frame, f.op \in LastOp, Indexed(f, mem[p].line),
         f.op \in ProgramOp => sig'[p].int = "default" /\ sig'[p].job = "default",
         Others(p), todo' = Return(p, <<f>>), mem' = mem, st' = st
  PROVE  todo' \in [Pid -> Seq(Frame)] /\ Grounded'
<1>1. todo[p] \in Seq(Frame) /\ Len(todo[p]) = 1 /\ todo[p] # <<>>
  BY RunningFrame
<1>2. <<f>> \in Seq(Frame) /\ Tail(todo[p]) \in Seq(Frame) /\ Len(Tail(todo[p])) = 0
  BY <1>1, HeadTailProperties
<1>3. <<f>> \o Tail(todo[p]) = <<f>>
  BY <1>2, EmptySeq, ConcatEmptySeq
<1>4. todo \in [Pid -> Seq(Frame)] /\ todo' = [todo EXCEPT ![p] = <<f>>]
  BY <1>3 DEF Return, IInv, TypeOK
<1>5. StackOK(<<f>>, mem[p], fd'[p]) /\ Ready(<<f>>, sig'[p])
  <2>1. f.op \notin PipeOp
    BY DEF LastOp, PipeOp, ProgramOp, ProgramKind
  <2> QED
    BY <2>1 DEF StackOK, Ready
<1>6. ASSUME NEW q \in Pid, st'[q] \in {"run", "stop"}
      PROVE  StackOK(todo'[q], mem'[q], fd'[q]) /\ Ready(todo'[q], sig'[q])
  <2>1. CASE q = p
    BY <2>1, <1>4, <1>5
  <2>2. CASE q # p
    BY <2>2, <1>4, <1>6 DEF IInv, Grounded, Others
  <2> QED
    BY <2>1, <2>2
<1> QED
  BY <1>2, <1>4, <1>6 DEF Grounded

LEMMA ExecveOK ==
  ASSUME IInv, NEW p \in Pid, Execve(p)  PROVE IInv'
<1>1. st[p] = "run" /\ Top(p).op = "exec" /\ CommandKind(p) # "none"
  BY DEF Execve, At
<1> DEFINE f == On(CommandKind(p), Top(p).lo, Top(p).hi, Nobody)
<1>2. /\ mem[p].line[Top(p).lo].c = "w" /\ Top(p).lo \in 1 .. Len(mem[p].line)
      /\ Prog[mem[p].line[Top(p).lo].w].k \notin BuiltinKind
      /\ CommandKind(p) \in ProgramKind
  BY <1>1, CommandType, RunningFrame DEF Indexed, Command, ProgramOp
<1>3. f \in Frame /\ f.op = CommandKind(p) /\ f.lo = Top(p).lo
  BY <1>1, <1>2, RunningFrame DEF Frame, On, FrameOp
<1>4. f.op \in LastOp /\ Indexed(f, mem[p].line) /\ Top(p).op \in LastOp
  BY <1>1, <1>2, <1>3 DEF Indexed, LastOp, NodeOp, PipeOp, ProgramOp, ProgramKind
<1>5. todo' = Return(p, <<f>>)
  BY DEF Execve
<1> HIDE DEF f
<1>6. todo' \in [Pid -> Seq(Frame)] /\ Grounded'
  <2>1. /\ sig \in [Pid -> Signals] /\ sig[p] \in Signals
        /\ sig[p].int = "default" /\ sig[p].job = "default"
    BY <1>1, RunningFrame DEF IInv, TypeOK, ProgramOp
  <2>2. /\ Others(p) /\ sig'[p].int = "default" /\ sig'[p].job = "default"
    BY <2>1 DEF Execve, Others, Signals
  <2> QED
    BY <1>1, <1>3, <1>4, <1>5, <2>2, ReplaceOK DEF Execve, procs
<1>7. sig' \in [Pid -> Signals]
  <2>1. sig \in [Pid -> Signals] /\ sig[p] \in Signals
    BY DEF IInv, TypeOK
  <2> QED
    BY <2>1 DEF Execve, Signals, Disposition
<1> QED
  BY <1>6, <1>7 DEF Execve, IInv, TypeOK, procs, disk, user

LEMMA CommandNotFoundOK ==
  ASSUME IInv, NEW p \in Pid, CommandNotFound(p)  PROVE IInv'
<1>1. st[p] = "run" /\ Exited(127) \in Nat
  BY StatusIsNat DEF CommandNotFound, At
<1> QED
  BY <1>1, ExitOK DEF CommandNotFound, IInv, TypeOK, disk, user

(* A frame of the pipe's own handlers. *)
LEMMA PipeFrame ==
  ASSUME NEW op \in PipeOp, NEW m, NEW lo \in Nat, NEW hi \in Nat,
         lo \in 1 .. hi, hi \in 1 .. Len(m.line),
         NEW g, Open(m, g),
         NEW ref \in Pid \cup {Nobody}, op = "fork_right" => ref \in Pid
  PROVE  /\ <<On(op, lo, hi, ref)>> \in Seq(Frame)
         /\ On(op, lo, hi, ref) \in Frame /\ Indexed(On(op, lo, hi, ref), m.line)
         /\ Called(<<On(op, lo, hi, ref)>>, m, g)
         /\ op \notin {"fork_left", "fork_right", "left", "right"} =>
              AllKeep(<<On(op, lo, hi, ref)>>, m.line)
<1> DEFINE f == On(op, lo, hi, ref)
<1>1. /\ f \in Frame /\ f.op = op /\ f.lo = lo /\ f.hi = hi /\ f.ref = ref
  BY DEF Frame, On, FrameOp, PipeOp
<1>2. f.op \notin LastOp /\ f.op \notin ProgramOp
  BY <1>1 DEF LastOp, PipeOp, ProgramOp, ProgramKind
<1>3. Indexed(f, m.line)
  BY <1>1, <1>2 DEF Indexed, PipeOp, ProgramOp
<1>4. op \notin {"fork_left", "fork_right", "left", "right"} => KeepsPipe(f, m.line)
  BY <1>1 DEF KeepsPipe, PipeOp
<1> HIDE DEF f
<1>5. <<f>> \in Seq(Frame) /\ Len(<<f>>) = 1 /\ <<f>>[1] = f
  BY <1>1
<1>6. Called(<<f>>, m, g)
  BY <1>2, <1>3, <1>5 DEF Called
<1>7. op \notin {"fork_left", "fork_right", "left", "right"} => AllKeep(<<f>>, m.line)
  BY <1>4, <1>5 DEF AllKeep
<1> QED
  BY <1>1, <1>3, <1>5, <1>6, <1>7 DEF f

LEMMA PipeSyntaxErrorOK ==
  ASSUME IInv, NEW p \in Pid, PipeSyntaxError(p)  PROVE IInv'
<1>1. st[p] = "run" /\ Top(p).op = "bst" /\ todo' = Return(p, <<>>)
  BY DEF PipeSyntaxError, At
<1> DEFINE g == IF RootToken(p).n > 1 THEN 258 ELSE mem[p].g
           m == [mem[p] EXCEPT !.g = g]
<1>2. mem \in [Pid -> Memory] /\ mem' = [mem EXCEPT ![p] = m]
  BY DEF PipeSyntaxError, IInv, TypeOK
<1>3. m \in Memory /\ m.line = mem[p].line /\ m.r = mem[p].r /\ m.w = mem[p].w
  <2>1. mem[p] \in Memory /\ g \in Nat
    BY <1>2 DEF Memory
  <2> HIDE DEF g
  <2> QED
    BY <2>1 DEF Memory
<1> HIDE DEF m
<1>4. todo' \in [Pid -> Seq(Frame)] /\ mem' \in [Pid -> Memory] /\ Grounded'
  <2>1. Others(p) /\ SamePipes(p) /\ st' = st
    BY SameAll DEF PipeSyntaxError, procs
  <2> QED
    BY <1>1, <1>2, <1>3, <2>1, NothingPushed, SetOK DEF LastOp, ProgramOp, ProgramKind
<1> QED
  BY <1>4 DEF PipeSyntaxError, IInv, TypeOK, procs, disk, user

(* No handler below waits for its pipe when pipe_handler() runs. *)
LEMMA PipeIsOutermost ==
  ASSUME IInv, NEW p \in Pid, st[p] = "run", Top(p).op = "bst", KindAt(p) = "PIPE"
  PROVE  ~ PipeBelow(todo[p])
<1>1. /\ RootAt(p) \in Top(p).lo .. Top(p).hi
      /\ TypeAssign(RootToken(p)) = "PIPE"
  BY NodeParts DEF NodeOp
<1>2. mem[p].line[RootAt(p)].c = "|"
  BY <1>1 DEF TypeAssign, RootToken
<1>3. TokensOf(mem[p].line, Top(p).lo, Top(p).hi, "|") # {}
  BY <1>1, <1>2 DEF TokensOf
<1>4. ~ KeepsPipe(Top(p), mem[p].line)
  BY <1>3 DEF KeepsPipe
<1> QED
  BY <1>4, RunningFrame

LEMMA PipeHandlerOK ==
  ASSUME IInv, NEW p \in Pid, PipeHandler(p)  PROVE IInv'
<1>1. st[p] = "run" /\ Top(p).op = "bst" /\ KindAt(p) = "PIPE"
  BY DEF PipeHandler, At
<1>2. PICK q \in FreePipe :
        /\ fd' = [fd EXCEPT ![p].rd = @ \cup {q}, ![p].wr = @ \cup {q}]
        /\ mem' = [mem EXCEPT ![p].r = q, ![p].w = q]
        /\ data' = [data EXCEPT ![q] = 0]
  BY DEF PipeHandler
<1> DEFINE m == [mem[p] EXCEPT !.r = q, !.w = q]
           node(op) == <<On(op, Top(p).lo, Top(p).hi, Nobody)>>
           left == node("heredoc_left") \o LeftBst(p) \o node("heredoc_left_end")
           right == node("heredoc_right") \o RightBst(p) \o node("heredoc_right_end")
           x == IF LeftKind(p) = "HEREDOC" THEN left ELSE <<>>
           y == IF RightKind(p) = "HEREDOC" THEN right ELSE <<>>
           z == node("fork_left")
<1>3. q \in PipeId /\ mem \in [Pid -> Memory] /\ fd \in [Pid -> Descriptors]
  BY DEF FreePipe, IInv, TypeOK
<1>4. /\ m \in Memory /\ m.line = mem[p].line /\ m.r \in PipeId /\ m.w \in PipeId
      /\ mem' = [mem EXCEPT ![p] = m]
  BY <1>2, <1>3 DEF Memory
<1>5. /\ Top(p).lo \in 1 .. Top(p).hi /\ Top(p).hi \in 1 .. Len(m.line)
      /\ Top(p).lo \in Nat /\ Top(p).hi \in Nat
      /\ LeftBst(p) \in Seq(Frame) /\ Called(LeftBst(p), m, fd'[p])
      /\ RightBst(p) \in Seq(Frame) /\ Called(RightBst(p), m, fd'[p])
      /\ LeftKind(p) = "HEREDOC" => AllKeep(LeftBst(p), m.line)
      /\ RightKind(p) = "HEREDOC" => AllKeep(RightBst(p), m.line)
  <2>1. Top(p).op \in NodeOp
    BY <1>1 DEF NodeOp
  <2>2. Top(p).lo \in Nat /\ Top(p).hi \in Nat
    BY <1>1, RunningFrame DEF Frame
  <2> HIDE DEF m
  <2> QED
    BY <1>1, <1>4, <2>1, <2>2, NodeParts
<1>6. todo' = Return(p, x \o y \o z)
  BY DEF PipeHandler
<1>o. Open(m, fd'[p])
  <2>1. /\ q \in fd'[p].rd /\ q \in fd'[p].wr
    BY <1>2, <1>3 DEF Descriptors
  <2>2. m.r = q /\ m.w = q
    BY <1>3 DEF Memory
  <2> QED
    BY <2>1, <2>2 DEF Open
<1> HIDE DEF m
<1>7. /\ node("heredoc_left") \in Seq(Frame) /\ Called(node("heredoc_left"), m, fd'[p])
      /\ node("heredoc_left_end") \in Seq(Frame) /\ Called(node("heredoc_left_end"), m, fd'[p])
      /\ node("heredoc_right") \in Seq(Frame) /\ Called(node("heredoc_right"), m, fd'[p])
      /\ node("heredoc_right_end") \in Seq(Frame) /\ Called(node("heredoc_right_end"), m, fd'[p])
      /\ z \in Seq(Frame) /\ Called(z, m, fd'[p])
  BY <1>5, <1>o, PipeFrame DEF PipeOp
<1>8. /\ AllKeep(node("heredoc_left"), m.line) /\ AllKeep(node("heredoc_left_end"), m.line)
      /\ AllKeep(node("heredoc_right"), m.line) /\ AllKeep(node("heredoc_right_end"), m.line)
  BY <1>5, <1>o, PipeFrame DEF PipeOp
<1> HIDE DEF node
<1>9. x \in Seq(Frame) /\ Called(x, m, fd'[p]) /\ AllKeep(x, m.line)
  BY <1>5, <1>7, <1>8, NothingPushed, ConcatProperties, CalledConcat, AllKeepConcat
<1>10. y \in Seq(Frame) /\ Called(y, m, fd'[p]) /\ AllKeep(y, m.line)
  BY <1>5, <1>7, <1>8, NothingPushed, ConcatProperties, CalledConcat, AllKeepConcat
<1> HIDE DEF x, y, z
<1>11. x \o y \o z \in Seq(Frame) /\ Called(x \o y \o z, m, fd'[p])
  BY <1>7, <1>9, <1>10, ConcatProperties, CalledConcat, AllKeepConcat
<1>12. todo' \in [Pid -> Seq(Frame)] /\ mem' \in [Pid -> Memory] /\ Grounded'
  <2>1. ~ PipeBelow(todo[p]) /\ Top(p).op \notin LastOp \cup {"child"}
    BY <1>1, PipeIsOutermost DEF LastOp, ProgramOp, ProgramKind
  <2>2. Others(p) /\ st' = st
    BY <1>2, <1>3 DEF PipeHandler, Others, procs
  <2> QED
    BY <1>1, <1>4, <1>6, <1>11, <2>1, <2>2, ReturnOK
<1>13. fd' \in [Pid -> Descriptors]
  BY <1>2, <1>3 DEF Descriptors
<1>14. data' \in [Object -> Nat]
  BY <1>2 DEF IInv, TypeOK
<1> QED
  BY <1>12, <1>13, <1>14 DEF PipeHandler, IInv, TypeOK, procs, user

LEMMA PipeHeredocOK ==
  ASSUME IInv, NEW p \in Pid, PipeHeredoc(p)  PROVE IInv'
<1>1. st[p] = "run" /\ Top(p).op \in PipeOp /\ Top(p).op \notin LastOp
  BY DEF PipeHeredoc, At, PipeOp, LastOp, ProgramOp, ProgramKind
<1>2. todo' = Return(p, <<>>) /\ st' = st /\ mem' = mem
  BY DEF PipeHeredoc, procs
<1>3. todo' \in [Pid -> Seq(Frame)] /\ Grounded'
  <2>1. fd \in [Pid -> Descriptors]
    BY DEF IInv, TypeOK
  <2>2. Others(p) /\ SamePipes(p)
    BY <2>1 DEF PipeHeredoc, Others, SamePipes, Descriptors
  <2>3. Top(p).op # "child"
    BY <1>1 DEF PipeOp
  <2> QED
    BY <1>1, <1>2, <2>2, <2>3, NothingPushed, CallOK
<1>4. /\ mem[p].r \in Object /\ mem[p].w \in Object /\ Tty \in Object
      /\ fd \in [Pid -> Descriptors] /\ fd[p] \in Descriptors
  BY <1>1, RunningFrame DEF Object, IInv, TypeOK
<1>5. fd' \in [Pid -> Descriptors]
  <2>1. \A o \in Object : /\ [fd EXCEPT ![p].out = o] \in [Pid -> Descriptors]
                         /\ [fd EXCEPT ![p].in = o] \in [Pid -> Descriptors]
    BY <1>4 DEF Descriptors
  <2> QED
    BY <1>4, <2>1 DEF PipeHeredoc
<1> QED
  BY <1>3, <1>5 DEF PipeHeredoc, IInv, TypeOK, procs, disk, user

(* The stack of a child of the pipe. *)
LEMMA SideOK ==
  ASSUME IInv, NEW p \in Pid, st[p] = "run", Top(p).op \in PipeOp,
         NEW kind, NEW op \in {"left", "right"}
  PROVE  /\ Side(p, kind, op) \in Seq(Frame)
         /\ StackOK(Side(p, kind, op), mem[p], fd[p])
         /\ Side(p, kind, op)[1].op \notin ProgramOp
<1> DEFINE c == Do("child")
           f == On(op, Top(p).lo, Top(p).hi, Nobody)
           x == Do("_exit")
<1>1. /\ c \in Frame /\ c.op = "child" /\ x \in Frame /\ x.op = "_exit"
      /\ f \in Frame /\ f.op = op /\ f.op \in PipeOp /\ Indexed(f, mem[p].line)
      /\ Open(mem[p], fd[p])
  <2>1. /\ Top(p).lo \in Nat /\ Top(p).hi \in Nat
        /\ Top(p).lo \in 1 .. Top(p).hi /\ Top(p).hi \in 1 .. Len(mem[p].line)
        /\ Open(mem[p], fd[p])
    BY RunningFrame DEF Indexed, Frame, NodeOp
  <2>2. f \in Frame /\ f.op = op /\ f.op \in PipeOp /\ Indexed(f, mem[p].line)
    <3>1. op \in PipeOp /\ op # "fork_right" /\ Nobody \in Pid \cup {Nobody}
      BY DEF PipeOp
    <3>2. Indexed(f, mem[p].line) /\ f \in Frame
      BY <2>1, <3>1, PipeFrame
    <3> QED
      BY <3>1, <3>2 DEF On
  <2>3. c \in Frame /\ c.op = "child" /\ x \in Frame /\ x.op = "_exit"
    BY DEF Do, On, Frame, FrameOp
  <2> QED
    BY <2>1, <2>2, <2>3
<1>2. /\ c.op \notin LastOp /\ c.op \notin PipeOp /\ f.op \notin LastOp
      /\ x.op \in LastOp /\ x.op \notin PipeOp
      /\ c.op \notin ProgramOp /\ f.op \notin ProgramOp /\ x.op \notin ProgramOp
      /\ Indexed(c, mem[p].line) /\ Indexed(x, mem[p].line)
      /\ KeepsPipe(c, mem[p].line)
  BY <1>1 DEF Indexed, KeepsPipe, LastOp, NodeOp, PipeOp, ProgramOp, ProgramKind
<1>3. Side(p, kind, op) = IF kind = "HEREDOC" THEN <<c, x>> ELSE <<c, f, x>>
  BY DEF Side
<1> HIDE DEF c, f, x
<1>4. CASE kind = "HEREDOC"
  <2>1. Side(p, kind, op) = <<c, x>>
    BY <1>3, <1>4
  <2> QED
    BY <2>1, <1>1, <1>2 DEF StackOK
<1>5. CASE kind # "HEREDOC"
  <2>1. Side(p, kind, op) = <<c, f, x>>
    BY <1>3, <1>5
  <2> DEFINE s == <<c, f, x>>
  <2>2. /\ s \in Seq(Frame) /\ Len(s) = 3 /\ s[1] = c /\ s[2] = f /\ s[3] = x
    BY <1>1
  <2> HIDE DEF s
  <2>3. \A i \in 1 .. Len(s) : i = 1 \/ i = 2 \/ i = 3
    BY <2>2
  <2>4. s # <<>>
    <3>1. ASSUME s = <<>>  PROVE FALSE
      <4>1. Len(s) = 0
        BY <3>1
      <4> QED
        BY <4>1, <2>2
    <3> QED
      BY <3>1
  <2>5. \A j \in 1 .. 2 - 1 : j = 1
    OBVIOUS
  <2>6. StackOK(s, mem[p], fd[p])
    BY <2>2, <2>3, <2>4, <2>5, <1>1, <1>2 DEF StackOK
  <2>7. s[1].op \notin ProgramOp
    BY <2>2, <1>2
  <2> QED
    BY <2>1, <2>2, <2>6, <2>7 DEF s
<1> QED
  BY <1>4, <1>5

LEMMA ForkLeftOK ==
  ASSUME IInv, NEW p \in Pid, ForkLeft(p)  PROVE IInv'
<1>1. st[p] = "run" /\ Top(p).op = "fork_left" /\ Top(p).op \in PipeOp
  BY DEF ForkLeft, At, PipeOp
<1> DEFINE b == Side(p, LeftKind(p), "left")
           a(c) == <<On("fork_right", Top(p).lo, Top(p).hi, c)>>
<1>2. PICK c \in FreePid : Fork(p, c, b, a(c))
  BY DEF ForkLeft
<1>3. b \in Seq(Frame) /\ StackOK(b, mem[p], fd[p]) /\ b[1].op \notin ProgramOp
  BY <1>1, SideOK
<1>4. ~ PipeBelow(todo[p]) /\ Top(p).op \notin LastOp \cup {"child"}
  BY <1>1, RunningFrame DEF KeepsPipe, LastOp, ProgramOp, ProgramKind
<1>5. a(c) \in Seq(Frame) /\ Called(a(c), mem[p], fd'[p])
  <2>1. /\ Top(p).lo \in Nat /\ Top(p).hi \in Nat
        /\ Top(p).lo \in 1 .. Top(p).hi /\ Top(p).hi \in 1 .. Len(mem[p].line)
        /\ Open(mem[p], fd[p]) /\ c \in Pid /\ c # p
    BY <1>1, RunningFrame DEF Indexed, Frame, NodeOp, FreePid
  <2>2. Open(mem[p], fd'[p])
    BY <1>2, <2>1 DEF Fork, IInv, TypeOK
  <2> QED
    BY <2>1, <2>2, PipeFrame DEF PipeOp
<1> HIDE DEF a, b
<1>6. /\ st' \in [Pid -> {"none", "run", "stop", "zombie"}]
      /\ todo' \in [Pid -> Seq(Frame)] /\ mem' \in [Pid -> Memory] /\ Grounded'
  BY <1>1, <1>2, <1>3, <1>4, <1>5, ForksOK
<1> QED
  BY <1>2, <1>6, ForkTypes DEF ForkLeft, IInv, TypeOK, disk, user

LEMMA ForkRightOK ==
  ASSUME IInv, NEW p \in Pid, ForkRight(p)  PROVE IInv'
<1>1. st[p] = "run" /\ Top(p).op = "fork_right" /\ Top(p).op \in PipeOp
  BY DEF ForkRight, At, PipeOp
<1> DEFINE b == Side(p, RightKind(p), "right")
           a(c) == <<Do("close_pipe")>> \o AwaitBoth(Top(p).ref, c)
<1>2. PICK c \in FreePid : Fork(p, c, b, a(c))
  BY DEF ForkRight
<1>3. b \in Seq(Frame) /\ StackOK(b, mem[p], fd[p]) /\ b[1].op \notin ProgramOp
  BY <1>1, SideOK
<1>4. ~ PipeBelow(todo[p]) /\ Top(p).op \notin LastOp \cup {"child"}
  BY <1>1, RunningFrame DEF KeepsPipe, LastOp, ProgramOp, ProgramKind
<1>5. Top(p).ref \in Pid /\ c \in Pid
  BY <1>1, RunningFrame DEF Indexed, FreePid
<1>6. a(c) \in Seq(Frame) /\ Called(a(c), mem[p], fd'[p])
  <2>1. /\ <<Do("close_pipe")>> \in Seq(Frame)
        /\ Called(<<Do("close_pipe")>>, mem[p], fd'[p])
    <3> DEFINE f == Do("close_pipe")
    <3>1. f \in Frame /\ f.op = "close_pipe"
      BY DEF Do, On, Frame, FrameOp
    <3> HIDE DEF f
    <3>2. f.op \notin LastOp /\ f.op \notin PipeOp /\ Indexed(f, mem[p].line)
      BY <3>1 DEF Indexed, LastOp, NodeOp, PipeOp, ProgramOp, ProgramKind
    <3>3. <<f>> \in Seq(Frame) /\ Called(<<f>>, mem[p], fd'[p])
      BY <3>1, <3>2 DEF Called
    <3> QED
      BY <3>3 DEF f
  <2> DEFINE b2 == AwaitBoth(Top(p).ref, c)
  <2>2. /\ b2 \in Seq(Frame) /\ Len(b2) = 4
        /\ \A i \in 1 .. 4 : b2[i].op \in {"ignore", "wait", "restore"}
        /\ \A i \in 1 .. 4 : b2[i].op = "wait" => b2[i].ref \in Pid
    <3>1. /\ Do("ignore") \in Frame /\ Do("restore") \in Frame
          /\ On("wait", 0, 0, Top(p).ref) \in Frame /\ On("wait", 0, 0, c) \in Frame
      BY <1>5 DEF Do, On, Frame, FrameOp
    <3>2. \A i \in 1 .. 4 : i = 1 \/ i = 2 \/ i = 3 \/ i = 4
      OBVIOUS
    <3>3. b2 \in Seq(Frame) /\ Len(b2) = 4
      BY <3>1 DEF AwaitBoth
    <3> QED
      BY <1>5, <3>2, <3>3 DEF AwaitBoth, Do, On
  <2> HIDE DEF b2
  <2>3. /\ Called(b2, mem[p], fd'[p])
        /\ ~ \E i \in 1 .. Len(b2) : b2[i].op \in PipeOp
    <3>1. /\ \A i \in 1 .. Len(b2) : b2[i].op \in {"ignore", "wait", "restore"}
          /\ \A i \in 1 .. Len(b2) : b2[i].op = "wait" => b2[i].ref \in Pid
      <4>1. 1 .. Len(b2) = 1 .. 4
        BY <2>2
      <4> QED
        BY <2>2, <4>1, Zenon
    <3>2. \A i \in 1 .. Len(b2) : b2[i].op \notin LastOp /\ b2[i].op \notin PipeOp
      BY <3>1 DEF LastOp, ProgramOp, ProgramKind, PipeOp
    <3>3. \A i \in 1 .. Len(b2) : Indexed(b2[i], mem[p].line)
      BY <3>1 DEF Indexed, NodeOp, ProgramOp, ProgramKind, PipeOp
    <3> QED
      BY <3>2, <3>3 DEF Called
  <2>4. a(c) = <<Do("close_pipe")>> \o b2
    BY DEF b2
  <2> HIDE DEF a
  <2> QED
    <3>1. a(c) \in Seq(Frame)
      BY <2>1, <2>2, <2>4, ConcatProperties
    <3>2. Called(a(c), mem[p], fd'[p])
      BY <2>1, <2>2, <2>3, <2>4, CalledConcat
    <3> QED
      BY <3>1, <3>2
<1> HIDE DEF a, b
<1>7. /\ st' \in [Pid -> {"none", "run", "stop", "zombie"}]
      /\ todo' \in [Pid -> Seq(Frame)] /\ mem' \in [Pid -> Memory] /\ Grounded'
  BY <1>1, <1>2, <1>3, <1>4, <1>6, ForksOK
<1> QED
  BY <1>2, <1>7, ForkTypes DEF ForkRight, IInv, TypeOK, disk, user

LEMMA ClosePipeOK ==
  ASSUME IInv, NEW p \in Pid, ClosePipe(p)  PROVE IInv'
<1>1. st[p] = "run" /\ Top(p).op = "close_pipe" /\ todo' = Return(p, <<>>)
  BY DEF ClosePipe, At
<1>2. ~ PipeBelow(todo[p]) /\ Top(p).op \notin LastOp
  BY <1>1, RunningFrame DEF KeepsPipe, LastOp, ProgramOp, ProgramKind
<1> DEFINE m == [mem[p] EXCEPT !.r = NoPipe, !.w = NoPipe]
<1>3. mem \in [Pid -> Memory] /\ mem' = [mem EXCEPT ![p] = m]
  BY DEF ClosePipe, IInv, TypeOK
<1>4. m \in Memory /\ m.line = mem[p].line
  BY <1>3 DEF Memory
<1> HIDE DEF m
<1>5. todo' \in [Pid -> Seq(Frame)] /\ mem' \in [Pid -> Memory] /\ Grounded'
  <2>1. Others(p) /\ st' = st
    BY DEF ClosePipe, Others, procs, IInv, TypeOK
  <2>2. Top(p).op # "child"
    BY <1>1
  <2> QED
    BY <1>1, <1>2, <1>3, <1>4, <2>1, <2>2, NothingPushed, ReturnOK
<1>6. fd' \in [Pid -> Descriptors]
  <2>1. fd \in [Pid -> Descriptors]
    BY DEF IInv, TypeOK
  <2> QED
    BY <2>1 DEF ClosePipe, Descriptors
<1> QED
  BY <1>5, <1>6 DEF ClosePipe, IInv, TypeOK, procs, disk, user

LEMMA LeftChildOK ==
  ASSUME IInv, NEW p \in Pid, LeftChild(p)  PROVE IInv'
<1>1. /\ st[p] = "run" /\ Top(p).op = "left" /\ Top(p).op \in PipeOp
      /\ Top(p).op \in NodeOp /\ todo' = Return(p, LeftBst(p))
  BY DEF LeftChild, At, PipeOp, NodeOp
<1>2. ~ PipeBelow(todo[p]) /\ Top(p).op \notin LastOp
  BY <1>1, RunningFrame DEF KeepsPipe, LastOp, ProgramOp, ProgramKind
<1> DEFINE m == [mem[p] EXCEPT !.r = NoPipe]
<1>3. mem \in [Pid -> Memory] /\ mem' = [mem EXCEPT ![p] = m]
  BY DEF LeftChild, IInv, TypeOK
<1>4. m \in Memory /\ m.line = mem[p].line
  BY <1>3 DEF Memory
<1> HIDE DEF m
<1>5. LeftBst(p) \in Seq(Frame) /\ Called(LeftBst(p), m, fd'[p])
  BY <1>1, <1>4, NodeParts
<1>6. todo' \in [Pid -> Seq(Frame)] /\ mem' \in [Pid -> Memory] /\ Grounded'
  <2>1. Others(p) /\ st' = st
    BY DEF LeftChild, Others, procs, IInv, TypeOK
  <2>2. Top(p).op # "child"
    BY <1>1
  <2> QED
    BY <1>1, <1>2, <1>3, <1>4, <1>5, <2>1, <2>2, ReturnOK
<1>7. fd' \in [Pid -> Descriptors]
  <2>1. fd \in [Pid -> Descriptors] /\ mem[p].w \in Object
    BY <1>1, RunningFrame DEF IInv, TypeOK, Object
  <2> QED
    BY <2>1 DEF LeftChild, Descriptors
<1> QED
  BY <1>6, <1>7 DEF LeftChild, IInv, TypeOK, procs, disk, user

LEMMA RightChildOK ==
  ASSUME IInv, NEW p \in Pid, RightChild(p)  PROVE IInv'
<1>1. /\ st[p] = "run" /\ Top(p).op = "right" /\ Top(p).op \in PipeOp
      /\ Top(p).op \in NodeOp /\ todo' = Return(p, RightBst(p))
  BY DEF RightChild, At, PipeOp, NodeOp
<1>2. ~ PipeBelow(todo[p]) /\ Top(p).op \notin LastOp
  BY <1>1, RunningFrame DEF KeepsPipe, LastOp, ProgramOp, ProgramKind
<1> DEFINE m == [mem[p] EXCEPT !.w = NoPipe]
<1>3. mem \in [Pid -> Memory] /\ mem' = [mem EXCEPT ![p] = m]
  BY DEF RightChild, IInv, TypeOK
<1>4. m \in Memory /\ m.line = mem[p].line
  BY <1>3 DEF Memory
<1> HIDE DEF m
<1>5. RightBst(p) \in Seq(Frame) /\ Called(RightBst(p), m, fd'[p])
  BY <1>1, <1>4, NodeParts
<1>6. todo' \in [Pid -> Seq(Frame)] /\ mem' \in [Pid -> Memory] /\ Grounded'
  <2>1. Others(p) /\ st' = st
    BY DEF RightChild, Others, procs, IInv, TypeOK
  <2>2. Top(p).op # "child"
    BY <1>1
  <2> QED
    BY <1>1, <1>2, <1>3, <1>4, <1>5, <2>1, <2>2, ReturnOK
<1>7. fd' \in [Pid -> Descriptors]
  <2>1. fd \in [Pid -> Descriptors] /\ mem[p].r \in Object
    BY <1>1, RunningFrame DEF IInv, TypeOK, Object
  <2> QED
    BY <2>1 DEF RightChild, Descriptors
<1> QED
  BY <1>6, <1>7 DEF RightChild, IInv, TypeOK, procs, disk, user

LEMMA ChildExitOK ==
  ASSUME IInv, NEW p \in Pid, ChildExit(p)  PROVE IInv'
<1>1. Exited(mem[p].g) \in Nat
  BY StatusIsNat DEF IInv, TypeOK, Memory
<1> QED
  BY <1>1, ExitOK DEF ChildExit, IInv, TypeOK, disk, user

LEMMA RedirectionErrorOK ==
  ASSUME IInv, NEW p \in Pid, RedirectionError(p)  PROVE IInv'
<1>1. st[p] = "run" /\ Top(p).op = "bst" /\ todo' = Return(p, <<>>)
  BY DEF RedirectionError, Redirects, At
<1> DEFINE m == [mem[p] EXCEPT !.g = 258]
<1>2. mem \in [Pid -> Memory] /\ mem' = [mem EXCEPT ![p] = m]
  BY DEF RedirectionError, IInv, TypeOK
<1>3. m \in Memory /\ m.line = mem[p].line /\ m.r = mem[p].r /\ m.w = mem[p].w
  <2>1. mem[p] \in Memory /\ 258 \in Nat
    BY <1>2
  <2> QED
    BY <2>1 DEF Memory
<1> HIDE DEF m
<1>4. todo' \in [Pid -> Seq(Frame)] /\ mem' \in [Pid -> Memory] /\ Grounded'
  <2>1. Others(p) /\ SamePipes(p) /\ st' = st
    BY SameAll DEF RedirectionError, procs
  <2> QED
    BY <1>1, <1>2, <1>3, <2>1, NothingPushed, SetOK DEF LastOp, ProgramOp, ProgramKind
<1> QED
  BY <1>4 DEF RedirectionError, IInv, TypeOK, procs, disk, user

LEMMA RedirectionFailsOK ==
  ASSUME IInv, NEW p \in Pid, RedirectionFails(p)  PROVE IInv'
<1>1. st[p] = "run" /\ Top(p).op = "bst" /\ todo' = Return(p, <<>>)
  BY DEF RedirectionFails, Redirects, At
<1>2. todo' \in [Pid -> Seq(Frame)] /\ Grounded'
  <2>1. fd \in [Pid -> Descriptors]
    BY DEF IInv, TypeOK
  <2>2. Others(p) /\ SamePipes(p) /\ st' = st /\ mem' = mem
    BY <2>1 DEF RedirectionFails, Others, SamePipes, Descriptors, procs
  <2> QED
    BY <1>1, <2>2, NothingPushed, CallOK DEF LastOp, ProgramOp, ProgramKind
<1>3. fd' \in [Pid -> Descriptors]
  <2>1. fd \in [Pid -> Descriptors] /\ fd[p] \in Descriptors /\ Tty \in Object
    BY DEF IInv, TypeOK, Object
  <2> QED
    BY <2>1 DEF RedirectionFails, Descriptors
<1> QED
  BY <1>2, <1>3 DEF RedirectionFails, IInv, TypeOK, procs, disk, user

LEMMA OpenFailsOK ==
  ASSUME IInv, NEW p \in Pid, OpenFails(p)  PROVE IInv'
BY StatusIsNat, ExitOK DEF OpenFails, IInv, TypeOK, disk, user

(* The handlers of a redirection go on to tree_transversal(). *)
LEMMA TraversalOK ==
  ASSUME IInv, NEW p \in Pid, st[p] = "run", Top(p).op \in {"bst", "heredoc_open"},
         Top(p).op = "bst" => KindAt(p) # "PIPE",
         todo' = Return(p, TreeTransversal(p)),
         mem' = [mem EXCEPT ![p].arg = TreeArg(p)], st' = st,
         sig' = sig, NEW g, fd' = [fd EXCEPT ![p] = g],
         g.rd = fd[p].rd, g.wr = fd[p].wr
  PROVE  todo' \in [Pid -> Seq(Frame)] /\ mem' \in [Pid -> Memory] /\ Grounded'
<1> DEFINE m == [mem[p] EXCEPT !.arg = TreeArg(p)]
<1>1. Top(p).op \in NodeOp /\ Top(p).op \notin LastOp
  BY DEF NodeOp, LastOp, ProgramOp, ProgramKind
<1>2. mem \in [Pid -> Memory] /\ mem[p] \in Memory /\ mem' = [mem EXCEPT ![p] = m]
  BY DEF IInv, TypeOK
<1>3. TreeArg(p) \in Nat
  <2>1. RootAt(p) \in Top(p).lo .. Top(p).hi /\ Top(p).lo \in 1 .. Top(p).hi
    BY <1>1, NodeParts
  <2>2. Top(p).lo \in Nat /\ Top(p).hi \in Nat /\ mem[p].arg \in Nat
    BY <1>2, RunningFrame DEF Frame, Memory
  <2> QED
    BY <2>1, <2>2 DEF TreeArg
<1>4. m \in Memory /\ m.line = mem[p].line /\ m.r = mem[p].r /\ m.w = mem[p].w
  BY <1>2, <1>3 DEF Memory
<1> HIDE DEF m
<1>5. /\ TreeTransversal(p) \in Seq(Frame) /\ Called(TreeTransversal(p), m, fd'[p])
      /\ TokensOf(m.line, Top(p).lo, Top(p).hi, "|") = {} =>
           AllKeep(TreeTransversal(p), m.line)
  BY <1>1, <1>4, NodeParts
<1>6. PipeBelow(todo[p]) => TokensOf(m.line, Top(p).lo, Top(p).hi, "|") = {}
  BY <1>4, RunningFrame DEF KeepsPipe
<1>7. Others(p) /\ SamePipes(p) /\ Top(p).op # "child"
  BY DEF Others, SamePipes, IInv, TypeOK
<1> QED
  BY <1>1, <1>2, <1>4, <1>5, <1>6, <1>7, SetOK

LEMMA RdinHandlerOK ==
  ASSUME IInv, NEW p \in Pid, RdinHandler(p)  PROVE IInv'
<1>1. st[p] = "run" /\ Top(p).op = "bst" /\ KindAt(p) # "PIPE"
  BY DEF RdinHandler, Openable, Redirects, At
<1>2. todo' \in [Pid -> Seq(Frame)] /\ mem' \in [Pid -> Memory] /\ Grounded'
  <2> DEFINE g == [fd[p] EXCEPT !.in = Target(p)]
  <2>1. fd \in [Pid -> Descriptors] /\ fd' = [fd EXCEPT ![p] = g]
    BY DEF RdinHandler, IInv, TypeOK
  <2>2. g.rd = fd[p].rd /\ g.wr = fd[p].wr
    BY <2>1 DEF Descriptors
  <2> HIDE DEF g
  <2> QED
    BY <1>1, <2>1, <2>2, TraversalOK DEF RdinHandler, procs
<1>3. fd' \in [Pid -> Descriptors]
  <2>1. fd \in [Pid -> Descriptors] /\ Target(p) \in Object
    BY DEF RdinHandler, IInv, TypeOK, Object
  <2> QED
    BY <2>1 DEF RdinHandler, Descriptors
<1> QED
  BY <1>2, <1>3 DEF RdinHandler, IInv, TypeOK, procs, disk, user

LEMMA RdoutHandlerOK ==
  ASSUME IInv, NEW p \in Pid, RdoutHandler(p)  PROVE IInv'
<1>1. /\ st[p] = "run" /\ Top(p).op = "bst" /\ KindAt(p) \in {"RDOUT", "RDAPP"}
      /\ Target(p) # NoWord
  BY DEF RdoutHandler, Openable, Redirects, NoFile, Target, At
<1>2. Target(p) \in File
  <2>1. /\ Top(p).lo \in 1 .. Top(p).hi /\ Top(p).hi \in 1 .. Len(mem[p].line)
        /\ RootAt(p) \in Top(p).lo .. Top(p).hi
        /\ KindAt(p) = TypeAssign(RootToken(p))
    BY <1>1, NodeParts DEF NodeOp
  <2>2. RootAt(p) \in 1 .. Len(mem[p].line) /\ mem[p].line \in Lines \cup {<<>>}
    BY <2>1, <1>1, RunningFrame, LineType
  <2>3. RootToken(p).c \in OpChar
    BY <2>2, LineType DEF RootToken
  <2>4. RootToken(p).c = ">"
    BY <1>1, <2>1, <2>3 DEF TypeAssign, OpChar
  <2> QED
    BY <1>1, <2>2, <2>4, LineType DEF RootToken, Target
<1>3. todo' \in [Pid -> Seq(Frame)] /\ mem' \in [Pid -> Memory] /\ Grounded'
  <2> DEFINE g == [fd[p] EXCEPT !.out = Target(p)]
  <2>1. fd \in [Pid -> Descriptors] /\ fd' = [fd EXCEPT ![p] = g]
    BY DEF RdoutHandler, IInv, TypeOK
  <2>2. g.rd = fd[p].rd /\ g.wr = fd[p].wr
    BY <2>1 DEF Descriptors
  <2> HIDE DEF g
  <2> QED
    BY <1>1, <2>1, <2>2, TraversalOK DEF RdoutHandler, procs
<1>4. fd' \in [Pid -> Descriptors]
  <2>1. fd \in [Pid -> Descriptors] /\ Target(p) \in Object
    BY <1>2 DEF IInv, TypeOK, Object
  <2> QED
    BY <2>1 DEF RdoutHandler, Descriptors
<1>5. data' \in [Object -> Nat] /\ present' \in SUBSET File
  <2>1. data \in [Object -> Nat] /\ Target(p) \in Object /\ present \in SUBSET File
    BY <1>2 DEF IInv, TypeOK, Object
  <2> QED
    BY <1>2, <2>1 DEF RdoutHandler, Kept
<1> QED
  BY <1>3, <1>4, <1>5 DEF RdoutHandler, IInv, TypeOK, procs, user

LEMMA HeredocHandlerOK ==
  ASSUME IInv, NEW p \in Pid, HeredocHandler(p)  PROVE IInv'
<1>1. st[p] = "run" /\ Top(p).op = "bst" /\ KindAt(p) # "PIPE"
  BY DEF HeredocHandler, Openable, Redirects, At
<1> DEFINE h == On("heredoc_open", Top(p).lo, Top(p).hi, Nobody)
           a(c) == Await(c) \o <<h>>
           e(d) == On("heredoc_child", 0, 0, d)
<1>2. PICK d \in FreeDoc, c \in FreePid :
        /\ st' = [st EXCEPT ![c] = "run"]
        /\ par' = [par EXCEPT ![c] = p]
        /\ todo' = [Return(p, a(c)) EXCEPT ![c] = <<e(d)>>]
        /\ fd' = [fd EXCEPT ![p].in = Tty, ![p].leak = @ + 1,
                            ![c] = [fd[p] EXCEPT !.in = Tty]]
        /\ mem' = [mem EXCEPT ![c] = mem[p]]
        /\ sig' = [sig EXCEPT ![c] = sig[p]]
        /\ tmp' = d
        /\ data' = [data EXCEPT ![d] = 0]
  BY DEF HeredocHandler
<1>3. d \in Doc /\ c \in Pid
  BY DEF FreeDoc, FreePid
<1>4. /\ Top(p).lo \in Nat /\ Top(p).hi \in Nat
      /\ Top(p).lo \in 1 .. Top(p).hi /\ Top(p).hi \in 1 .. Len(mem[p].line)
  BY <1>1, RunningFrame DEF Indexed, NodeOp, Frame
<1>5. /\ h \in Frame /\ h.op = "heredoc_open" /\ h.lo = Top(p).lo /\ h.hi = Top(p).hi
      /\ e(d) \in Frame /\ e(d).op = "heredoc_child"
  BY <1>3, <1>4 DEF On, Frame, FrameOp
<1>6. /\ h.op \notin LastOp /\ h.op \notin PipeOp /\ Indexed(h, mem[p].line)
      /\ KeepsPipe(Top(p), mem[p].line) => KeepsPipe(h, mem[p].line)
  BY <1>1, <1>4, <1>5
     DEF Indexed, KeepsPipe, LastOp, NodeOp, PipeOp, ProgramOp, ProgramKind
<1>7. e(d).op \in LastOp /\ e(d).op \notin PipeOp /\ Indexed(e(d), mem[p].line)
  BY <1>5 DEF Indexed, LastOp, NodeOp, PipeOp, ProgramOp, ProgramKind
<1> HIDE DEF h, e
<1>8. <<e(d)>> \in Seq(Frame) /\ StackOK(<<e(d)>>, mem[p], fd[p])
  BY <1>5, <1>7 DEF StackOK
<1>9. /\ <<h>> \in Seq(Frame) /\ Called(<<h>>, mem[p], fd'[p])
      /\ KeepsPipe(Top(p), mem[p].line) => AllKeep(<<h>>, mem[p].line)
      /\ ~ \E i \in 1 .. Len(<<h>>) : <<h>>[i].op \in PipeOp
  BY <1>5, <1>6 DEF Called, AllKeep
<1>10. /\ a(c) \in Seq(Frame) /\ Called(a(c), mem[p], fd'[p])
       /\ KeepsPipe(Top(p), mem[p].line) => AllKeep(a(c), mem[p].line)
  <2>1. /\ Await(c) \in Seq(Frame) /\ Called(Await(c), mem[p], fd'[p])
        /\ AllKeep(Await(c), mem[p].line)
    BY <1>3, AwaitPushed
  <2> QED
    BY <1>9, <2>1, CalledConcat, AllKeepConcat, ConcatProperties
<1> HIDE DEF a
<1>11. /\ st' \in [Pid -> {"none", "run", "stop", "zombie"}]
       /\ todo' \in [Pid -> Seq(Frame)] /\ mem' \in [Pid -> Memory] /\ Grounded'
  <2>1. Top(p).op \notin LastOp /\ (PipeBelow(todo[p]) => AllKeep(a(c), mem[p].line))
    BY <1>1, <1>10, RunningFrame DEF LastOp, ProgramOp, ProgramKind
  <2>2. <<e(d)>>[1].op \notin ProgramOp /\ Top(p).op # "child"
    BY <1>1, <1>5 DEF ProgramOp, ProgramKind
  <2>3. fd \in [Pid -> Descriptors] /\ sig \in [Pid -> Signals] /\ c # p
    BY <1>1 DEF IInv, TypeOK, FreePid
  <2>4. /\ \A q \in Pid \ {c} : sig'[q] = sig[q]
        /\ \A q \in Pid \ {p, c} : fd'[q] = fd[q]
    BY <1>2, <1>3, <2>3
  <2>5. SamePipes(p) /\ fd'[c].rd = fd[p].rd /\ fd'[c].wr = fd[p].wr
    BY <1>2, <1>3, <2>3 DEF SamePipes, Descriptors
  <2> QED
    BY <1>1, <1>2, <1>8, <1>10, <2>1, <2>2, <2>4, <2>5, ForkOK
<1>12. fd' \in [Pid -> Descriptors]
  <2>1. fd \in [Pid -> Descriptors] /\ fd[p] \in Descriptors /\ Tty \in Object
    BY DEF IInv, TypeOK, Object
  <2>2. [fd[p] EXCEPT !.in = Tty] \in Descriptors
    BY <2>1 DEF Descriptors
  <2>3. [fd[p] EXCEPT !.in = Tty, !.leak = @ + 1] \in Descriptors
    <3>1. fd[p].leak + 1 \in Nat
      BY <2>1 DEF Descriptors
    <3> QED
      BY <2>1, <3>1 DEF Descriptors
  <2> QED
    BY <1>2, <1>3, <2>1, <2>2, <2>3
<1>13. /\ par' \in [Pid -> Pid \cup {Nobody}] /\ sig' \in [Pid -> Signals]
       /\ tmp' \in Doc \cup {NoDoc} /\ data' \in [Object -> Nat]
  BY <1>2, <1>3 DEF IInv, TypeOK
<1> QED
  BY <1>11, <1>12, <1>13 DEF HeredocHandler, IInv, TypeOK, user

LEMMA HeredocOpenOK ==
  ASSUME IInv, NEW p \in Pid, HeredocOpen(p)  PROVE IInv'
<1>1. st[p] = "run" /\ Top(p).op = "heredoc_open" /\ Top(p).op \notin LastOp
  BY DEF HeredocOpen, At, LastOp, ProgramOp, ProgramKind
<1>2. CASE mem[p].g # 0 \/ tmp = NoDoc
  <2>1. todo' \in [Pid -> Seq(Frame)] /\ Grounded'
    <3>1. Others(p) /\ SamePipes(p) /\ todo' = Return(p, <<>>) /\ mem' = mem /\ st' = st
      BY <1>2, SameAll DEF HeredocOpen, procs
    <3> QED
      BY <1>1, <3>1, NothingPushed, CallOK
  <2> QED
    BY <1>2, <2>1 DEF HeredocOpen, IInv, TypeOK, procs, disk, user
<1>3. CASE ~ (mem[p].g # 0 \/ tmp = NoDoc)
  <2>1. todo' \in [Pid -> Seq(Frame)] /\ mem' \in [Pid -> Memory] /\ Grounded'
    <3> DEFINE g == [fd[p] EXCEPT !.in = IF RightKind(p) = "HEREDOC" THEN @ ELSE tmp]
    <3>1. fd \in [Pid -> Descriptors] /\ fd' = [fd EXCEPT ![p] = g]
      BY <1>3 DEF HeredocOpen, IInv, TypeOK
    <3>2. g.rd = fd[p].rd /\ g.wr = fd[p].wr
      BY <3>1 DEF Descriptors
    <3> HIDE DEF g
    <3> QED
      BY <1>1, <1>3, <3>1, <3>2, TraversalOK DEF HeredocOpen, procs
  <2>2. fd' \in [Pid -> Descriptors]
    <3>1. fd \in [Pid -> Descriptors] /\ fd[p] \in Descriptors /\ tmp \in Object
      BY <1>3 DEF IInv, TypeOK, Object
    <3> QED
      BY <1>3, <3>1 DEF HeredocOpen, Descriptors
  <2> QED
    BY <1>3, <2>1, <2>2 DEF HeredocOpen, IInv, TypeOK, procs, disk, user
<1> QED
  BY <1>2, <1>3

LEMMA HeredocChildOK ==
  ASSUME IInv, NEW p \in Pid, HeredocChild(p)  PROVE IInv'
<1> DEFINE f == On("heredoc_input", 0, 0, Top(p).ref)
<1>1. /\ st[p] = "run" /\ Top(p).op = "heredoc_child" /\ Top(p).op \in LastOp
      /\ todo' = Return(p, <<f>>)
  BY DEF HeredocChild, At, LastOp
<1>2. f \in Frame /\ f.op = "heredoc_input"
  BY <1>1, RunningFrame DEF On, Frame, FrameOp
<1>3. f.op \in LastOp /\ f.op \notin ProgramOp /\ Indexed(f, mem[p].line)
  BY <1>2 DEF Indexed, LastOp, NodeOp, PipeOp, ProgramOp, ProgramKind
<1> HIDE DEF f
<1>4. todo' \in [Pid -> Seq(Frame)] /\ Grounded'
  <2>1. Others(p)
    BY DEF HeredocChild, Others, IInv, TypeOK
  <2> QED
    BY <1>1, <1>2, <1>3, <2>1, ReplaceOK DEF HeredocChild, procs
<1>5. sig' \in [Pid -> Signals]
  <2>1. sig \in [Pid -> Signals] /\ sig[p] \in Signals
    BY DEF IInv, TypeOK
  <2>2. sig[p].int \in Disposition /\ sig[p].job \in {"ignore", "default"} /\ sig[p].old \in Disposition
    BY <2>1 DEF Signals
  <2> QED
    BY <2>1, <2>2 DEF HeredocChild, Signals, Disposition
<1>6. fd' \in [Pid -> Descriptors]
  <2>1. fd \in [Pid -> Descriptors] /\ fd[p] \in Descriptors
    BY DEF IInv, TypeOK
  <2>2. Tty \in Object
    BY DEF Object
  <2> QED
    BY <2>1, <2>2 DEF HeredocChild, EchoTo, Descriptors
<1> QED
  BY <1>4, <1>5, <1>6 DEF HeredocChild, IInv, TypeOK, procs, disk, user

LEMMA HeredocLineOK ==
  ASSUME IInv, NEW p \in Pid, HeredocLine(p)  PROVE IInv'
<1>1. data' \in [Object -> Nat]
  <2>1. data \in [Object -> Nat] /\ data' = [data EXCEPT ![Top(p).ref] = @ + 1]
    BY DEF HeredocLine, IInv, TypeOK
  <2>2. Top(p).ref \in Object => data[Top(p).ref] + 1 \in Nat
    BY <2>1
  <2> QED
    BY <2>1, <2>2
<1> QED
  BY <1>1 DEF HeredocLine, IInv, TypeOK, Grounded, Ready, procs, user

LEMMA HeredocEndOK ==
  ASSUME IInv, NEW p \in Pid, HeredocEnd(p)  PROVE IInv'
BY StatusIsNat, ExitOK DEF HeredocEnd, IInv, TypeOK, disk, user

LEMMA OutOfResourcesOK ==
  ASSUME IInv, NEW p \in Pid, OutOfResources(p)  PROVE IInv'
<1>1. tmp' \in Doc \cup {NoDoc}
  BY DEF OutOfResources, FreeDoc, IInv, TypeOK
<1> QED
  BY <1>1, StatusIsNat, ExitOK DEF OutOfResources, IInv, TypeOK, user

LEMMA ProgramEndsOK ==
  ASSUME IInv, NEW p \in Pid, ProgramEnds(p)  PROVE IInv'
<1> DEFINE code == IF At(p, "status") THEN Prog[Command(p)].n ELSE 0
<1>1. code \in Nat
  BY CommandType DEF At, ProgramOp, ProgramKind
<1> QED
  BY <1>1, StatusIsNat, ExitOK DEF ProgramEnds, IInv, TypeOK, disk, user

LEMMA ProgramReadsOK ==
  ASSUME IInv, NEW p \in Pid, ProgramReads(p)  PROVE IInv'
<1> DEFINE f == [Top(p) EXCEPT !.n = @ + 1, !.op = IF @ = "copy" THEN "put" ELSE @]
<1>1. st[p] = "run" /\ Top(p).op \in {"copy", "head"}
  BY DEF ProgramReads, Reading, At
<1>2. Top(p) \in Frame /\ Indexed(Top(p), mem[p].line)
  BY <1>1, RunningFrame
<1>3. /\ f \in Frame /\ f.op \in {"put", "head"} /\ f.lo = Top(p).lo
  <2>1. Top(p).n + 1 \in Nat
    BY <1>2 DEF Frame
  <2> QED
    BY <1>1, <1>2, <2>1 DEF Frame, FrameOp, ProgramKind
<1>4. Top(p).op \in LastOp /\ f.op \in LastOp /\ Indexed(f, mem[p].line)
  BY <1>1, <1>2, <1>3 DEF Indexed, LastOp, NodeOp, PipeOp, ProgramOp, ProgramKind
<1>5. todo' = Return(p, <<f>>)
  BY DEF ProgramReads
<1> HIDE DEF f
<1>6. todo' \in [Pid -> Seq(Frame)] /\ Grounded'
  <2>1. Others(p) /\ sig'[p].int = "default" /\ sig'[p].job = "default"
    BY <1>1, RunningFrame DEF ProgramReads, Others, ProgramOp, ProgramKind
  <2> QED
    BY <1>1, <1>3, <1>4, <1>5, <2>1, ReplaceOK DEF ProgramReads, procs
<1>7. data' \in [Object -> Nat]
  <2> DEFINE o == fd[p].in
  <2>1. data \in [Object -> Nat] /\ o \in Object
    BY DEF IInv, TypeOK, Descriptors
  <2>2. o \in PipeId => data[o] - 1 \in Nat
    <3>1. o \in PipeId => data[o] > 0 /\ data[o] \in Nat
      BY <2>1 DEF ProgramReads, HasInput
    <3> QED
      BY <3>1
  <2>3. data' = [data EXCEPT ![o] = IF o \in PipeId THEN @ - 1 ELSE @]
    BY DEF ProgramReads
  <2> QED
    BY <2>1, <2>2, <2>3
<1> QED
  BY <1>6, <1>7 DEF ProgramReads, IInv, TypeOK, procs, user

LEMMA EndOfFileOK ==
  ASSUME IInv, NEW p \in Pid, EndOfFile(p)  PROVE IInv'
BY StatusIsNat, ExitOK DEF EndOfFile, IInv, TypeOK, disk, user

LEMMA TypedEndOK ==
  ASSUME IInv, NEW p \in Pid, TypedEnd(p)  PROVE IInv'
BY StatusIsNat, ExitOK DEF TypedEnd, IInv, TypeOK, disk, user

LEMMA WritesOK ==
  ASSUME IInv, NEW p \in Pid, Writes(p)  PROVE IInv'
<1>1. data' \in [Object -> Nat]
  <2> DEFINE o == fd[p].out
  <2>1. data \in [Object -> Nat] /\ o \in Object /\ data' = [data EXCEPT ![o] = @ + 1]
    BY DEF Writes, IInv, TypeOK, Descriptors
  <2> QED
    BY <2>1
<1>2. CASE At(p, "echo")
  <2> DEFINE m == [mem[p] EXCEPT !.g = 0]
  <2>1. mem \in [Pid -> Memory] /\ mem[p] \in Memory /\ mem' = [mem EXCEPT ![p] = m]
    BY <1>2 DEF Writes, IInv, TypeOK
  <2>2. m \in Memory /\ m.line = mem[p].line /\ m.r = mem[p].r /\ m.w = mem[p].w
    BY <2>1 DEF Memory
  <2> HIDE DEF m
  <2>3. st[p] = "run" /\ Top(p).op \notin LastOp /\ todo' = Return(p, <<>>)
    BY <1>2 DEF Writes, Written, At, LastOp, ProgramOp, ProgramKind
  <2>4. todo' \in [Pid -> Seq(Frame)] /\ mem' \in [Pid -> Memory] /\ Grounded'
    <3>1. Others(p) /\ SamePipes(p) /\ st' = st
      BY SameAll DEF Writes, procs
    <3>2. Top(p).op # "child"
      BY <1>2 DEF At
    <3> QED
      BY <2>1, <2>2, <2>3, <3>1, <3>2, NothingPushed, SetOK
  <2> QED
    BY <1>1, <2>4 DEF Writes, IInv, TypeOK, procs, user
<1>3. CASE ~ At(p, "echo")
  <2> DEFINE f == IF At(p, "put") THEN [Top(p) EXCEPT !.op = "copy"]
                  ELSE [Top(p) EXCEPT !.n = @ + 1]
  <2>1. st[p] = "run" /\ Top(p).op \in {"put", "emit"} /\ todo' = Return(p, <<f>>)
    BY <1>3 DEF Writes, Writing, Written, At
  <2>2. Top(p) \in Frame /\ Indexed(Top(p), mem[p].line)
    BY <2>1, RunningFrame
  <2>3. f \in Frame /\ f.op \in {"copy", "emit"} /\ f.lo = Top(p).lo
    <3>1. Top(p).n + 1 \in Nat
      BY <2>2 DEF Frame
    <3> QED
      BY <2>1, <2>2, <3>1 DEF At, Frame, FrameOp, ProgramKind
  <2>4. Top(p).op \in LastOp /\ f.op \in LastOp /\ Indexed(f, mem[p].line)
    BY <2>1, <2>2, <2>3 DEF Indexed, LastOp, NodeOp, PipeOp, ProgramOp, ProgramKind
  <2> HIDE DEF f
  <2>5. mem' = mem
    BY <1>3 DEF Writes, IInv, TypeOK, Memory
  <2>6. todo' \in [Pid -> Seq(Frame)] /\ Grounded'
    <3>1. Others(p) /\ sig'[p].int = "default" /\ sig'[p].job = "default"
      BY <2>1, RunningFrame DEF Writes, Others, ProgramOp, ProgramKind
    <3> QED
      BY <2>1, <2>3, <2>4, <2>5, <3>1, ReplaceOK DEF Writes, procs
  <2> QED
    BY <1>1, <2>5, <2>6 DEF Writes, IInv, TypeOK, procs, user
<1> QED
  BY <1>2, <1>3

LEMMA BrokenPipeOK ==
  ASSUME IInv, NEW p \in Pid, BrokenPipe(p)  PROVE IInv'
BY StatusIsNat, ExitOK DEF BrokenPipe, IInv, TypeOK, disk, user

LEMMA CtrlCOK ==
  ASSUME IInv, CtrlC  PROVE IInv'
<1> DEFINE hit == {p \in Running : sig[p].int \in {"default", "heredoc"}}
           status == [p \in hit |-> IF sig[p].int = "heredoc" THEN Exited(1)
                                    ELSE Killed(SIGINT)]
<1>1. hit \in SUBSET Pid /\ status \in [hit -> Nat]
  BY StatusIsNat DEF Running
<1>2. End(status)
  BY DEF CtrlC
<1>3. nsig' \in 0 .. MaxSig
  BY LineAssumption DEF CtrlC, IInv, TypeOK
<1>4. data' \in [Object -> Nat]
  BY DEF CtrlC, IInv, TypeOK
<1> HIDE DEF hit, status
<1> QED
  BY <1>1, <1>2, <1>3, <1>4, EndOK DEF CtrlC, IInv, TypeOK

LEMMA CtrlBackslashOK ==
  ASSUME IInv, CtrlBackslash  PROVE IInv'
<1> DEFINE hit == {p \in Running : sig[p].job = "default"}
           status == [p \in hit |-> Killed(SIGQUIT)]
<1>1. hit \in SUBSET Pid /\ status \in [hit -> Nat]
  BY StatusIsNat DEF Running
<1>2. End(status)
  BY DEF CtrlBackslash
<1>3. nsig' \in 0 .. MaxSig
  BY LineAssumption DEF CtrlBackslash, IInv, TypeOK
<1> HIDE DEF hit, status
<1> QED
  BY <1>1, <1>2, <1>3, EndOK DEF CtrlBackslash, IInv, TypeOK, disk

LEMMA CtrlZOK ==
  ASSUME IInv, CtrlZ  PROVE IInv'
<1>1. nsig' \in 0 .. MaxSig
  BY LineAssumption DEF CtrlZ, IInv, TypeOK
<1>2. st' \in [Pid -> {"none", "run", "stop", "zombie"}]
  BY DEF CtrlZ, IInv, TypeOK
<1>3. \A p \in Pid : st'[p] \in {"run", "stop"} => st[p] \in {"run", "stop"}
  BY DEF CtrlZ, Running, IInv, TypeOK
<1>4. Grounded'
  BY <1>3 DEF CtrlZ, IInv, Grounded, Ready
<1> QED
  BY <1>1, <1>2, <1>4 DEF CtrlZ, IInv, TypeOK, disk

(***************************************************************************)
(* The theorems.                                                           *)
(***************************************************************************)
LEMMA InitOK == Init => IInv
<1> SUFFICES ASSUME Init  PROVE IInv
  OBVIOUS
<1> DEFINE f == Do("prompt")
<1>1. f \in Frame /\ f.op = "prompt"
  BY DEF Do, On, Frame, FrameOp
<1>2. f.op \in LastOp /\ f.op \notin PipeOp /\ Indexed(f, mem[Shell].line)
  BY <1>1 DEF Indexed, LastOp, NodeOp, PipeOp, ProgramOp, ProgramKind
<1>3. todo = [p \in Pid |-> IF p = Shell THEN <<f>> ELSE <<>>]
  BY DEF Init
<1> HIDE DEF f
<1>4. /\ StackOK(todo[Shell], mem[Shell], fd[Shell]) /\ <<f>> \in Seq(Frame)
      /\ Ready(todo[Shell], sig[Shell])
  <2>1. f.op \notin ProgramOp
    BY <1>1 DEF ProgramOp, ProgramKind
  <2> QED
    BY <1>1, <1>2, <1>3, <2>1, ProcessAssumption DEF StackOK, Ready
<1>5. Grounded
  BY <1>4 DEF Grounded, Init
<1>6. /\ Closed \in Descriptors /\ Blank \in Memory
      /\ DefaultSignals \in Signals /\ ShellSignals \in Signals
  BY DEF Closed, Descriptors, Object, Blank, Memory, DefaultSignals,
         ShellSignals, Signals, Disposition
<1>7. todo \in [Pid -> Seq(Frame)]
  BY <1>3, <1>4, EmptySeq
<1>8. nlines \in 0 .. MaxLines /\ nsig \in 0 .. MaxSig /\ present \in SUBSET File
  BY LineAssumption, ObjectAssumption DEF Init
<1> QED
  BY <1>5, <1>6, <1>7, <1>8 DEF Init, IInv, TypeOK

LEMMA NextOK == IInv /\ [Next]_vars => IInv'
<1> SUFFICES ASSUME IInv, [Next]_vars  PROVE IInv'
  OBVIOUS
<1>1. ASSUME NEW p \in Pid, Step(p)  PROVE IInv'
  BY <1>1, WaitEndedOK, WaitStoppedOK, SigintIgnoreOK, SigintRestoreOK,
     ChildRestoreSignalsOK, ResetDataOK, ExecBuiltinOK, ExecCmdOK, ExecveOK,
     CommandNotFoundOK, PipeSyntaxErrorOK, PipeHandlerOK, PipeHeredocOK,
     ForkLeftOK, ForkRightOK, ClosePipeOK, LeftChildOK, RightChildOK,
     ChildExitOK, RedirectionErrorOK, RedirectionFailsOK, OpenFailsOK,
     RdinHandlerOK, RdoutHandlerOK, HeredocHandlerOK, HeredocOpenOK,
     HeredocChildOK, OutOfResourcesOK, ProgramEndsOK, ProgramReadsOK,
     EndOfFileOK, WritesOK, BrokenPipeOK DEF Step
<1>2. ASSUME NEW p \in Pid, Types(p)  PROVE IInv'
  BY <1>2, ReadLineOK, EndOfInputOK, HeredocLineOK, HeredocEndOK, TypedEndOK
     DEF Types
<1>3. CASE UNCHANGED vars
  BY <1>3 DEF vars, procs, disk, user, IInv, TypeOK, Grounded, Ready
<1> QED
  BY <1>1, <1>2, <1>3, CtrlCOK, CtrlBackslashOK, CtrlZOK DEF Next, Over

(* The invariant that the other theorems start from: the types, and that   *)
(* every process has a frame to return to, whose tokens are in the line    *)
(* and whose pipe is open.                                                 *)
THEOREM Invariance == Spec => []IInv
<1> QED
  BY InitOK, NextOK, PTL DEF Spec

(* Every variable has its type, whatever the lines, programs and signals:  *)
(* no handler indexes the tokens out of the line, uses a pipe that is not  *)
(* open, or returns from an empty stack.                                   *)
THEOREM TypeCorrect == Spec => []TypeOK
<1>1. IInv => TypeOK
  BY DEF IInv
<1> QED
  BY <1>1, Invariance, PTL

(* Until pipe_handler() is done with sh->pipe, both of its ends are open:  *)
(* the here-documents that run above it, the redirections and commands in  *)
(* them, and a fork in between, never close them or begin another pipe.    *)
THEOREM PipesHeld == Spec => []PipeHeld
<1>1. IInv => PipeHeld
  <2> SUFFICES ASSUME IInv, NEW p \in Pid, st[p] \in {"run", "stop"},
                      NEW i \in DOMAIN todo[p], todo[p][i].op \in PipeOp
               PROVE  mem[p].r \in fd[p].rd /\ mem[p].w \in fd[p].wr
    BY DEF PipeHeld
  <2>1. i \in 1 .. Len(todo[p])
    BY RunningFrame, LenProperties
  <2>2. StackOK(todo[p], mem[p], fd[p])
    BY RunningFrame
  <2> QED
    BY <2>1, <2>2 DEF StackOK, Open
<1> QED
  BY <1>1, Invariance, PTL

(* Every executed program has the default dispositions, whatever processes *)
(* it was forked through: child_restore_signals() always ran between the   *)
(* fork and execve(), and nothing after it ignored a signal again.         *)
THEOREM ProgramsSignalled == Spec => []ProgramSignals
<1>1. IInv => ProgramSignals
  <2> SUFFICES ASSUME IInv, NEW p \in Pid, IsProgram(p)
               PROVE  sig[p].int = "default" /\ sig[p].job = "default"
    BY DEF ProgramSignals
  <2>1. st[p] \in {"run", "stop"} /\ Top(p).op \in ProgramOp
    BY DEF IsProgram, ProgramOp
  <2> QED
    BY <2>1, RunningFrame
<1> QED
  BY <1>1, Invariance, PTL

(***************************************************************************)
(* Parents, children and waits, and what comes back to the prompt:         *)
(* ChildrenAwaited of all processes, ShellHandler and PromptClean of the   *)
(* interactive shell.                                                      *)
(*                                                                         *)
(* ChildrenAwaited is inductive with one fact more, Family: the parent of  *)
(* a process lives, or the process is an orphan.  Without it a new process *)
(* could take a slot that is still somebody's parent.  The other two are   *)
(* about what comes back after the calls of a line, so their invariants    *)
(* are about the shell's stack: only reset_data() returns to the prompt,   *)
(* sigint_ignore() is followed by its waits and by sigint_restore(), and   *)
(* as long as sh->pipe is in use some frame of pipe_handler() is still     *)
(* there to close it.                                                      *)
(*                                                                         *)
(* The step lemmas say of each action what it does to the stacks;          *)
(* PipeProofs uses them too.                                               *)
(***************************************************************************)
Living == {p \in Pid : st[p] \in {"run", "stop"}}

(***************************************************************************)
(* Stacks.                                                                 *)
(***************************************************************************)
OnlyOps(a, O) == \A i \in 1 .. Len(a) : a[i].op \in O

LEMMA OnlyOpsConcat ==
  ASSUME NEW a \in Seq(Frame), NEW b \in Seq(Frame), NEW O, OnlyOps(a, O), OnlyOps(b, O)
  PROVE  a \o b \in Seq(Frame) /\ OnlyOps(a \o b, O)
BY ConcatProperties, LenProperties DEF OnlyOps

(* What is where after a return: the frames pushed, then the old ones      *)
(* below the top.                                                          *)
LEMMA Pushed ==
  ASSUME NEW s \in Seq(Frame), s # <<>>, NEW a \in Seq(Frame), NEW t, t = a \o Tail(s)
  PROVE  /\ t \in Seq(Frame) /\ Len(a) \in Nat /\ Len(s) \in Nat /\ Len(s) >= 1
         /\ Len(t) = Len(a) + Len(s) - 1
         /\ \A i \in 1 .. Len(a) : i \in 1 .. Len(t) /\ t[i] = a[i]
         /\ \A i \in 2 .. Len(s) :
              Len(a) + i - 1 \in 1 .. Len(t) /\ t[Len(a) + i - 1] = s[i]
         /\ \A i \in 1 .. Len(t) :
              \/ i \in 1 .. Len(a) /\ t[i] = a[i]
              \/ i - Len(a) + 1 \in 2 .. Len(s) /\ t[i] = s[i - Len(a) + 1]
<1>1. Len(s) \in Nat /\ Len(s) >= 1 /\ Len(a) \in Nat
  BY LenProperties, EmptySeq
<1>2. /\ Tail(s) \in Seq(Frame) /\ Len(Tail(s)) = Len(s) - 1
      /\ \A i \in 1 .. Len(s) - 1 : Tail(s)[i] = s[i + 1]
  BY HeadTailProperties
<1> DEFINE r == Tail(s)
<1>3. /\ t = a \o r /\ r \in Seq(Frame) /\ Len(r) = Len(s) - 1
      /\ \A i \in 1 .. Len(s) - 1 : r[i] = s[i + 1]
  BY <1>2
<1> HIDE DEF r
<1>4. /\ t \in Seq(Frame) /\ Len(t) = Len(a) + Len(r)
      /\ \A i \in 1 .. Len(a) + Len(r) : t[i] = IF i <= Len(a) THEN a[i] ELSE r[i - Len(a)]
  BY <1>1, <1>3, ConcatProperties
<1>5. ASSUME NEW i \in 2 .. Len(s)
      PROVE  Len(a) + i - 1 \in 1 .. Len(t) /\ t[Len(a) + i - 1] = s[i]
  <2>1. Len(a) + i - 1 \in 1 .. Len(t) /\ ~ (Len(a) + i - 1 <= Len(a))
        /\ (Len(a) + i - 1) - Len(a) = i - 1 /\ i - 1 \in 1 .. Len(s) - 1 /\ (i - 1) + 1 = i
    BY <1>1, <1>3, <1>4
  <2> QED
    BY <2>1, <1>3, <1>4
<1>6. ASSUME NEW i \in 1 .. Len(t)
      PROVE  \/ i \in 1 .. Len(a) /\ t[i] = a[i]
             \/ i - Len(a) + 1 \in 2 .. Len(s) /\ t[i] = s[i - Len(a) + 1]
  <2>1. CASE i <= Len(a)
    BY <2>1, <1>1, <1>4
  <2>2. CASE ~ (i <= Len(a))
    <3>1. i - Len(a) \in 1 .. Len(s) - 1 /\ i - Len(a) + 1 \in 2 .. Len(s)
      BY <2>2, <1>1, <1>3, <1>4
    <3> QED
      BY <3>1, <2>2, <1>3, <1>4
  <2> QED
    BY <2>1, <2>2
<1> QED
  BY <1>1, <1>3, <1>4, <1>5, <1>6

(* Frames that wait for c, in a stack and below its top. *)
WaitsFor(s, c) == \E i \in 1 .. Len(s) : Awaits(s[i]) /\ s[i].ref = c
WaitsBelow(s, c) == \E i \in 2 .. Len(s) : Awaits(s[i]) /\ s[i].ref = c
Once(s) ==
  \A i, j \in 1 .. Len(s) : Awaits(s[i]) /\ Awaits(s[j]) /\ s[i].ref = s[j].ref => i = j
Unawaiting(a) == \A i \in 1 .. Len(a) : ~ Awaits(a[i])

LEMMA TopWaits ==
  ASSUME NEW s \in Seq(Frame), s # <<>>, NEW c
  PROVE  /\ ~ Awaits(s[1]) => (WaitsBelow(s, c) <=> WaitsFor(s, c))
         /\ Awaits(s[1]) /\ Once(s) => (WaitsBelow(s, c) <=> WaitsFor(s, c) /\ c # s[1].ref)
<1>1. Len(s) \in Nat /\ Len(s) >= 1
  BY LenProperties, EmptySeq
<1>2. /\ 1 \in 1 .. Len(s) /\ \A i \in 2 .. Len(s) : i \in 1 .. Len(s) /\ i # 1
      /\ \A i \in 1 .. Len(s) : i = 1 \/ i \in 2 .. Len(s)
  BY <1>1
<1> QED
  BY <1>2 DEF WaitsFor, WaitsBelow, Once

LEMMA PushWaits ==
  ASSUME NEW s \in Seq(Frame), s # <<>>, NEW a \in Seq(Frame), Once(s), Once(a),
         \A c : ~ (WaitsFor(a, c) /\ WaitsBelow(s, c))
  PROVE  /\ \A c : WaitsFor(a \o Tail(s), c) <=> WaitsFor(a, c) \/ WaitsBelow(s, c)
         /\ Once(a \o Tail(s))
<1> DEFINE t == a \o Tail(s)
<1>0. t = a \o Tail(s)
  OBVIOUS
<1> HIDE DEF t
<1>1. /\ t \in Seq(Frame) /\ Len(a) \in Nat /\ Len(s) \in Nat /\ Len(s) >= 1
      /\ Len(t) = Len(a) + Len(s) - 1
      /\ \A i \in 1 .. Len(a) : i \in 1 .. Len(t) /\ t[i] = a[i]
      /\ \A i \in 2 .. Len(s) : Len(a) + i - 1 \in 1 .. Len(t) /\ t[Len(a) + i - 1] = s[i]
      /\ \A i \in 1 .. Len(t) :
           \/ i \in 1 .. Len(a) /\ t[i] = a[i]
           \/ i - Len(a) + 1 \in 2 .. Len(s) /\ t[i] = s[i - Len(a) + 1]
  BY <1>0, Pushed
<1>2. ASSUME NEW c  PROVE WaitsFor(t, c) <=> WaitsFor(a, c) \/ WaitsBelow(s, c)
  <2>1. WaitsFor(t, c) => WaitsFor(a, c) \/ WaitsBelow(s, c)
    BY <1>1 DEF WaitsFor, WaitsBelow
  <2>2. WaitsFor(a, c) => WaitsFor(t, c)
    BY <1>1 DEF WaitsFor
  <2>3. WaitsBelow(s, c) => WaitsFor(t, c)
    BY <1>1 DEF WaitsFor, WaitsBelow
  <2> QED
    BY <2>1, <2>2, <2>3
<1>3. ASSUME NEW i \in 1 .. Len(t), NEW j \in 1 .. Len(t),
             Awaits(t[i]), Awaits(t[j]), t[i].ref = t[j].ref
      PROVE  i = j
  <2>1. CASE i \in 1 .. Len(a) /\ t[i] = a[i]
    <3>1. CASE j \in 1 .. Len(a) /\ t[j] = a[j]
      BY <2>1, <3>1, <1>3 DEF Once
    <3>2. CASE j - Len(a) + 1 \in 2 .. Len(s) /\ t[j] = s[j - Len(a) + 1]
      <4>1. WaitsFor(a, t[i].ref) /\ WaitsBelow(s, t[i].ref)
        BY <2>1, <3>2, <1>3 DEF WaitsFor, WaitsBelow
      <4> QED
        BY <4>1
    <3> QED
      BY <3>1, <3>2, <1>1
  <2>2. CASE i - Len(a) + 1 \in 2 .. Len(s) /\ t[i] = s[i - Len(a) + 1]
    <3>1. CASE j \in 1 .. Len(a) /\ t[j] = a[j]
      <4>1. WaitsFor(a, t[i].ref) /\ WaitsBelow(s, t[i].ref)
        BY <2>2, <3>1, <1>3 DEF WaitsFor, WaitsBelow
      <4> QED
        BY <4>1
    <3>2. CASE j - Len(a) + 1 \in 2 .. Len(s) /\ t[j] = s[j - Len(a) + 1]
      <4>1. i - Len(a) + 1 \in 1 .. Len(s) /\ j - Len(a) + 1 \in 1 .. Len(s)
        BY <2>2, <3>2, <1>1
      <4>2. i - Len(a) + 1 = j - Len(a) + 1
        BY <2>2, <3>2, <4>1, <1>3 DEF Once
      <4> QED
        BY <4>2, <1>1
    <3> QED
      BY <3>1, <3>2, <1>1
  <2> QED
    BY <2>1, <2>2, <1>1
<1>4. Once(t)
  BY <1>3 DEF Once
<1> QED
  BY <1>2, <1>4 DEF t

(***************************************************************************)
(* The forms of a step.                                                    *)
(***************************************************************************)
(* Frames of the calls that a handler makes before it returns. *)
CallOp ==
  {"bst", "echo", "heredoc_left", "heredoc_left_end", "heredoc_right",
   "heredoc_right_end", "fork_left"}

(* p returns, after it has pushed the frames of the calls it makes. *)
Calls(p) ==
  /\ st[p] = "run" /\ Top(p).op \notin LastOp \cup {"wait", "fork_right", "fork_left"}
  /\ \E a \in Seq(Frame) :
       /\ OnlyOps(a, CallOp) /\ todo' = Return(p, a)
       /\ a = <<>> \/ Top(p).op \in {"bst", "heredoc_open", "left", "right"}
       /\ OnlyOps(a, {"bst", "echo"}) \/ PipeHandler(p)
  /\ UNCHANGED procs

(* The last frame of p is replaced by another. *)
Becomes(p) ==
  /\ st[p] = "run" /\ Top(p).op \in LastOp \ {"prompt", "_exit"}
  /\ \E f \in Frame : /\ f.op \in LastOp \ {"prompt", "_exit", "heredoc_child"}
                      /\ todo' = Return(p, <<f>>)
  /\ UNCHANGED procs

Exits(p) == st[p] = "run" /\ \E code \in Nat : Exit(p, code)

LEMMA BstOps ==
  ASSUME NEW lo \in Nat, NEW hi \in Nat
  PROVE  Bst(lo, hi) \in Seq(Frame) /\ OnlyOps(Bst(lo, hi), {"bst"})
<1> DEFINE f == On("bst", lo, hi, Nobody)
<1>1. f \in Frame /\ f.op = "bst"
  BY DEF Frame, On, FrameOp
<1> HIDE DEF f
<1>2. <<f>> \in Seq(Frame) /\ Len(<<f>>) = 1 /\ <<f>>[1] = f
  BY <1>1
<1>3. OnlyOps(<<f>>, {"bst"}) /\ <<>> \in Seq(Frame) /\ OnlyOps(<<>>, {"bst"})
  BY <1>1, <1>2, EmptySeq DEF OnlyOps
<1>4. Bst(lo, hi) = <<>> \/ Bst(lo, hi) = <<f>>
  BY DEF Bst, f
<1> QED
  BY <1>2, <1>3, <1>4

(* The subtrees a node's handler may run. *)
LEMMA PartOps ==
  ASSUME IInv, NEW p \in Pid, st[p] = "run", Top(p).op \in NodeOp
  PROVE  /\ LeftBst(p) \in Seq(Frame) /\ OnlyOps(LeftBst(p), {"bst"})
         /\ RightBst(p) \in Seq(Frame) /\ OnlyOps(RightBst(p), {"bst"})
         /\ TreeTransversal(p) \in Seq(Frame) /\ OnlyOps(TreeTransversal(p), {"bst"})
<1>1. /\ Top(p).lo \in 1 .. Top(p).hi /\ Top(p).lo \in Nat /\ Top(p).hi \in Nat
      /\ RootAt(p) \in Top(p).lo .. Top(p).hi
  BY NodeParts, RunningFrame DEF Frame
<1>2. RootAt(p) - 1 \in Nat /\ RootAt(p) + 1 \in Nat
  BY <1>1
<1>3. /\ LeftBst(p) \in Seq(Frame) /\ OnlyOps(LeftBst(p), {"bst"})
      /\ RightBst(p) \in Seq(Frame) /\ OnlyOps(RightBst(p), {"bst"})
  BY <1>1, <1>2, BstOps DEF LeftBst, RightBst
<1>4. <<>> \in Seq(Frame) /\ OnlyOps(<<>>, {"bst"})
  BY EmptySeq DEF OnlyOps
<1> QED
  BY <1>3, <1>4, OnlyOpsConcat DEF TreeTransversal

LEMMA NothingCalled ==
  ASSUME NEW p \in Pid, st[p] = "run", todo' = Return(p, <<>>), UNCHANGED procs,
         Top(p).op \notin LastOp \cup {"wait", "fork_right", "fork_left"}
  PROVE  Calls(p)
<1>1. <<>> \in Seq(Frame) /\ OnlyOps(<<>>, CallOp) /\ OnlyOps(<<>>, {"bst", "echo"})
  BY EmptySeq DEF OnlyOps
<1> QED
  BY <1>1 DEF Calls

LEMMA SubtreesCalled ==
  ASSUME NEW p \in Pid, st[p] = "run", Top(p).op \in {"bst", "heredoc_open", "left", "right"},
         NEW a \in Seq(Frame), OnlyOps(a, {"bst"}), todo' = Return(p, a), UNCHANGED procs
  PROVE  Calls(p)
BY DEF Calls, OnlyOps, CallOp, LastOp, ProgramOp, ProgramKind

LEMMA PipeHandlerCalls ==
  ASSUME IInv, NEW p \in Pid, PipeHandler(p)  PROVE Calls(p)
<1>1. st[p] = "run" /\ Top(p).op = "bst" /\ Top(p).op \in NodeOp /\ Top(p).op \notin LastOp
  BY DEF PipeHandler, At, NodeOp, LastOp, ProgramOp, ProgramKind
<1>2. /\ LeftBst(p) \in Seq(Frame) /\ OnlyOps(LeftBst(p), {"bst"})
      /\ RightBst(p) \in Seq(Frame) /\ OnlyOps(RightBst(p), {"bst"})
      /\ Top(p).lo \in Nat /\ Top(p).hi \in Nat
  BY <1>1, PartOps, RunningFrame DEF Frame
<1> DEFINE node(op) == <<On(op, Top(p).lo, Top(p).hi, Nobody)>>
           left == node("heredoc_left") \o LeftBst(p) \o node("heredoc_left_end")
           right == node("heredoc_right") \o RightBst(p) \o node("heredoc_right_end")
           x == IF LeftKind(p) = "HEREDOC" THEN left ELSE <<>>
           y == IF RightKind(p) = "HEREDOC" THEN right ELSE <<>>
<1>3. ASSUME NEW op \in CallOp  PROVE node(op) \in Seq(Frame) /\ OnlyOps(node(op), CallOp)
  <2> DEFINE f == On(op, Top(p).lo, Top(p).hi, Nobody)
  <2>1. f \in Frame /\ f.op \in CallOp
    BY <1>2 DEF Frame, On, FrameOp, CallOp
  <2> HIDE DEF f
  <2>2. <<f>> \in Seq(Frame) /\ OnlyOps(<<f>>, CallOp)
    BY <2>1 DEF OnlyOps
  <2> QED
    BY <2>2 DEF f
<1>4. OnlyOps(LeftBst(p), CallOp) /\ OnlyOps(RightBst(p), CallOp)
  BY <1>2 DEF OnlyOps, CallOp
<1>5. {"heredoc_left", "heredoc_left_end", "heredoc_right", "heredoc_right_end",
       "fork_left"} \subseteq CallOp
  BY DEF CallOp
<1>6. <<>> \in Seq(Frame) /\ OnlyOps(<<>>, CallOp)
  BY EmptySeq DEF OnlyOps
<1>7. todo' = Return(p, x \o y \o node("fork_left"))
  BY DEF PipeHandler
<1> HIDE DEF node
<1>8. left \in Seq(Frame) /\ OnlyOps(left, CallOp)
  BY <1>2, <1>3, <1>4, <1>5, OnlyOpsConcat
<1>9. right \in Seq(Frame) /\ OnlyOps(right, CallOp)
  BY <1>2, <1>3, <1>4, <1>5, OnlyOpsConcat
<1> HIDE DEF left, right
<1>10. x \in Seq(Frame) /\ OnlyOps(x, CallOp) /\ y \in Seq(Frame) /\ OnlyOps(y, CallOp)
  BY <1>6, <1>8, <1>9
<1> HIDE DEF x, y
<1>11. /\ x \o y \o node("fork_left") \in Seq(Frame)
       /\ OnlyOps(x \o y \o node("fork_left"), CallOp)
  BY <1>3, <1>5, <1>10, OnlyOpsConcat
<1>12. /\ st[p] = "run" /\ UNCHANGED procs
       /\ Top(p).op \notin LastOp \cup {"wait", "fork_right", "fork_left"}
  BY <1>1 DEF PipeHandler
<1> DEFINE a == x \o y \o node("fork_left")
<1>13. a \in Seq(Frame) /\ OnlyOps(a, CallOp) /\ todo' = Return(p, a)
  BY <1>7, <1>11
<1> HIDE DEF a
<1> QED
  BY <1>1, <1>12, <1>13 DEF Calls

LEMMA ProgramReadsBecomes ==
  ASSUME IInv, NEW p \in Pid, ProgramReads(p)  PROVE Becomes(p)
<1> DEFINE f == [Top(p) EXCEPT !.n = @ + 1, !.op = IF @ = "copy" THEN "put" ELSE @]
<1>1. st[p] = "run" /\ Top(p).op \in {"copy", "head"} /\ Top(p) \in Frame
  BY RunningFrame DEF ProgramReads, Reading, At
<1>2. f \in Frame /\ f.op \in {"put", "head"}
  <2>1. Top(p).n + 1 \in Nat
    BY <1>1 DEF Frame
  <2> QED
    BY <1>1, <2>1 DEF Frame, FrameOp, ProgramKind
<1>3. todo' = Return(p, <<f>>) /\ UNCHANGED procs
  BY DEF ProgramReads
<1> HIDE DEF f
<1> QED
  BY <1>1, <1>2, <1>3 DEF Becomes, LastOp, ProgramOp, ProgramKind

LEMMA WritesForms ==
  ASSUME IInv, NEW p \in Pid, Writes(p)
  PROVE  IF At(p, "echo") THEN Calls(p) ELSE Becomes(p)
<1>1. CASE At(p, "echo")
  <2>1. st[p] = "run" /\ Top(p).op \notin LastOp \cup {"wait", "fork_right", "fork_left"}
        /\ todo' = Return(p, <<>>) /\ UNCHANGED procs
    BY <1>1 DEF Writes, Written, At, LastOp, ProgramOp, ProgramKind
  <2> QED
    BY <1>1, <2>1, NothingCalled
<1>2. CASE ~ At(p, "echo")
  <2> DEFINE f == IF At(p, "put") THEN [Top(p) EXCEPT !.op = "copy"]
                  ELSE [Top(p) EXCEPT !.n = @ + 1]
  <2>1. /\ st[p] = "run" /\ Top(p).op \in {"put", "emit"} /\ Top(p) \in Frame
        /\ todo' = Return(p, <<f>>) /\ UNCHANGED procs
    BY <1>2, RunningFrame DEF Writes, Writing, Written, At
  <2>2. f \in Frame /\ f.op \in {"copy", "emit"}
    <3>1. Top(p).n + 1 \in Nat
      BY <2>1 DEF Frame
    <3> QED
      BY <2>1, <3>1 DEF At, Frame, FrameOp, ProgramKind
  <2> HIDE DEF f
  <2> QED
    BY <1>2, <2>1, <2>2 DEF Becomes, LastOp, ProgramOp, ProgramKind
<1> QED
  BY <1>1, <1>2

(* Every step of a process has one of these forms. *)
LEMMA StepForms ==
  ASSUME IInv, NEW p \in Pid, Step(p) \/ Types(p)
  PROVE  \/ Calls(p) \/ Becomes(p) \/ Exits(p)
         \/ ReadLine(p) \/ WaitEnded(p) \/ WaitStopped(p)
         \/ ExecCmd(p) \/ ForkLeft(p) \/ ForkRight(p) \/ HeredocHandler(p)
         \/ HeredocLine(p)
<1> USE DEF LastOp, ProgramOp, ProgramKind
<1>1. ASSUME \/ SigintIgnore(p) \/ SigintRestore(p) \/ ChildRestoreSignals(p)
             \/ PipeSyntaxError(p) \/ PipeHeredoc(p) \/ ClosePipe(p)
             \/ RedirectionError(p) \/ RedirectionFails(p)
      PROVE  Calls(p)
  <2>1. /\ st[p] = "run" /\ todo' = Return(p, <<>>) /\ UNCHANGED procs
        /\ Top(p).op \in {"ignore", "restore", "child", "bst", "heredoc_left",
                          "heredoc_left_end", "heredoc_right", "heredoc_right_end",
                          "close_pipe"}
    BY <1>1 DEF SigintIgnore, SigintRestore, ChildRestoreSignals, PipeSyntaxError,
                PipeHeredoc, ClosePipe, RedirectionError, RedirectionFails, Redirects, At
  <2>2. Top(p).op \notin LastOp \cup {"wait", "fork_right", "fork_left"}
    BY <2>1
  <2> QED
    BY <2>1, <2>2, NothingCalled
<1>2. ASSUME LeftChild(p) \/ RightChild(p) \/ RdinHandler(p) \/ RdoutHandler(p)
      PROVE  Calls(p)
  <2>1. /\ st[p] = "run" /\ UNCHANGED procs /\ Top(p).op \in {"bst", "left", "right"}
        /\ \E a \in {LeftBst(p), RightBst(p), TreeTransversal(p)} : todo' = Return(p, a)
    BY <1>2 DEF LeftChild, RightChild, RdinHandler, RdoutHandler, Openable, Redirects, At
  <2> QED
    BY <2>1, PartOps, SubtreesCalled DEF NodeOp, PipeOp
<1>3. ASSUME HeredocOpen(p)  PROVE Calls(p)
  <2>1. /\ st[p] = "run" /\ UNCHANGED procs /\ Top(p).op = "heredoc_open"
        /\ todo' = Return(p, <<>>) \/ todo' = Return(p, TreeTransversal(p))
    BY <1>3 DEF HeredocOpen, At
  <2> QED
    BY <2>1, PartOps, SubtreesCalled, NothingCalled DEF NodeOp
<1>4. ASSUME ExecBuiltin(p)  PROVE Calls(p)
  <2> DEFINE e == Do("echo")
  <2>1. /\ st[p] = "run" /\ UNCHANGED procs /\ Top(p).op = "bst"
        /\ todo' = Return(p, <<>>) \/ todo' = Return(p, <<e>>)
    BY <1>4 DEF ExecBuiltin, Builtin, At
  <2>2. e \in Frame /\ e.op \in CallOp /\ e.op = "echo"
    BY DEF Do, On, Frame, FrameOp, CallOp
  <2> HIDE DEF e
  <2>3. <<e>> \in Seq(Frame) /\ OnlyOps(<<e>>, CallOp) /\ OnlyOps(<<e>>, {"bst", "echo"})
    BY <2>2 DEF OnlyOps
  <2> QED
    BY <2>1, <2>3, NothingCalled DEF Calls
<1>5. ASSUME ResetData(p)  PROVE Calls(p) \/ Exits(p)
  <2>1. CASE mem[p].exit
    <3>1. Exited(mem[p].g) \in Nat
      BY StatusIsNat DEF IInv, TypeOK, Memory
    <3> QED
      BY <1>5, <2>1, <3>1 DEF ResetData, Exits, At
  <2>2. CASE ~ mem[p].exit
    BY <1>5, <2>2, NothingCalled DEF ResetData, At
  <2> QED
    BY <2>1, <2>2
<1>6. ASSUME Execve(p)  PROVE Becomes(p)
  <2> DEFINE f == On(CommandKind(p), Top(p).lo, Top(p).hi, Nobody)
  <2>1. st[p] = "run" /\ Top(p).op = "exec" /\ todo' = Return(p, <<f>>) /\ UNCHANGED procs
    BY <1>6 DEF Execve, At
  <2>2. CommandKind(p) \in ProgramKind
    BY <1>6, <2>1, CommandType, RunningFrame DEF Execve, Indexed, Command
  <2>3. f \in Frame /\ f.op = CommandKind(p)
    BY <2>1, <2>2, RunningFrame DEF On, Frame, FrameOp
  <2> HIDE DEF f
  <2> QED
    BY <2>1, <2>2, <2>3 DEF Becomes
<1>7. ASSUME HeredocChild(p)  PROVE Becomes(p)
  <2> DEFINE f == On("heredoc_input", 0, 0, Top(p).ref)
  <2>1. /\ st[p] = "run" /\ Top(p).op = "heredoc_child" /\ todo' = Return(p, <<f>>)
        /\ UNCHANGED procs
    BY <1>7 DEF HeredocChild, At
  <2>2. f \in Frame /\ f.op = "heredoc_input"
    BY <2>1, RunningFrame DEF On, Frame, FrameOp
  <2> HIDE DEF f
  <2> QED
    BY <2>1, <2>2 DEF Becomes
<1>8. ASSUME \/ CommandNotFound(p) \/ ChildExit(p) \/ OpenFails(p) \/ OutOfResources(p)
             \/ ProgramEnds(p) \/ EndOfFile(p) \/ BrokenPipe(p)
             \/ EndOfInput(p) \/ HeredocEnd(p) \/ TypedEnd(p)
      PROVE  Exits(p)
  <2>1. Exited(mem[p].g) \in Nat
    BY StatusIsNat DEF IInv, TypeOK, Memory
  <2>2. ProgramEnds(p) => \E code \in Nat : Exit(p, code)
    <3>1. ProgramEnds(p) => (IF At(p, "status") THEN Prog[Command(p)].n ELSE 0) \in Nat
      BY CommandType DEF At
    <3> QED
      BY <3>1, StatusIsNat DEF ProgramEnds
  <2>3. \E code \in Nat : Exit(p, code)
    BY <1>8, <2>1, <2>2, StatusIsNat
       DEF CommandNotFound, ChildExit, OpenFails, OutOfResources, EndOfFile,
           BrokenPipe, EndOfInput, HeredocEnd, TypedEnd
  <2>4. st[p] = "run"
    BY <1>8 DEF CommandNotFound, ChildExit, OpenFails, Openable, Redirects,
                OutOfResources, External, ProgramEnds, Finished, EndOfFile, Reading,
                BrokenPipe, Writing, EndOfInput, HeredocEnd, TypedEnd, At
  <2> QED
    BY <2>3, <2>4 DEF Exits
<1> QED
  BY <1>1, <1>2, <1>3, <1>4, <1>5, <1>6, <1>7, <1>8, PipeHandlerCalls,
     ProgramReadsBecomes, WritesForms DEF Step, Types

(***************************************************************************)
(* Children.                                                               *)
(***************************************************************************)
IsChild(p, q) == q \in Pid /\ par[q] = p /\ st[q] # "none"
Matched(p) == Once(todo[p]) /\ \A c : WaitsFor(todo[p], c) <=> IsChild(p, c)
Family == \A q \in Pid : st[q] # "none" => par[q] = Nobody \/ par[q] \in Living
Kin == Family /\ \A p \in Living : Matched(p)

LEMMA NoWaits ==
  ASSUME NEW a, Unawaiting(a)
  PROVE  Once(a) /\ \A c : ~ WaitsFor(a, c)
BY DEF Unawaiting, Once, WaitsFor

(* The frames that replace the top one wait for nobody. *)
LEMMA MatchedPush ==
  ASSUME IInv, NEW p \in Pid, st[p] = "run", Once(todo[p]), ~ Awaits(Top(p)),
         NEW a \in Seq(Frame), Unawaiting(a), todo' = Return(p, a)
  PROVE  /\ Once(todo'[p]) /\ \A c : WaitsFor(todo'[p], c) <=> WaitsFor(todo[p], c)
         /\ \A q \in Pid \ {p} : todo'[q] = todo[q]
<1>1. todo[p] \in Seq(Frame) /\ todo[p] # <<>> /\ Top(p) = todo[p][1]
  BY RunningFrame
<1>2. todo \in [Pid -> Seq(Frame)]
  BY DEF IInv, TypeOK
<1>3. todo'[p] = a \o Tail(todo[p]) /\ \A q \in Pid \ {p} : todo'[q] = todo[q]
  BY <1>2 DEF Return
<1>4. Once(a) /\ \A c : ~ WaitsFor(a, c)
  BY NoWaits
<1> DEFINE s == todo[p]
<1>5. s \in Seq(Frame) /\ s # <<>> /\ Once(s) /\ ~ Awaits(s[1])
  BY <1>1
<1> HIDE DEF s
<1>6. /\ Once(a \o Tail(s))
      /\ \A c : WaitsFor(a \o Tail(s), c) <=> WaitsFor(a, c) \/ WaitsBelow(s, c)
  BY <1>4, <1>5, PushWaits
<1>7. \A c : WaitsBelow(s, c) <=> WaitsFor(s, c)
  BY <1>5, TopWaits
<1> QED
  BY <1>3, <1>4, <1>6, <1>7 DEF s

LEMMA KinSame ==
  ASSUME Kin, st' = st, par' = par,
         \A p \in Living : /\ Once(todo'[p])
                           /\ \A c : WaitsFor(todo'[p], c) <=> WaitsFor(todo[p], c)
  PROVE  Kin'
BY DEF Kin, Family, Matched, IsChild, Living

LEMMA KinCalls ==
  ASSUME IInv, Kin, NEW p \in Pid, Calls(p)  PROVE Kin'
<1>1. PICK a \in Seq(Frame) : OnlyOps(a, CallOp) /\ todo' = Return(p, a)
  BY DEF Calls
<1>2. Unawaiting(a)
  BY <1>1 DEF OnlyOps, Unawaiting, Awaits, CallOp
<1>3. p \in Living /\ ~ Awaits(Top(p)) /\ Once(todo[p])
  BY DEF Calls, Living, Awaits, Kin, Matched
<1>4. /\ Once(todo'[p]) /\ \A c : WaitsFor(todo'[p], c) <=> WaitsFor(todo[p], c)
      /\ \A q \in Pid \ {p} : todo'[q] = todo[q]
  BY <1>1, <1>2, <1>3, MatchedPush DEF Calls
<1> QED
  BY <1>4, KinSame DEF Calls, procs, Kin, Matched, Living

LEMMA KinBecomes ==
  ASSUME IInv, Kin, NEW p \in Pid, Becomes(p)  PROVE Kin'
<1>1. PICK f \in Frame : f.op \in LastOp \ {"prompt", "_exit"} /\ todo' = Return(p, <<f>>)
  BY DEF Becomes
<1>2. <<f>> \in Seq(Frame) /\ Unawaiting(<<f>>)
  BY <1>1 DEF Unawaiting, Awaits, LastOp, ProgramOp, ProgramKind
<1>3. p \in Living /\ ~ Awaits(Top(p)) /\ Once(todo[p])
  BY DEF Becomes, Living, Awaits, Kin, Matched, LastOp, ProgramOp, ProgramKind
<1>4. /\ Once(todo'[p]) /\ \A c : WaitsFor(todo'[p], c) <=> WaitsFor(todo[p], c)
      /\ \A q \in Pid \ {p} : todo'[q] = todo[q]
  BY <1>1, <1>2, <1>3, MatchedPush DEF Becomes
<1> QED
  BY <1>4, KinSame DEF Becomes, procs, Kin, Matched, Living

(* A line is put on top of the prompt. *)
LEMMA ReadLinePushes ==
  ASSUME IInv, NEW p \in Pid, ReadLine(p)
  PROVE  /\ st[p] = "run" /\ Len(todo[p]) = 1 /\ todo[p][1].op = "prompt"
         /\ \E a \in Seq(Frame) :
              /\ OnlyOps(a, {"bst"})
              /\ todo'[p] = a \o <<Do("reset")>> \o todo[p]
         /\ \A q \in Pid \ {p} : todo'[q] = todo[q]
<1>1. PICK line \in Lines :
        todo' = [todo EXCEPT ![p] = Bst(1, Len(line)) \o <<Do("reset")>> \o @]
  BY DEF ReadLine
<1>2. Len(line) \in Nat
  BY LineType
<1>3. Bst(1, Len(line)) \in Seq(Frame) /\ OnlyOps(Bst(1, Len(line)), {"bst"})
  BY <1>2, BstOps
<1>4. todo \in [Pid -> Seq(Frame)]
  BY DEF IInv, TypeOK
<1>5. st[p] = "run" /\ Top(p).op = "prompt"
  BY DEF ReadLine, At
<1>6. Len(todo[p]) = 1 /\ todo[p][1].op = "prompt"
  BY <1>5, RunningFrame DEF LastOp
<1> QED
  BY <1>1, <1>3, <1>4, <1>5, <1>6

LEMMA KinReadLine ==
  ASSUME IInv, Kin, NEW p \in Pid, ReadLine(p)  PROVE Kin'
<1>1. PICK a \in Seq(Frame) :
        OnlyOps(a, {"bst"}) /\ todo'[p] = a \o <<Do("reset")>> \o todo[p]
  BY ReadLinePushes
<1> DEFINE r == Do("reset")
           b == a \o <<r>>
           t == todo[p]
<1>2. r \in Frame /\ r.op = "reset"
  BY DEF Do, On, Frame, FrameOp
<1>3. /\ t \in Seq(Frame) /\ Len(t) = 1 /\ ~ Awaits(t[1])
      /\ todo'[p] = b \o t
  <2>1. todo[p] \in Seq(Frame)
    BY DEF IInv, TypeOK
  <2>2. a \o <<r>> \o todo[p] = (a \o <<r>>) \o todo[p]
    OBVIOUS
  <2> QED
    BY <2>1, <2>2, <1>1, ReadLinePushes DEF Awaits
<1> HIDE DEF r
<1>4. b \in Seq(Frame) /\ Unawaiting(b)
  <2>1. <<r>> \in Seq(Frame) /\ OnlyOps(<<r>>, {"bst", "reset"})
    BY <1>2 DEF OnlyOps
  <2>2. OnlyOps(a, {"bst", "reset"})
    BY <1>1 DEF OnlyOps
  <2>3. b \in Seq(Frame) /\ OnlyOps(b, {"bst", "reset"})
    BY <2>1, <2>2, OnlyOpsConcat
  <2> HIDE DEF b
  <2> QED
    BY <2>3 DEF OnlyOps, Unawaiting, Awaits
<1> HIDE DEF b
<1>5. Unawaiting(t) /\ Unawaiting(b \o t)
  <2>1. Unawaiting(t)
    BY <1>3 DEF Unawaiting
  <2>2. /\ Len(b \o t) = Len(b) + Len(t) /\ Len(b) \in Nat
        /\ \A i \in 1 .. Len(b) + Len(t) : (b \o t)[i] = IF i <= Len(b) THEN b[i] ELSE t[i - Len(b)]
    BY <1>3, <1>4, ConcatProperties, LenProperties
  <2>3. ASSUME NEW i \in 1 .. Len(b \o t)  PROVE ~ Awaits((b \o t)[i])
    <3>1. CASE i <= Len(b)
      BY <3>1, <2>2, <1>4 DEF Unawaiting
    <3>2. CASE ~ (i <= Len(b))
      <4>1. i - Len(b) = 1
        BY <3>2, <2>2, <1>3
      <4> QED
        BY <4>1, <3>2, <2>2, <1>3
    <3> QED
      BY <3>1, <3>2
  <2> QED
    BY <2>1, <2>3 DEF Unawaiting
<1>6. Once(todo'[p]) /\ \A c : WaitsFor(todo'[p], c) <=> WaitsFor(todo[p], c)
  BY <1>3, <1>5, NoWaits DEF t
<1>7. st' = st /\ par' = par /\ \A q \in Pid \ {p} : todo'[q] = todo[q]
  BY ReadLinePushes DEF ReadLine, procs
<1> QED
  BY <1>6, <1>7, KinSame DEF Kin, Matched, Living

(* waitpid takes the child out of the table, and its frame off the stack. *)
LEMMA KinWaitEnded ==
  ASSUME IInv, Kin, NEW p \in Pid, WaitEnded(p)  PROVE Kin'
<1> DEFINE c == Top(p).ref
<1>1. /\ st[p] = "run" /\ Top(p).op = "wait" /\ st[c] = "zombie"
      /\ st' = [st EXCEPT ![c] = "none"] /\ par' = [par EXCEPT ![c] = Nobody]
      /\ todo' = Return(p, <<>>)
  BY DEF WaitEnded, At, Reapable
<1>2. /\ todo[p] \in Seq(Frame) /\ todo[p] # <<>> /\ Top(p) = todo[p][1]
      /\ todo \in [Pid -> Seq(Frame)] /\ Awaits(todo[p][1]) /\ p \in Living
      /\ st \in [Pid -> {"none", "run", "stop", "zombie"}]
      /\ par \in [Pid -> Pid \cup {Nobody}] /\ c \in Pid
  BY <1>1, RunningFrame DEF IInv, TypeOK, Awaits, Living, Indexed
<1>3. Once(todo[p]) /\ \A d : WaitsFor(todo[p], d) <=> IsChild(p, d)
  BY <1>2 DEF Kin, Matched
<1>4. todo'[p] = <<>> \o Tail(todo[p]) /\ \A q \in Pid \ {p} : todo'[q] = todo[q]
  BY <1>1, <1>2 DEF Return
<1>5. <<>> \in Seq(Frame) /\ Once(<<>>) /\ \A d : ~ WaitsFor(<<>>, d)
  BY EmptySeq DEF Once, WaitsFor
<1>6. Once(todo'[p]) /\ \A d : WaitsFor(todo'[p], d) <=> IsChild(p, d) /\ d # c
  <2>1. Once(todo'[p]) /\ \A d : WaitsFor(todo'[p], d) <=> WaitsBelow(todo[p], d)
    <3> DEFINE s == todo[p]
               e == <<>>
    <3>1. /\ s \in Seq(Frame) /\ s # <<>> /\ Once(s)
          /\ e \in Seq(Frame) /\ Once(e) /\ \A d : ~ WaitsFor(e, d)
      BY <1>2, <1>3, <1>5
    <3>2. todo'[p] = e \o Tail(s)
      BY <1>4
    <3> HIDE DEF s, e
    <3>3. /\ Once(e \o Tail(s))
          /\ \A d : WaitsFor(e \o Tail(s), d) <=> WaitsFor(e, d) \/ WaitsBelow(s, d)
      BY <3>1, PushWaits
    <3> QED
      BY <3>1, <3>2, <3>3 DEF s
  <2>2. \A d : WaitsBelow(todo[p], d) <=> WaitsFor(todo[p], d) /\ d # c
    BY <1>2, <1>3, TopWaits
  <2> QED
    BY <2>1, <2>2, <1>3
<1>7. par[c] = p
  <2>1. WaitsFor(todo[p], c)
    <3>1. 1 \in 1 .. Len(todo[p])
      BY <1>2, LenProperties, EmptySeq
    <3> QED
      BY <3>1, <1>2 DEF WaitsFor
  <2> QED
    BY <2>1, <1>3 DEF IsChild
<1> HIDE DEF c
<1>8. Living' = Living /\ c \notin Living
  BY <1>1, <1>2 DEF Living
<1>9. Family'
  BY <1>1, <1>2, <1>8 DEF Kin, Family
<1>10. ASSUME NEW q \in Living  PROVE Matched(q)'
  <2>1. CASE q = p
    <3>1. \A d : IsChild(p, d)' <=> IsChild(p, d) /\ d # c
      BY <1>1, <1>2, ProcessAssumption DEF IsChild
    <3> QED
      BY <2>1, <3>1, <1>6 DEF Matched
  <2>2. CASE q # p
    <3>1. \A d : IsChild(q, d)' <=> IsChild(q, d)
      BY <2>2, <1>1, <1>2, <1>7, <1>10, ProcessAssumption DEF IsChild, Living
    <3>2. todo'[q] = todo[q] /\ Matched(q)
      BY <2>2, <1>4, <1>10 DEF Kin, Living
    <3> QED
      BY <3>1, <3>2 DEF Matched
  <2> QED
    BY <2>1, <2>2
<1> QED
  BY <1>8, <1>9, <1>10 DEF Kin

(* Processes end: what is left of their children are orphans, what is left *)
(* of them is a zombie for a parent that lives.                            *)
LEMMA KinEnd ==
  ASSUME IInv, Kin, NEW D \in SUBSET Living, NEW status \in [D -> Nat], End(status)
  PROVE  Kin'
<1>1. /\ st \in [Pid -> {"none", "run", "stop", "zombie"}]
      /\ par \in [Pid -> Pid \cup {Nobody}] /\ DOMAIN status = D /\ D \subseteq Pid
  BY DEF IInv, TypeOK, Living
<1> DEFINE zombies == {q \in D : par[q] \notin D \cup {Nobody}}
<1>2. /\ st' = [q \in Pid |-> IF q \in zombies THEN "zombie"
                              ELSE IF q \in D THEN "none"
                              ELSE IF par[q] \in D /\ st[q] = "zombie" THEN "none"
                              ELSE st[q]]
      /\ par' = [q \in Pid |-> IF par[q] \in D THEN Nobody ELSE par[q]]
      /\ todo' = [q \in Pid |-> IF q \in D THEN <<>> ELSE todo[q]]
  BY <1>1 DEF End
<1>3. \A q \in Pid : q \in Living' <=> q \in Living /\ q \notin D
  BY <1>1, <1>2 DEF Living
<1>4. ASSUME NEW q \in Pid, st'[q] # "none"
      PROVE  par'[q] = Nobody \/ par'[q] \in Living'
  <2>1. st[q] # "none"
    <3>1. q \in D => st[q] # "none"
      BY DEF Living
    <3> QED
      BY <3>1, <1>2, <1>4
  <2>2. par[q] = Nobody \/ par[q] \in Living
    BY <2>1 DEF Kin, Family
  <2> QED
    BY <2>2, <1>1, <1>2, <1>3
<1>5. ASSUME NEW q \in Living, q \notin D  PROVE Matched(q)'
  <2>1. q \in Pid /\ q # Nobody
    BY ProcessAssumption DEF Living
  <2>2. ASSUME NEW r \in Pid  PROVE IsChild(q, r)' <=> IsChild(q, r)
    <3>1. par'[r] = q <=> par[r] = q
      BY <1>2, <1>5, <2>1
    <3>2. par[r] = q => (st'[r] # "none" <=> st[r] # "none")
      <4>1. r \in D => st[r] # "none"
        BY DEF Living
      <4> QED
        BY <4>1, <1>2, <1>5, <2>1
    <3> QED
      BY <3>1, <3>2 DEF IsChild
  <2>3. todo'[q] = todo[q] /\ Matched(q)
    BY <1>2, <1>5, <2>1 DEF Kin
  <2> QED
    BY <2>2, <2>3 DEF Matched, IsChild
<1>6. Living' \subseteq Pid
  BY DEF Living
<1> QED
  BY <1>3, <1>4, <1>5, <1>6 DEF Kin, Family

(* p forks c: the frames that replace its top one wait for c and for whom  *)
(* that frame waited.                                                      *)
LEMMA KinFork ==
  ASSUME IInv, Kin, NEW p \in Pid, st[p] = "run", NEW c \in FreePid,
         NEW a \in Seq(Frame), NEW b \in Seq(Frame), Once(a), Unawaiting(b),
         \A d : /\ WaitsFor(a, d) => d = c \/ (WaitsFor(todo[p], d) /\ ~ WaitsBelow(todo[p], d))
                /\ d = c \/ (WaitsFor(todo[p], d) /\ ~ WaitsBelow(todo[p], d)) => WaitsFor(a, d),
         st' = [st EXCEPT ![c] = "run"],
         par' = [par EXCEPT ![c] = p],
         todo' = [Return(p, a) EXCEPT ![c] = b]
  PROVE  Kin'
<1> DEFINE s == todo[p]
<1>1. /\ st \in [Pid -> {"none", "run", "stop", "zombie"}]
      /\ par \in [Pid -> Pid \cup {Nobody}] /\ todo \in [Pid -> Seq(Frame)]
      /\ c \in Pid /\ c # p /\ c # Nobody /\ st[c] = "none" /\ p \in Living
  BY ProcessAssumption DEF IInv, TypeOK, FreePid, Living
<1>2. s \in Seq(Frame) /\ s # <<>> /\ Len(s) \in Nat
  BY RunningFrame
<1>3. Once(s) /\ \A d : WaitsFor(s, d) <=> IsChild(p, d)
  BY <1>1 DEF Kin, Matched
<1>4. /\ todo'[p] = a \o Tail(s) /\ todo'[c] = b
      /\ \A q \in Pid \ {p, c} : todo'[q] = todo[q]
  BY <1>1 DEF Return
<1>5. \A d : WaitsFor(a, d) <=> d = c \/ (WaitsFor(s, d) /\ ~ WaitsBelow(s, d))
  OBVIOUS
<1> HIDE DEF s
<1>6. \A d : WaitsBelow(s, d) => WaitsFor(s, d)
  BY <1>2 DEF WaitsBelow, WaitsFor
<1>7. ~ WaitsFor(s, c)
  BY <1>1, <1>3 DEF IsChild
<1>8. Once(a \o Tail(s)) /\ \A d : WaitsFor(a \o Tail(s), d) <=> WaitsFor(a, d) \/ WaitsBelow(s, d)
  <2>1. \A d : ~ (WaitsFor(a, d) /\ WaitsBelow(s, d))
    BY <1>5, <1>6, <1>7
  <2> QED
    BY <2>1, <1>2, <1>3, PushWaits
<1>9. /\ Living' = Living \cup {c} /\ \A q \in Pid : par[q] # c \/ st[q] = "none"
  <2>1. Living' = Living \cup {c}
    BY <1>1 DEF Living
  <2>2. \A q \in Pid : par[q] = c => st[q] = "none"
    BY <1>1 DEF Kin, Family, Living
  <2> QED
    BY <2>1, <2>2
<1>10. Family'
  BY <1>1, <1>9 DEF Kin, Family
<1>11. Matched(p)'
  <2>1. \A d : IsChild(p, d)' <=> IsChild(p, d) \/ d = c
    BY <1>1 DEF IsChild
  <2> QED
    BY <2>1, <1>3, <1>4, <1>5, <1>6, <1>8 DEF Matched
<1>12. Matched(c)'
  <2>1. \A d : ~ IsChild(c, d)'
    BY <1>1, <1>9 DEF IsChild
  <2> QED
    BY <2>1, <1>4, NoWaits DEF Matched
<1>13. ASSUME NEW q \in Living, q # p, q # c  PROVE Matched(q)'
  <2>1. \A d : IsChild(q, d)' <=> IsChild(q, d)
    BY <1>1, <1>13 DEF IsChild, Living
  <2>2. todo'[q] = todo[q] /\ Matched(q)
    BY <1>4, <1>13 DEF Kin, Living
  <2> QED
    BY <2>1, <2>2 DEF Matched
<1> QED
  BY <1>9, <1>10, <1>11, <1>12, <1>13 DEF Kin

(* Whom the frames of a fork wait for. *)
LEMMA AwaitFrames ==
  ASSUME NEW c \in Pid
  PROVE  /\ Await(c) \in Seq(Frame) /\ Len(Await(c)) = 3
         /\ Await(c)[1].op = "ignore" /\ Await(c)[3].op = "restore"
         /\ Await(c)[2].op = "wait" /\ Await(c)[2].ref = c
<1> DEFINE w == On("wait", 0, 0, c)
<1>1. Do("ignore") \in Frame /\ w \in Frame /\ Do("restore") \in Frame
  BY DEF Do, On, Frame, FrameOp
<1> QED
  BY <1>1 DEF Await, Do, On

CloseAndAwait(l, c) == <<Do("close_pipe")>> \o AwaitBoth(l, c)

LEMMA AwaitBothFrames ==
  ASSUME NEW l \in Pid, NEW c \in Pid
  PROVE  LET a == CloseAndAwait(l, c) IN
         /\ a \in Seq(Frame) /\ Len(a) = 5
         /\ a[1].op = "close_pipe" /\ a[2].op = "ignore" /\ a[5].op = "restore"
         /\ a[3].op = "wait" /\ a[3].ref = l /\ a[4].op = "wait" /\ a[4].ref = c
<1> DEFINE w == On("wait", 0, 0, l)
           x == On("wait", 0, 0, c)
           f == Do("close_pipe")
           g == Do("ignore")
           h == Do("restore")
           b == AwaitBoth(l, c)
           a == CloseAndAwait(l, c)
<1>1. /\ f \in Frame /\ g \in Frame /\ w \in Frame /\ x \in Frame /\ h \in Frame
      /\ f.op = "close_pipe" /\ g.op = "ignore" /\ h.op = "restore"
      /\ w.op = "wait" /\ w.ref = l /\ x.op = "wait" /\ x.ref = c
  BY DEF Do, On, Frame, FrameOp
<1>2. b = <<g, w, x, h>>
  BY DEF AwaitBoth
<1>3. a = <<f>> \o b
  BY DEF CloseAndAwait
<1> HIDE DEF w, x, f, g, h, b, a
<1>4. b \in Seq(Frame) /\ Len(b) = 4 /\ b[1] = g /\ b[2] = w /\ b[3] = x /\ b[4] = h
  BY <1>1, <1>2
<1>5. <<f>> \in Seq(Frame) /\ Len(<<f>>) = 1 /\ <<f>>[1] = f
  BY <1>1
<1>6. /\ a \in Seq(Frame) /\ Len(a) = 5 /\ a[1] = f /\ a[2] = b[1] /\ a[3] = b[2]
      /\ a[4] = b[3] /\ a[5] = b[4]
  <2> DEFINE u == <<f>>
  <2>1. u \in Seq(Frame) /\ Len(u) = 1 /\ u[1] = f /\ a = u \o b
    BY <1>3, <1>5
  <2> HIDE DEF u
  <2>2. /\ a \in Seq(Frame) /\ Len(a) = Len(u) + Len(b)
        /\ \A i \in 1 .. Len(u) + Len(b) :
             a[i] = IF i <= Len(u) THEN u[i] ELSE b[i - Len(u)]
    BY <2>1, <1>4, ConcatProperties
  <2>3. Len(a) = 5 /\ \A i \in 1 .. 5 : a[i] = IF i <= 1 THEN u[i] ELSE b[i - 1]
    BY <2>1, <2>2, <1>4
  <2> QED
    BY <2>1, <2>2, <2>3
<1> QED
  BY <1>1, <1>4, <1>6 DEF a

(* The four forks: a replaces the top frame of the parent, b is the stack  *)
(* of the child.                                                           *)
IsAwait(a, c) ==
  a[1].op = "ignore" /\ a[2].op = "wait" /\ a[2].ref = c /\ a[3].op = "restore"
IsSide(b, p, op) ==
  /\ Len(b) = 2 \/ (Len(b) = 3 /\ b[2] = On(op, Top(p).lo, Top(p).hi, Nobody))
  /\ b[1].op = "child" /\ b[Len(b)].op = "_exit"
ExecShape(p, c, a, b) ==
  /\ Top(p).op = "bst" /\ Len(a) = 3 /\ IsAwait(a, c)
  /\ Len(b) = 2 /\ b[1].op = "child"
  /\ b[2] = On("exec", Top(p).lo, mem[p].arg, Nobody)
LeftShape(p, c, a, b) ==
  /\ Top(p).op = "fork_left" /\ Len(a) = 1
  /\ a[1] = On("fork_right", Top(p).lo, Top(p).hi, c) /\ IsSide(b, p, "left")
RightShape(p, c, a, b) ==
  /\ Top(p).op = "fork_right" /\ Len(a) = 5
  /\ a[1].op = "close_pipe" /\ a[2].op = "ignore" /\ a[5].op = "restore"
  /\ a[3].op = "wait" /\ a[3].ref = Top(p).ref /\ a[4].op = "wait" /\ a[4].ref = c
  /\ IsSide(b, p, "right")
HeredocShape(p, c, a, b) ==
  /\ Top(p).op = "bst" /\ Len(a) = 4 /\ IsAwait(a, c)
  /\ a[4] = On("heredoc_open", Top(p).lo, Top(p).hi, Nobody)
  /\ Len(b) = 1 /\ b[1].op = "heredoc_child"
Forks(p, c, a, b) ==
  /\ st[p] = "run" /\ a \in Seq(Frame) /\ b \in Seq(Frame)
  /\ st' = [st EXCEPT ![c] = "run"] /\ par' = [par EXCEPT ![c] = p]
  /\ todo' = [Return(p, a) EXCEPT ![c] = b]
  /\ mem' = [mem EXCEPT ![c] = mem[p]] /\ sig' = [sig EXCEPT ![c] = sig[p]]
  /\ \/ ExecCmd(p) /\ ExecShape(p, c, a, b)
     \/ ForkLeft(p) /\ LeftShape(p, c, a, b)
     \/ ForkRight(p) /\ RightShape(p, c, a, b)
     \/ HeredocHandler(p) /\ HeredocShape(p, c, a, b)

LEMMA SideFrames ==
  ASSUME IInv, NEW p \in Pid, st[p] = "run", Top(p).op \in PipeOp,
         NEW kind, NEW op \in {"left", "right"}
  PROVE  Side(p, kind, op) \in Seq(Frame) /\ IsSide(Side(p, kind, op), p, op)
<1> DEFINE c == Do("child")
           f == On(op, Top(p).lo, Top(p).hi, Nobody)
           x == Do("_exit")
<1>1. c.op = "child" /\ x.op = "_exit"
  BY DEF Do, On
<1>2. Side(p, kind, op) \in Seq(Frame)
  BY SideOK
<1>3. Side(p, kind, op) = <<c, x>> \/ Side(p, kind, op) = <<c, f, x>>
  BY DEF Side
<1> HIDE DEF c, f, x
<1> DEFINE b == Side(p, kind, op)
<1>4. b = <<c, x>> => IsSide(b, p, op)
  <2> HAVE b = <<c, x>>
  <2>1. Len(b) = 2 /\ b[1] = c /\ b[2] = x
    OBVIOUS
  <2> HIDE DEF b
  <2> QED
    BY <1>1, <2>1 DEF IsSide
<1>5. b = <<c, f, x>> => IsSide(b, p, op)
  <2> HAVE b = <<c, f, x>>
  <2>1. Len(b) = 3 /\ b[1] = c /\ b[2] = f /\ b[3] = x
    OBVIOUS
  <2> HIDE DEF b
  <2> QED
    BY <1>1, <2>1 DEF IsSide, f
<1> QED
  BY <1>2, <1>3, <1>4, <1>5

LEMMA ExecCmdForks ==
  ASSUME IInv, NEW p \in Pid, ExecCmd(p)
  PROVE  \E c \in FreePid : \E a, b : Forks(p, c, a, b)
<1> DEFINE f == Do("child")
           e == On("exec", Top(p).lo, mem[p].arg, Nobody)
           b == <<f, e>>
<1>1. st[p] = "run" /\ Top(p).op = "bst"
  BY DEF ExecCmd, External, At
<1>2. PICK c \in FreePid : Fork(p, c, b, Await(c))
  BY DEF ExecCmd
<1>3. f \in Frame /\ f.op = "child" /\ e \in Frame
  <2>1. Top(p).lo \in Nat /\ mem[p].arg \in Nat
    BY <1>1, RunningFrame DEF Frame, Memory
  <2> QED
    BY <2>1 DEF Do, On, Frame, FrameOp
<1> HIDE DEF f, e
<1>4. b \in Seq(Frame) /\ Len(b) = 2 /\ b[1] = f /\ b[2] = e
  BY <1>3
<1> HIDE DEF b
<1> DEFINE a == Await(c)
<1>5. a \in Seq(Frame) /\ Len(a) = 3 /\ IsAwait(a, c)
  BY AwaitFrames DEF IsAwait, FreePid
<1>6. Fork(p, c, b, a)
  BY <1>2
<1> HIDE DEF a
<1>7. ExecShape(p, c, a, b)
  BY <1>1, <1>3, <1>4, <1>5 DEF ExecShape, e
<1>8. Forks(p, c, a, b)
  BY <1>1, <1>4, <1>5, <1>6, <1>7 DEF Forks, Fork
<1> QED
  BY <1>8

LEMMA ForkLeftForks ==
  ASSUME IInv, NEW p \in Pid, ForkLeft(p)
  PROVE  \E c \in FreePid : \E a, b : Forks(p, c, a, b)
<1> DEFINE b == Side(p, LeftKind(p), "left")
           f(c) == On("fork_right", Top(p).lo, Top(p).hi, c)
<1>1. st[p] = "run" /\ Top(p).op = "fork_left" /\ Top(p).op \in PipeOp
  BY DEF ForkLeft, At, PipeOp
<1>2. PICK c \in FreePid : Fork(p, c, b, <<f(c)>>)
  BY DEF ForkLeft
<1>3. b \in Seq(Frame) /\ IsSide(b, p, "left")
  BY <1>1, SideFrames
<1>4. f(c) \in Frame
  BY <1>1, RunningFrame DEF On, Frame, FrameOp, FreePid
<1> HIDE DEF b
<1>5. <<f(c)>> \in Seq(Frame) /\ Len(<<f(c)>>) = 1 /\ <<f(c)>>[1] = f(c)
  BY <1>4
<1>6. LeftShape(p, c, <<f(c)>>, b)
  BY <1>1, <1>3, <1>5 DEF LeftShape
<1>7. Forks(p, c, <<f(c)>>, b)
  BY <1>1, <1>2, <1>3, <1>5, <1>6 DEF Forks, Fork
<1> QED
  BY <1>7

LEMMA ForkRightForks ==
  ASSUME IInv, NEW p \in Pid, ForkRight(p)
  PROVE  \E c \in FreePid : \E a, b : Forks(p, c, a, b)
<1> DEFINE b == Side(p, RightKind(p), "right")
<1>1. st[p] = "run" /\ Top(p).op = "fork_right" /\ Top(p).op \in PipeOp
  BY DEF ForkRight, At, PipeOp
<1>2. PICK c \in FreePid : Fork(p, c, b, CloseAndAwait(Top(p).ref, c))
  BY DEF ForkRight, CloseAndAwait
<1>3. b \in Seq(Frame) /\ IsSide(b, p, "right")
  BY <1>1, SideFrames
<1>4. Top(p).ref \in Pid /\ c \in Pid
  BY <1>1, RunningFrame DEF Indexed, FreePid
<1> HIDE DEF b
<1> DEFINE a == CloseAndAwait(Top(p).ref, c)
<1>5. RightShape(p, c, a, b) /\ a \in Seq(Frame)
  BY <1>1, <1>3, <1>4, AwaitBothFrames DEF RightShape
<1> HIDE DEF a
<1>6. Forks(p, c, a, b)
  BY <1>1, <1>2, <1>3, <1>5 DEF Forks, Fork, a
<1> QED
  BY <1>6

LEMMA HeredocHandlerForks ==
  ASSUME IInv, NEW p \in Pid, HeredocHandler(p)
  PROVE  \E c \in FreePid : \E a, b : Forks(p, c, a, b)
<1> DEFINE h == On("heredoc_open", Top(p).lo, Top(p).hi, Nobody)
           e(d) == On("heredoc_child", 0, 0, d)
<1>1. st[p] = "run" /\ Top(p).op = "bst"
  BY DEF HeredocHandler, Openable, Redirects, At
<1>2. PICK d \in FreeDoc, c \in FreePid :
        /\ st' = [st EXCEPT ![c] = "run"]
        /\ par' = [par EXCEPT ![c] = p]
        /\ todo' = [Return(p, Await(c) \o <<h>>) EXCEPT ![c] = <<e(d)>>]
        /\ mem' = [mem EXCEPT ![c] = mem[p]]
        /\ sig' = [sig EXCEPT ![c] = sig[p]]
  BY DEF HeredocHandler
<1>3. h \in Frame /\ e(d) \in Frame /\ e(d).op = "heredoc_child"
  BY <1>1, RunningFrame DEF On, Frame, FrameOp, FreeDoc
<1> HIDE DEF h, e
<1>4. <<e(d)>> \in Seq(Frame) /\ Len(<<e(d)>>) = 1 /\ <<e(d)>>[1] = e(d)
  BY <1>3
<1> DEFINE u == Await(c)
           v == <<h>>
           a == u \o v
<1>5. u \in Seq(Frame) /\ Len(u) = 3 /\ IsAwait(u, c)
  BY AwaitFrames DEF IsAwait, FreePid
<1>6. v \in Seq(Frame) /\ Len(v) = 1 /\ v[1] = h
  BY <1>3
<1> HIDE DEF u, v
<1>7. /\ a \in Seq(Frame) /\ Len(a) = Len(u) + Len(v)
      /\ \A i \in 1 .. Len(u) + Len(v) : a[i] = IF i <= Len(u) THEN u[i] ELSE v[i - Len(u)]
  BY <1>5, <1>6, ConcatProperties
<1> HIDE DEF a
<1>8. /\ Len(a) = 4 /\ a[1] = u[1] /\ a[2] = u[2] /\ a[3] = u[3] /\ a[4] = h
  BY <1>5, <1>6, <1>7
<1>9. HeredocShape(p, c, a, <<e(d)>>)
  BY <1>1, <1>3, <1>4, <1>5, <1>8 DEF HeredocShape, IsAwait, h
<1>10. Forks(p, c, a, <<e(d)>>)
  BY <1>1, <1>2, <1>4, <1>7, <1>9 DEF Forks, a, u, v
<1> QED
  BY <1>10

LEMMA AnyForks ==
  ASSUME IInv, NEW p \in Pid,
         ExecCmd(p) \/ ForkLeft(p) \/ ForkRight(p) \/ HeredocHandler(p)
  PROVE  \E c \in FreePid : \E a, b : Forks(p, c, a, b)
BY ExecCmdForks, ForkLeftForks, ForkRightForks, HeredocHandlerForks

LEMMA SoleWait ==
  ASSUME NEW a \in Seq(Frame), NEW k \in 1 .. Len(a), Awaits(a[k]),
         \A i \in 1 .. Len(a) : i # k => ~ Awaits(a[i])
  PROVE  Once(a) /\ \A d : WaitsFor(a, d) <=> d = a[k].ref
BY DEF Once, WaitsFor

LEMMA SideUnawaiting ==
  ASSUME NEW p \in Pid, NEW op \in {"left", "right"}, NEW b \in Seq(Frame), IsSide(b, p, op)
  PROVE  Unawaiting(b)
<1>1. On(op, Top(p).lo, Top(p).hi, Nobody).op = op
  BY DEF On
<1>2. CASE Len(b) = 2
  BY <1>2 DEF IsSide, Unawaiting, Awaits
<1>3. CASE Len(b) = 3 /\ b[2] = On(op, Top(p).lo, Top(p).hi, Nobody)
  BY <1>1, <1>3 DEF IsSide, Unawaiting, Awaits
<1> QED
  BY <1>2, <1>3 DEF IsSide

LEMMA ForkWaits ==
  ASSUME IInv, Kin, NEW p \in Pid, NEW c \in FreePid, NEW a, NEW b, Forks(p, c, a, b)
  PROVE  /\ a \in Seq(Frame) /\ b \in Seq(Frame) /\ Once(a) /\ Unawaiting(b)
         /\ \A d : WaitsFor(a, d)
                     <=> d = c \/ (WaitsFor(todo[p], d) /\ ~ WaitsBelow(todo[p], d))
<1>1. /\ st[p] = "run" /\ a \in Seq(Frame) /\ b \in Seq(Frame)
      /\ todo[p] \in Seq(Frame) /\ todo[p] # <<>> /\ Top(p) = todo[p][1]
      /\ Once(todo[p]) /\ \A d : WaitsFor(todo[p], d) <=> IsChild(p, d)
      /\ c # Nobody /\ st[c] = "none"
  BY RunningFrame, ProcessAssumption DEF Forks, Kin, Matched, Living, FreePid
<1>2. SUFFICES /\ Once(a) /\ Unawaiting(b)
               /\ \A d : WaitsFor(a, d)
                           <=> d = c \/ (WaitsFor(todo[p], d) /\ ~ WaitsBelow(todo[p], d))
  BY <1>1
<1>3. ~ Awaits(Top(p)) =>
        \A d : ~ (WaitsFor(todo[p], d) /\ ~ WaitsBelow(todo[p], d))
  BY <1>1, TopWaits
<1>4. CASE ExecShape(p, c, a, b)
  <2>1. Len(b) = 2 /\ b[1].op = "child" /\ b[2].op = "exec" /\ Top(p).op = "bst"
    BY <1>4 DEF ExecShape, On
  <2>2. Unawaiting(b) /\ ~ Awaits(Top(p))
    BY <2>1 DEF Unawaiting, Awaits
  <2>3. Once(a) /\ \A d : WaitsFor(a, d) <=> d = a[2].ref
    <3>1. 2 \in 1 .. Len(a) /\ Awaits(a[2]) /\ \A i \in 1 .. Len(a) : i # 2 => ~ Awaits(a[i])
      BY <1>4 DEF ExecShape, IsAwait, Awaits
    <3> QED
      BY <3>1, <1>1, SoleWait
  <2>4. a[2].ref = c
    BY <1>4 DEF ExecShape, IsAwait
  <2> QED
    BY <2>2, <2>3, <2>4, <1>3
<1>5. CASE LeftShape(p, c, a, b)
  <2>1. Unawaiting(b) /\ Top(p).op = "fork_left" /\ Len(a) = 1
    BY <1>1, <1>5, SideUnawaiting DEF LeftShape
  <2>2. a[1].op = "fork_right" /\ a[1].ref = c
    BY <1>5 DEF LeftShape, On
  <2>3. Once(a) /\ \A d : WaitsFor(a, d) <=> d = a[1].ref
    <3>1. 1 \in 1 .. Len(a) /\ Awaits(a[1]) /\ \A i \in 1 .. Len(a) : i # 1 => ~ Awaits(a[i])
      BY <2>1, <2>2 DEF Awaits
    <3> QED
      BY <3>1, <1>1, SoleWait
  <2>4. ~ Awaits(Top(p))
    BY <2>1 DEF Awaits
  <2> QED
    BY <2>1, <2>2, <2>3, <2>4, <1>3
<1>6. CASE RightShape(p, c, a, b)
  <2>1. Unawaiting(b) /\ Top(p).op = "fork_right" /\ Len(a) = 5
    BY <1>1, <1>6, SideUnawaiting DEF RightShape
  <2> DEFINE l == Top(p).ref
  <2>2. /\ ~ Awaits(a[1]) /\ ~ Awaits(a[2]) /\ ~ Awaits(a[5]) /\ Awaits(a[3]) /\ Awaits(a[4])
        /\ a[3].ref = l /\ a[4].ref = c
    BY <1>6 DEF RightShape, Awaits
  <2>3. Awaits(todo[p][1]) /\ l = todo[p][1].ref
    BY <2>1, <1>1 DEF Awaits
  <2>4. \A d : WaitsBelow(todo[p], d) <=> WaitsFor(todo[p], d) /\ d # l
    BY <2>3, <1>1, TopWaits
  <2>5. WaitsFor(todo[p], l)
    <3>1. 1 \in 1 .. Len(todo[p])
      BY <1>1, LenProperties, EmptySeq
    <3> QED
      BY <3>1, <2>3 DEF WaitsFor
  <2>6. l # c
    BY <2>5, <1>1 DEF IsChild
  <2> HIDE DEF l
  <2>7. Once(a)
    <3>1. \A i \in 1 .. Len(a) : Awaits(a[i]) => i = 3 \/ i = 4
      BY <2>1, <2>2
    <3> QED
      BY <3>1, <2>2, <2>6 DEF Once
  <2>8. \A d : WaitsFor(a, d) <=> d = l \/ d = c
    BY <2>1, <2>2 DEF WaitsFor
  <2> QED
    BY <2>1, <2>4, <2>5, <2>7, <2>8
<1>7. CASE HeredocShape(p, c, a, b)
  <2>1. /\ Len(b) = 1 /\ b[1].op = "heredoc_child" /\ Top(p).op = "bst" /\ Len(a) = 4
        /\ a[1].op = "ignore" /\ a[2].op = "wait" /\ a[2].ref = c /\ a[3].op = "restore"
        /\ a[4].op = "heredoc_open"
    BY <1>7 DEF HeredocShape, IsAwait, On
  <2>2. Unawaiting(b) /\ ~ Awaits(Top(p))
    BY <2>1 DEF Unawaiting, Awaits
  <2>3. Once(a) /\ \A d : WaitsFor(a, d) <=> d = a[2].ref
    <3>1. 2 \in 1 .. Len(a) /\ Awaits(a[2]) /\ \A i \in 1 .. Len(a) : i # 2 => ~ Awaits(a[i])
      BY <2>1 DEF Awaits
    <3> QED
      BY <3>1, <1>1, SoleWait
  <2> QED
    BY <2>1, <2>2, <2>3, <1>3
<1> QED
  BY <1>4, <1>5, <1>6, <1>7 DEF Forks

LEMMA KinForks ==
  ASSUME IInv, Kin, NEW p \in Pid,
         ExecCmd(p) \/ ForkLeft(p) \/ ForkRight(p) \/ HeredocHandler(p)
  PROVE  Kin'
<1>1. PICK c \in FreePid : \E a, b : Forks(p, c, a, b)
  BY AnyForks
<1>2. PICK a, b : Forks(p, c, a, b)
  BY <1>1
<1>3. /\ a \in Seq(Frame) /\ b \in Seq(Frame) /\ Once(a) /\ Unawaiting(b)
      /\ \A d : WaitsFor(a, d)
                  <=> d = c \/ (WaitsFor(todo[p], d) /\ ~ WaitsBelow(todo[p], d))
  BY <1>2, ForkWaits
<1>4. /\ st[p] = "run" /\ st' = [st EXCEPT ![c] = "run"] /\ par' = [par EXCEPT ![c] = p]
      /\ todo' = [Return(p, a) EXCEPT ![c] = b]
  BY <1>2 DEF Forks
<1> QED
  BY <1>3, <1>4, KinFork

LEMMA KinExits ==
  ASSUME IInv, Kin, NEW p \in Living, NEW code \in Nat, Exit(p, code)
  PROVE  Kin'
<1> DEFINE status == [q \in {p} |-> code]
<1>1. status \in [{p} -> Nat] /\ {p} \in SUBSET Living /\ End(status)
  BY DEF Exit
<1> HIDE DEF status
<1> QED
  BY <1>1, KinEnd

LEMMA KinWaitStopped ==
  ASSUME IInv, Kin, NEW p \in Pid, WaitStopped(p)  PROVE Kin'
<1>1. Top(p).ref \in Pid /\ st[Top(p).ref] = "stop" /\ Exit(Top(p).ref, Killed(SIGKILL))
  BY RunningFrame DEF WaitStopped, At, Indexed
<1>2. Killed(SIGKILL) \in Nat
  BY DEF Killed, SIGKILL
<1> QED
  BY <1>1, <1>2, KinExits DEF Living

(* The keys end running processes, or stop them. *)
LEMMA KinSignals ==
  ASSUME IInv, Kin, CtrlC \/ CtrlBackslash \/ CtrlZ
  PROVE  Kin'
<1>1. ASSUME CtrlC  PROVE Kin'
  <2> DEFINE hit == {q \in Running : sig[q].int \in {"default", "heredoc"}}
             status == [q \in hit |-> IF sig[q].int = "heredoc" THEN Exited(1) ELSE Killed(SIGINT)]
  <2>1. hit \in SUBSET Living /\ status \in [hit -> Nat] /\ End(status)
    BY <1>1, StatusIsNat DEF CtrlC, Running, Living
  <2> HIDE DEF hit, status
  <2> QED
    BY <2>1, KinEnd
<1>2. ASSUME CtrlBackslash  PROVE Kin'
  <2> DEFINE hit == {q \in Running : sig[q].job = "default"}
             status == [q \in hit |-> Killed(SIGQUIT)]
  <2>1. hit \in SUBSET Living /\ status \in [hit -> Nat] /\ End(status)
    BY <1>2, StatusIsNat DEF CtrlBackslash, Running, Living
  <2> HIDE DEF hit, status
  <2> QED
    BY <2>1, KinEnd
<1>3. ASSUME CtrlZ  PROVE Kin'
  <2>1. /\ par' = par /\ todo' = todo
        /\ \A q \in Pid : st'[q] = st[q] \/ (st[q] = "run" /\ st'[q] = "stop")
    BY <1>3 DEF CtrlZ, Running
  <2>2. Living' = Living /\ \A q \in Pid : st'[q] = "none" <=> st[q] = "none"
    BY <2>1 DEF Living
  <2>3. \A q : \A d : IsChild(q, d)' <=> IsChild(q, d)
    BY <2>1, <2>2 DEF IsChild
  <2>4. Family'
    BY <2>1, <2>2 DEF Kin, Family
  <2>5. \A q \in Living : Matched(q)'
    BY <2>1, <2>3 DEF Kin, Matched
  <2> QED
    BY <2>2, <2>4, <2>5 DEF Kin
<1> QED
  BY <1>1, <1>2, <1>3

LEMMA KinUnchanged ==
  ASSUME Kin, st' = st, par' = par, todo' = todo
  PROVE  Kin'
BY KinSame DEF Kin, Matched

LEMMA KinInit == Init => Kin
<1> SUFFICES ASSUME Init PROVE Kin
  OBVIOUS
<1>1. /\ \A q \in Pid : par[q] = Nobody /\ (st[q] # "none" <=> q = Shell)
      /\ todo[Shell] = <<Do("prompt")>>
  BY ProcessAssumption DEF Init
<1>2. Living \subseteq {Shell} /\ Family
  BY <1>1 DEF Living, Family
<1>3. Unawaiting(todo[Shell])
  <2> DEFINE f == Do("prompt")
  <2>1. ~ Awaits(f)
    BY DEF Awaits, Do, On
  <2> HIDE DEF f
  <2>2. Len(<<f>>) = 1 /\ <<f>>[1] = f
    OBVIOUS
  <2>3. Unawaiting(<<f>>)
    BY <2>1, <2>2 DEF Unawaiting
  <2> QED
    BY <2>3, <1>1 DEF f
<1>4. Matched(Shell)
  <2>1. \A d : ~ IsChild(Shell, d)
    BY <1>1, ProcessAssumption DEF IsChild
  <2> QED
    BY <2>1, <1>3, NoWaits DEF Matched
<1> QED
  BY <1>2, <1>4 DEF Kin

LEMMA KinNext == IInv /\ Kin /\ [Next]_vars => Kin'
<1> SUFFICES ASSUME IInv, Kin, [Next]_vars PROVE Kin'
  OBVIOUS
<1>1. ASSUME NEW p \in Pid, Step(p) \/ Types(p)  PROVE Kin'
  <2>1. \/ Calls(p) \/ Becomes(p) \/ Exits(p)
        \/ ReadLine(p) \/ WaitEnded(p) \/ WaitStopped(p)
        \/ ExecCmd(p) \/ ForkLeft(p) \/ ForkRight(p) \/ HeredocHandler(p)
        \/ HeredocLine(p)
    BY <1>1, StepForms
  <2>2. Exits(p) => Kin'
    BY KinExits DEF Exits, Living
  <2>3. HeredocLine(p) => Kin'
    BY KinUnchanged DEF HeredocLine, procs
  <2> QED
    BY <2>1, <2>2, <2>3, KinCalls, KinBecomes, KinReadLine, KinWaitEnded,
       KinWaitStopped, KinForks
<1>2. CASE UNCHANGED vars
  BY <1>2, KinUnchanged DEF vars, procs
<1> QED
  BY <1>1, <1>2, KinSignals DEF Next, Over

(* Once and Matched, as the property of the runs says them. *)
LEMMA KinAwaited == IInv /\ Kin => ChildrenAwaited
<1> SUFFICES ASSUME IInv, Kin, NEW p \in Pid, st[p] \in {"run", "stop"}
             PROVE  /\ Awaited(p) = {q \in Pid : par[q] = p /\ st[q] # "none"}
                    /\ \A i, j \in DOMAIN todo[p] :
                         /\ Awaits(todo[p][i]) /\ Awaits(todo[p][j])
                         /\ todo[p][i].ref = todo[p][j].ref
                         => i = j
  BY DEF ChildrenAwaited
<1>1. DOMAIN todo[p] = 1 .. Len(todo[p])
  BY LenProperties DEF IInv, TypeOK
<1>2. Once(todo[p]) /\ \A c : WaitsFor(todo[p], c) <=> IsChild(p, c)
  BY DEF Kin, Matched, Living
<1>3. \A c : c \in Awaited(p) <=> WaitsFor(todo[p], c)
  BY <1>1 DEF Awaited, WaitsFor
<1> QED
  BY <1>1, <1>2, <1>3 DEF Once, IsChild

(* Every reachable state satisfies Kin: the invariant behind the theorem.  *)
THEOREM Kinship == Spec => [](IInv /\ Kin)
<1>1. Init => IInv /\ Kin
  BY InitOK, KinInit
<1>2. IInv /\ Kin /\ [Next]_vars => (IInv /\ Kin)'
  BY NextOK, KinNext
<1> QED
  BY <1>1, <1>2, PTL DEF Spec

(* A process waits once for each child it has forked, and for nothing      *)
(* else, in every line and under every signal: exec_cmd,                   *)
(* pipe_child_process and heredoc_parent neither leave a child nor wait    *)
(* for one that is gone.                                                   *)
THEOREM ChildrenMatched == Spec => []ChildrenAwaited
<1>1. IInv /\ Kin => ChildrenAwaited
  BY KinAwaited
<1> QED
  BY <1>1, Kinship, PTL

(***************************************************************************)
(* What a step leaves alone.                                               *)
(***************************************************************************)
Same(q) ==
  /\ todo'[q] = todo[q] /\ fd'[q] = fd[q] /\ mem'[q] = mem[q] /\ sig'[q] = sig[q]

LEMMA EndKeeps ==
  ASSUME IInv, NEW D \in SUBSET Pid, NEW status \in [D -> Nat], End(status)
  PROVE  \A q \in Pid : st'[q] \in {"run", "stop"} =>
           q \notin D /\ st'[q] = st[q] /\ Same(q)
<1>1. DOMAIN status = D
  OBVIOUS
<1> QED
  BY <1>1 DEF End, Same

LEMMA ExitKeeps ==
  ASSUME IInv, NEW p \in Pid, NEW code \in Nat, Exit(p, code)
  PROVE  \A q \in Pid : st'[q] \in {"run", "stop"} =>
           q # p /\ st'[q] = st[q] /\ Same(q)
<1> DEFINE D == {p}
           status == [q \in D |-> code]
<1>1. D \in SUBSET Pid /\ status \in [D -> Nat] /\ End(status) /\ p \in D
  BY DEF Exit
<1> HIDE DEF D, status
<1> QED
  BY <1>1, EndKeeps

(* A step of p changes the state of another process only when it ends it   *)
(* or forks it.                                                            *)
LEMMA OthersKept ==
  ASSUME IInv, NEW p \in Pid, Step(p) \/ Types(p),
         NEW q \in Pid, q # p, st[q] # "none", st'[q] \in {"run", "stop"}
  PROVE  st'[q] = st[q] /\ Same(q)
<1>1. /\ todo \in [Pid -> Seq(Frame)] /\ fd \in [Pid -> Descriptors]
      /\ mem \in [Pid -> Memory] /\ sig \in [Pid -> Signals]
      /\ st \in [Pid -> {"none", "run", "stop", "zombie"}]
  BY DEF IInv, TypeOK
<1>3. ASSUME WaitStopped(p)  PROVE st'[q] = st[q] /\ Same(q)
  <2>1. Top(p).ref \in Pid /\ Exit(Top(p).ref, Killed(SIGKILL)) /\ Killed(SIGKILL) \in Nat
    BY <1>3, RunningFrame DEF WaitStopped, At, Indexed, Killed, SIGKILL
  <2> QED
    BY <2>1, ExitKeeps
<1>4. ASSUME ExecCmd(p) \/ ForkLeft(p) \/ ForkRight(p)
      PROVE  st'[q] = st[q] /\ Same(q)
  <2>1. PICK c, b, a : c \in FreePid /\ Fork(p, c, b, a)
    BY <1>4 DEF ExecCmd, ForkLeft, ForkRight
  <2>2. c # q
    BY <2>1 DEF FreePid
  <2> QED
    BY <1>1, <2>1, <2>2 DEF Fork, Return, Same, FreePid
<1>5. ASSUME HeredocHandler(p)  PROVE st'[q] = st[q] /\ Same(q)
  <2>1. PICK d \in FreeDoc, c \in FreePid :
          /\ st' = [st EXCEPT ![c] = "run"]
          /\ todo' = [Return(p, Await(c) \o <<On("heredoc_open", Top(p).lo, Top(p).hi, Nobody)>>)
                        EXCEPT ![c] = <<On("heredoc_child", 0, 0, d)>>]
          /\ fd' = [fd EXCEPT ![p].in = Tty, ![p].leak = @ + 1,
                              ![c] = [fd[p] EXCEPT !.in = Tty]]
          /\ mem' = [mem EXCEPT ![c] = mem[p]]
          /\ sig' = [sig EXCEPT ![c] = sig[p]]
    BY <1>5 DEF HeredocHandler
  <2>2. c # q
    BY DEF FreePid
  <2> QED
    BY <1>1, <2>1, <2>2 DEF Return, Same, FreePid
<1>6. ASSUME WaitEnded(p)  PROVE st'[q] = st[q] /\ Same(q)
  BY <1>1, <1>6 DEF WaitEnded, Return, Same
<1>7. ASSUME \/ SigintIgnore(p) \/ SigintRestore(p) \/ ChildRestoreSignals(p)
             \/ ExecBuiltin(p) \/ Execve(p) \/ PipeSyntaxError(p) \/ PipeHeredoc(p)
             \/ ClosePipe(p) \/ LeftChild(p) \/ RightChild(p)
      PROVE  st'[q] = st[q] /\ Same(q)
  BY <1>1, <1>7 DEF SigintIgnore, SigintRestore, ChildRestoreSignals, ExecBuiltin, Execve,
     PipeSyntaxError, PipeHeredoc, ClosePipe, LeftChild, RightChild, Return, Same, procs
<1>8. ASSUME \/ RedirectionError(p) \/ RedirectionFails(p) \/ RdinHandler(p)
             \/ RdoutHandler(p) \/ HeredocOpen(p) \/ HeredocChild(p) \/ HeredocLine(p)
             \/ ProgramReads(p) \/ Writes(p) \/ ReadLine(p) \/ PipeHandler(p)
      PROVE  st'[q] = st[q] /\ Same(q)
  BY <1>1, <1>8 DEF RedirectionError, RedirectionFails, RdinHandler, RdoutHandler,
     HeredocOpen, HeredocChild, HeredocLine, ProgramReads, Writes, ReadLine, PipeHandler,
     Return, Same, procs
<1>9. ASSUME ResetData(p)  PROVE st'[q] = st[q] /\ Same(q)
  <2>1. CASE mem[p].exit
    <3>1. Exited(mem[p].g) \in Nat
      BY StatusIsNat DEF IInv, TypeOK, Memory
    <3> QED
      BY <1>9, <2>1, <3>1, ExitKeeps DEF ResetData
  <2>2. CASE ~ mem[p].exit
    BY <1>1, <1>9, <2>2 DEF ResetData, Return, Same, procs
  <2> QED
    BY <2>1, <2>2
<1>10. ASSUME \/ CommandNotFound(p) \/ ChildExit(p) \/ OpenFails(p) \/ OutOfResources(p)
              \/ ProgramEnds(p) \/ EndOfFile(p) \/ BrokenPipe(p)
              \/ EndOfInput(p) \/ HeredocEnd(p) \/ TypedEnd(p)
       PROVE  st'[q] = st[q] /\ Same(q)
  <2>1. PICK code : Exit(p, code)
    BY <1>10 DEF CommandNotFound, ChildExit, OpenFails, OutOfResources, EndOfFile,
                 ProgramEnds, BrokenPipe, EndOfInput, HeredocEnd, TypedEnd
  <2> QED
    BY <2>1 DEF Exit, End, Same
<1> QED
  BY <1>3, <1>4, <1>5, <1>6, <1>7, <1>8, <1>9, <1>10 DEF Step, Types
(***************************************************************************)
(* What a step does to stacks.                                             *)
(***************************************************************************)
Waits == {"ignore", "wait"}
Waited == {"wait", "restore"}

(* What follows a frame: waits after sigint_ignore(), sigint_restore()     *)
(* after the last of them, and neither after anything else.                *)
Chained(s) == \A i \in 1 .. Len(s) - 1 : s[i].op \in Waits <=> s[i + 1].op \in Waited
Linked(a) == Chained(a) /\ (a # <<>> => a[1].op \notin Waited /\ a[Len(a)].op \notin Waits)

PushedOp == FrameOp \ {"prompt", "reset", "child", "left", "right"}
PlainOp == FrameOp \ (PipeOp \cup {"heredoc_child"})
PushingOp ==
  {"bst", "heredoc_open", "left", "right", "fork_left", "fork_right"}
  \cup (LastOp \ {"prompt", "_exit"})

(* p replaces its top frame by those of a. *)
Pushes(p, a) ==
  /\ st[p] = "run" /\ a \in Seq(Frame) /\ todo'[p] = a \o Tail(todo[p])
  /\ Top(p).op # "prompt" /\ (a = <<>> => Top(p).op \notin LastOp)
  /\ OnlyOps(a, PushedOp) /\ Linked(a)
  /\ a # <<>> => Top(p).op \in PushingOp
  /\ \A i \in 1 .. Len(a) : a[i].op = "close_pipe" => i = 1
  /\ Top(p).op = "fork_left" => a # <<>> /\ a[1].op = "fork_right"
  /\ Top(p).op = "fork_right" => a # <<>> /\ a[1].op = "close_pipe"
  /\ \/ PipeHandler(p)
     \/ OnlyOps(a, IF Top(p).op = "fork_left" THEN {"fork_right"} ELSE PlainOp)

LEMMA NoLinks ==
  ASSUME NEW a \in Seq(Frame), OnlyOps(a, FrameOp \ (Waits \cup Waited))
  PROVE  Linked(a)
<1>1. Len(a) \in Nat /\ (a # <<>> => Len(a) >= 1)
  BY LenProperties, EmptySeq
<1>2. \A i \in 1 .. Len(a) : a[i].op \notin Waits \cup Waited
  BY DEF OnlyOps
<1>3. Chained(a)
  BY <1>1, <1>2 DEF Chained
<1> QED
  BY <1>1, <1>2, <1>3 DEF Linked

LEMMA CallsPush ==
  ASSUME IInv, NEW p \in Pid, Calls(p)  PROVE \E a : Pushes(p, a)
<1>1. PICK a \in Seq(Frame) :
        /\ OnlyOps(a, CallOp) /\ todo' = Return(p, a)
        /\ a = <<>> \/ Top(p).op \in {"bst", "heredoc_open", "left", "right"}
        /\ OnlyOps(a, {"bst", "echo"}) \/ PipeHandler(p)
  BY DEF Calls
<1>2. todo'[p] = a \o Tail(todo[p])
  BY <1>1 DEF Return, IInv, TypeOK
<1>3. Linked(a)
  BY <1>1, NoLinks DEF OnlyOps, CallOp, FrameOp, Waits, Waited
<1>4. OnlyOps(a, PushedOp) /\ \A i \in 1 .. Len(a) : a[i].op # "close_pipe"
  BY <1>1 DEF OnlyOps, CallOp, PushedOp, FrameOp
<1>5. /\ st[p] = "run" /\ Top(p).op \notin LastOp \cup {"wait", "fork_right", "fork_left"}
      /\ Top(p).op # "prompt"
  BY DEF Calls, LastOp
<1>6. OnlyOps(a, {"bst", "echo"}) => OnlyOps(a, PlainOp)
  BY DEF OnlyOps, PlainOp, FrameOp, PipeOp
<1>7. Pushes(p, a)
  BY <1>1, <1>2, <1>3, <1>4, <1>5, <1>6 DEF Pushes, PushingOp
<1> QED
  BY <1>7

LEMMA BecomesPushes ==
  ASSUME IInv, NEW p \in Pid, Becomes(p)  PROVE \E a : Pushes(p, a)
<1>1. PICK f \in Frame : /\ f.op \in LastOp \ {"prompt", "_exit", "heredoc_child"}
                        /\ todo' = Return(p, <<f>>)
  BY DEF Becomes
<1> DEFINE a == <<f>>
<1>2. a \in Seq(Frame) /\ a # <<>> /\ Len(a) = 1 /\ a[1] = f
  OBVIOUS
<1>3. todo'[p] = a \o Tail(todo[p])
  BY <1>1 DEF Return, IInv, TypeOK
<1> HIDE DEF a
<1>4. /\ OnlyOps(a, PushedOp) /\ OnlyOps(a, FrameOp \ (Waits \cup Waited))
      /\ \A i \in 1 .. Len(a) : a[i].op # "close_pipe"
      /\ OnlyOps(a, PlainOp)
  BY <1>1, <1>2 DEF OnlyOps, PushedOp, PlainOp, FrameOp, LastOp, ProgramOp, ProgramKind,
                    PipeOp, Waits, Waited
<1>5. Linked(a)
  BY <1>2, <1>4, NoLinks
<1>6. /\ st[p] = "run" /\ Top(p).op \in PushingOp
      /\ Top(p).op \notin {"prompt", "fork_left", "fork_right"}
  BY DEF Becomes, PushingOp, LastOp, ProgramOp, ProgramKind
<1> QED
  BY <1>2, <1>3, <1>4, <1>5, <1>6 DEF Pushes

LEMMA WaitEndedPushes ==
  ASSUME IInv, NEW p \in Pid, WaitEnded(p)  PROVE \E a : Pushes(p, a)
<1> DEFINE a == <<>>
<1>1. a \in Seq(Frame) /\ Len(a) = 0 /\ todo'[p] = a \o Tail(todo[p])
  BY EmptySeq DEF WaitEnded, Return, IInv, TypeOK
<1>2. OnlyOps(a, PushedOp) /\ OnlyOps(a, PlainOp) /\ Linked(a)
  BY <1>1 DEF OnlyOps, Linked, Chained
<1>3. st[p] = "run" /\ Top(p).op = "wait" /\ Top(p).op \notin LastOp
  BY DEF WaitEnded, At, LastOp, ProgramOp, ProgramKind
<1>4. a = <<>> /\ \A i \in 1 .. Len(a) : a[i].op # "close_pipe"
  BY <1>1
<1> HIDE DEF a
<1>5. Pushes(p, a)
  BY <1>1, <1>2, <1>3, <1>4 DEF Pushes
<1> QED
  BY <1>5

LEMMA ForksPush ==
  ASSUME IInv, NEW p \in Pid, NEW c \in FreePid, NEW a, NEW b, Forks(p, c, a, b)
  PROVE  Pushes(p, a)
<1>1. /\ st[p] = "run" /\ a \in Seq(Frame) /\ todo' = [Return(p, a) EXCEPT ![c] = b]
      /\ c # p /\ (a = <<>> => Len(a) = 0)
  BY DEF Forks, FreePid
<1>2. todo'[p] = a \o Tail(todo[p])
  BY <1>1 DEF Return, IInv, TypeOK
<1>3. CASE ExecShape(p, c, a, b)
  <2>1. /\ Len(a) = 3 /\ a[1].op = "ignore" /\ a[2].op = "wait" /\ a[3].op = "restore"
        /\ Top(p).op = "bst" /\ a # <<>>
    BY <1>1, <1>3 DEF ExecShape, IsAwait
  <2>2. Chained(a) /\ a[1].op \notin Waited /\ a[Len(a)].op \notin Waits
    BY <2>1 DEF Chained, Waits, Waited
  <2>3. OnlyOps(a, PushedOp) /\ OnlyOps(a, PlainOp) /\ \A i \in 1 .. Len(a) : a[i].op # "close_pipe"
    BY <2>1 DEF OnlyOps, PushedOp, PlainOp, FrameOp, PipeOp
  <2> QED
    BY <1>1, <1>2, <2>1, <2>2, <2>3 DEF Pushes, PushingOp, Linked
<1>4. CASE LeftShape(p, c, a, b)
  <2>1. Len(a) = 1 /\ a[1].op = "fork_right" /\ Top(p).op = "fork_left" /\ a # <<>>
    BY <1>1, <1>4 DEF LeftShape, On
  <2>2. Chained(a) /\ a[1].op \notin Waited /\ a[Len(a)].op \notin Waits
    BY <2>1 DEF Chained, Waits, Waited
  <2>3. /\ OnlyOps(a, PushedOp) /\ OnlyOps(a, {"fork_right"})
        /\ \A i \in 1 .. Len(a) : a[i].op = "close_pipe" => i = 1
    BY <2>1 DEF OnlyOps, PushedOp, PlainOp, FrameOp, PipeOp
  <2> QED
    BY <1>1, <1>2, <2>1, <2>2, <2>3 DEF Pushes, PushingOp, Linked
<1>5. CASE RightShape(p, c, a, b)
  <2>1. /\ Len(a) = 5 /\ a[1].op = "close_pipe" /\ a[2].op = "ignore" /\ a[3].op = "wait"
        /\ a[4].op = "wait" /\ a[5].op = "restore" /\ Top(p).op = "fork_right" /\ a # <<>>
    BY <1>1, <1>5 DEF RightShape
  <2>2. Chained(a) /\ a[1].op \notin Waited /\ a[Len(a)].op \notin Waits
    BY <2>1 DEF Chained, Waits, Waited
  <2>3. /\ OnlyOps(a, PushedOp) /\ OnlyOps(a, PlainOp)
        /\ \A i \in 1 .. Len(a) : a[i].op = "close_pipe" => i = 1
    BY <2>1 DEF OnlyOps, PushedOp, PlainOp, FrameOp, PipeOp
  <2> QED
    BY <1>1, <1>2, <2>1, <2>2, <2>3 DEF Pushes, PushingOp, Linked
<1>6. CASE HeredocShape(p, c, a, b)
  <2>1. /\ Len(a) = 4 /\ a[1].op = "ignore" /\ a[2].op = "wait" /\ a[3].op = "restore"
        /\ a[4].op = "heredoc_open" /\ Top(p).op = "bst" /\ a # <<>>
    BY <1>1, <1>6 DEF HeredocShape, IsAwait, On
  <2>2. Chained(a) /\ a[1].op \notin Waited /\ a[Len(a)].op \notin Waits
    BY <2>1 DEF Chained, Waits, Waited
  <2>3. OnlyOps(a, PushedOp) /\ OnlyOps(a, PlainOp) /\ \A i \in 1 .. Len(a) : a[i].op # "close_pipe"
    BY <2>1 DEF OnlyOps, PushedOp, PlainOp, FrameOp, PipeOp
  <2> QED
    BY <1>1, <1>2, <2>1, <2>2, <2>3 DEF Pushes, PushingOp, Linked
<1> QED
  BY <1>3, <1>4, <1>5, <1>6 DEF Forks

(* A step of p reads a line, pushes frames, or leaves the stack alone; the *)
(* stack of a process that it forks starts with neither prompt nor reset.  *)
NoPrompt(s) == \A i \in 1 .. Len(s) : s[i].op \notin {"prompt", "reset"}

LEMMA Stepping ==
  ASSUME IInv, NEW p \in Pid, Step(p) \/ Types(p)  PROVE st[p] = "run"
BY StepForms DEF Calls, Becomes, Exits, ReadLine, WaitEnded, WaitStopped, ExecCmd, External,
   ForkLeft, ForkRight, HeredocHandler, Openable, Redirects, HeredocLine, At

LEMMA WaitStoppedKeeps ==
  ASSUME IInv, NEW p \in Pid, WaitStopped(p)
  PROVE  \A q \in Pid : st'[q] \in {"run", "stop"} => st'[q] = st[q] /\ Same(q)
<1>1. Top(p).ref \in Pid /\ Exit(Top(p).ref, Killed(SIGKILL)) /\ Killed(SIGKILL) \in Nat
  BY RunningFrame DEF WaitStopped, At, Indexed, Killed, SIGKILL
<1> QED
  BY <1>1, ExitKeeps

LEMMA StackForms ==
  ASSUME IInv, NEW p \in Pid, Step(p) \/ Types(p), st'[p] \in {"run", "stop"}
  PROVE  \/ ReadLine(p) \/ WaitStopped(p) \/ HeredocLine(p)
         \/ \E a : Pushes(p, a)
<1>1. ~ Exits(p)
  BY ExitKeeps DEF Exits
<1>2. ExecCmd(p) \/ ForkLeft(p) \/ ForkRight(p) \/ HeredocHandler(p) => \E a : Pushes(p, a)
  BY AnyForks, ForksPush
<1> QED
  BY <1>1, <1>2, StepForms, CallsPush, BecomesPushes, WaitEndedPushes

LEMMA NewStack ==
  ASSUME IInv, NEW p \in Pid, Step(p) \/ Types(p),
         NEW q \in Pid, st[q] = "none", st'[q] \in {"run", "stop"}
  PROVE  q # Shell /\ NoPrompt(todo'[q]) /\ \E a, b : Forks(p, q, a, b)
<1>1. st \in [Pid -> {"none", "run", "stop", "zombie"}]
  BY DEF IInv, TypeOK
<1>2. /\ ~ Calls(p) /\ ~ Becomes(p) /\ ~ Exits(p) /\ ~ ReadLine(p)
      /\ ~ WaitEnded(p) /\ ~ HeredocLine(p)
  <2>1. ~ Exits(p)
    BY ExitKeeps DEF Exits
  <2>2. ~ WaitEnded(p)
    BY <1>1 DEF WaitEnded
  <2> QED
    BY <2>1, <2>2 DEF Calls, Becomes, ReadLine, HeredocLine, procs
<1>3. ~ WaitStopped(p)
  BY WaitStoppedKeeps
<1>4. PICK c \in FreePid : \E a, b : Forks(p, c, a, b)
  BY <1>2, <1>3, StepForms, AnyForks
<1>5. c = q
  BY <1>1, <1>4 DEF Forks, FreePid
<1>6. PICK a, b : Forks(p, c, a, b)
  BY <1>4
<1>7. todo'[q] = b
  BY <1>5, <1>6 DEF Forks, Return, IInv, TypeOK
<1>8. NoPrompt(b)
  <2>1. CASE ExecShape(p, c, a, b)
    BY <2>1 DEF ExecShape, NoPrompt, On
  <2>2. CASE LeftShape(p, c, a, b) \/ RightShape(p, c, a, b)
    <3>1. PICK op \in {"left", "right"} : IsSide(b, p, op)
      BY <2>2 DEF LeftShape, RightShape
    <3>2. On(op, Top(p).lo, Top(p).hi, Nobody).op = op
      BY DEF On
    <3> QED
      BY <3>1, <3>2 DEF IsSide, NoPrompt
  <2>3. CASE HeredocShape(p, c, a, b)
    BY <2>3 DEF HeredocShape, NoPrompt
  <2> QED
    BY <2>1, <2>2, <2>3, <1>6 DEF Forks
<1> QED
  BY <1>4, <1>5, <1>7, <1>8 DEF FreePid
(***************************************************************************)
(* The shell's stack.                                                      *)
(***************************************************************************)
(* Only reset_data() returns to the prompt; no frame of a child; the pipe  *)
(* is closed as soon as the two sides are forked.                          *)
ShellStack(s) ==
  /\ Chained(s) /\ s[Len(s)].op = "prompt"
  /\ \A i \in 1 .. Len(s) : /\ s[i].op \notin {"child", "left", "right"}
                            /\ s[i].op = "reset" <=> i = Len(s) - 1
                            /\ s[i].op = "close_pipe" => i = 1

LEMMA ChainedPush ==
  ASSUME NEW s \in Seq(Frame), Len(s) >= 2, Chained(s), NEW a \in Seq(Frame), Linked(a),
         a # <<>> => s[1].op \notin Waits, NEW t, t = a \o Tail(s)
  PROVE  /\ Chained(t) /\ t # <<>>
         /\ t[1].op \in Waited <=> a = <<>> /\ s[1].op \in Waits
<1>1. /\ t \in Seq(Frame) /\ Len(a) \in Nat /\ Len(s) \in Nat
      /\ Len(t) = Len(a) + Len(s) - 1
      /\ \A i \in 1 .. Len(a) : i \in 1 .. Len(t) /\ t[i] = a[i]
      /\ \A i \in 2 .. Len(s) : Len(a) + i - 1 \in 1 .. Len(t) /\ t[Len(a) + i - 1] = s[i]
      /\ a = <<>> <=> Len(a) = 0
  <2>1. s # <<>>
    BY EmptySeq
  <2> QED
    BY <2>1, Pushed, EmptySeq
<1>2. ASSUME NEW i \in 1 .. Len(t) - 1
      PROVE  t[i].op \in Waits <=> t[i + 1].op \in Waited
  <2>1. CASE i < Len(a)
    <3>1. i \in 1 .. Len(a) - 1 /\ i \in 1 .. Len(a) /\ i + 1 \in 1 .. Len(a)
      BY <2>1, <1>1
    <3> QED
      BY <3>1, <1>1 DEF Linked, Chained
  <2>2. CASE i = Len(a)
    <3>1. i \in 1 .. Len(a) /\ t[i] = a[Len(a)] /\ a # <<>>
      BY <2>2, <1>1
    <3>2. t[i + 1] = s[2]
      <4>1. 2 \in 2 .. Len(s) /\ Len(a) + 2 - 1 = i + 1
        BY <2>2, <1>1
      <4> QED
        BY <4>1, <1>1
    <3>3. 1 \in 1 .. Len(s) - 1
      BY <1>1
    <3>4. s[1].op \in Waits <=> s[2].op \in Waited
      BY <3>3 DEF Chained
    <3> QED
      BY <3>1, <3>2, <3>4 DEF Linked
  <2>3. CASE i > Len(a)
    <3> DEFINE k == i - Len(a) + 1
    <3>1. /\ k \in 2 .. Len(s) /\ k + 1 \in 2 .. Len(s) /\ k \in 1 .. Len(s) - 1
          /\ Len(a) + k - 1 = i /\ Len(a) + (k + 1) - 1 = i + 1
      BY <2>3, <1>1
    <3> HIDE DEF k
    <3>2. t[i] = s[k] /\ t[i + 1] = s[k + 1]
      BY <3>1, <1>1
    <3> QED
      BY <3>1, <3>2 DEF Chained
  <2> QED
    BY <2>1, <2>2, <2>3, <1>1
<1>3. t[1].op \in Waited <=> a = <<>> /\ s[1].op \in Waits
  <2>1. CASE a = <<>>
    <3>1. t[1] = s[2]
      <4>1. 2 \in 2 .. Len(s) /\ Len(a) + 2 - 1 = 1
        BY <2>1, <1>1
      <4> QED
        BY <4>1, <1>1
    <3>2. 1 \in 1 .. Len(s) - 1
      BY <1>1
    <3>3. s[1].op \in Waits <=> s[2].op \in Waited
      BY <3>2 DEF Chained
    <3> QED
      BY <2>1, <3>1, <3>3
  <2>2. CASE a # <<>>
    <3>1. t[1] = a[1]
      BY <2>2, <1>1
    <3> QED
      BY <2>2, <3>1 DEF Linked
  <2> QED
    BY <2>1, <2>2
<1>4. t # <<>>
  <2>1. Len(t) >= 1
    BY <1>1
  <2> QED
    BY <2>1, <1>1, EmptySeq
<1> QED
  BY <1>2, <1>3, <1>4 DEF Chained

LEMMA ShellStackPush ==
  ASSUME NEW s \in Seq(Frame), Len(s) >= 2, ShellStack(s), NEW a \in Seq(Frame),
         OnlyOps(a, PushedOp), Linked(a), a # <<>> => s[1].op \in PushingOp,
         \A i \in 1 .. Len(a) : a[i].op = "close_pipe" => i = 1,
         NEW t, t = a \o Tail(s)
  PROVE  ShellStack(t)
<1>1. /\ t \in Seq(Frame) /\ Len(a) \in Nat /\ Len(s) \in Nat
      /\ Len(t) = Len(a) + Len(s) - 1
      /\ \A i \in 2 .. Len(s) : Len(a) + i - 1 \in 1 .. Len(t) /\ t[Len(a) + i - 1] = s[i]
      /\ \A i \in 1 .. Len(t) :
           \/ i \in 1 .. Len(a) /\ t[i] = a[i]
           \/ i - Len(a) + 1 \in 2 .. Len(s) /\ t[i] = s[i - Len(a) + 1]
      /\ a = <<>> <=> Len(a) = 0
  <2>1. s # <<>>
    BY EmptySeq
  <2> QED
    BY <2>1, Pushed, EmptySeq
<1>2. a # <<>> => s[1].op \notin Waits \cup {"reset"}
  BY DEF PushingOp, Waits, LastOp, ProgramOp, ProgramKind
<1>3. Chained(t)
  BY <1>2, ChainedPush DEF ShellStack
<1>4. t[Len(t)].op = "prompt"
  <2>1. Len(s) \in 2 .. Len(s) /\ Len(a) + Len(s) - 1 = Len(t)
    BY <1>1
  <2> QED
    BY <2>1, <1>1 DEF ShellStack
<1>5. ASSUME NEW i \in 1 .. Len(t)
      PROVE  /\ t[i].op \notin {"child", "left", "right"}
             /\ t[i].op = "reset" <=> i = Len(t) - 1
             /\ t[i].op = "close_pipe" => i = 1
  <2>1. CASE i \in 1 .. Len(a) /\ t[i] = a[i]
    <3>1. a[i].op \in PushedOp /\ a # <<>>
      BY <2>1, <1>1 DEF OnlyOps
    <3>2. i # Len(t) - 1
      <4>1. 1 \in 1 .. Len(s)
        BY <1>1
      <4>2. 1 # Len(s) - 1
        BY <3>1, <4>1, <1>2 DEF ShellStack
      <4> DEFINE m == Len(s)
                 n == Len(a)
      <4>3. m \in Nat /\ n \in Nat /\ m >= 2 /\ m # 2 /\ i \in 1 .. n /\ Len(t) = n + m - 1
        BY <2>1, <4>2, <1>1
      <4> HIDE DEF m, n
      <4> QED
        BY <4>3
    <3> QED
      BY <2>1, <3>1, <3>2 DEF PushedOp
  <2>2. CASE i - Len(a) + 1 \in 2 .. Len(s) /\ t[i] = s[i - Len(a) + 1]
    <3> DEFINE k == i - Len(a) + 1
    <3>1. /\ k \in 1 .. Len(s) /\ k # 1 /\ t[i] = s[k]
          /\ (i = Len(t) - 1 <=> k = Len(s) - 1)
      BY <2>2, <1>1
    <3> HIDE DEF k
    <3> QED
      BY <3>1 DEF ShellStack
  <2> QED
    BY <2>1, <2>2, <1>1
<1> QED
  BY <1>3, <1>4, <1>5 DEF ShellStack

(* The stack with a line on top of the prompt. *)
LEMMA ShellStackReadLine ==
  ASSUME IInv, NEW p \in Pid, ReadLine(p)
  PROVE  /\ ShellStack(todo'[p]) /\ Len(todo'[p]) >= 2 /\ todo'[p][1].op \notin Waited
         /\ OnlyOps(todo'[p], {"bst", "reset", "prompt"})
<1>1. PICK b \in Seq(Frame) :
        OnlyOps(b, {"bst"}) /\ todo'[p] = b \o <<Do("reset")>> \o todo[p]
  BY ReadLinePushes
<1> DEFINE r == Do("reset")
           u == <<r>>
           v == b \o u
           s == todo[p]
           t == v \o s
<1>2. r \in Frame /\ r.op = "reset"
  BY DEF Do, On, Frame, FrameOp
<1>3. /\ s \in Seq(Frame) /\ Len(s) = 1 /\ s[1].op = "prompt"
      /\ todo'[p] = (b \o <<r>>) \o s
  BY <1>1, ReadLinePushes DEF IInv, TypeOK
<1> HIDE DEF r, s
<1>4. u \in Seq(Frame) /\ Len(u) = 1 /\ u[1] = r
  BY <1>2
<1>5. todo'[p] = t
  BY <1>3
<1> HIDE DEF u
<1>6. /\ v \in Seq(Frame) /\ Len(b) \in Nat /\ Len(v) = Len(b) + Len(u)
      /\ \A i \in 1 .. Len(b) + Len(u) : v[i] = IF i <= Len(b) THEN b[i] ELSE u[i - Len(b)]
  BY <1>4, ConcatProperties, LenProperties
<1> HIDE DEF v
<1>t. t = v \o s /\ s \in Seq(Frame) /\ v \in Seq(Frame)
  BY <1>3, <1>6
<1> HIDE DEF t
<1>7. /\ t \in Seq(Frame) /\ Len(t) = Len(v) + Len(s)
      /\ \A i \in 1 .. Len(v) + Len(s) : t[i] = IF i <= Len(v) THEN v[i] ELSE s[i - Len(v)]
  BY <1>t, ConcatProperties
<1>8. /\ Len(t) = Len(b) + 2
      /\ \A i \in 1 .. Len(b) : t[i].op = "bst"
      /\ t[Len(b) + 1].op = "reset" /\ t[Len(b) + 2].op = "prompt"
  <2>1. Len(t) = Len(b) + 2 /\ Len(v) = Len(b) + 1
    BY <1>3, <1>4, <1>6, <1>7
  <2>2. \A i \in 1 .. Len(b) : t[i] = b[i]
    <3> TAKE i \in 1 .. Len(b)
    <3>1. i <= Len(v) /\ i <= Len(b) /\ i \in 1 .. Len(v) + Len(s) /\ i \in 1 .. Len(b) + Len(u)
      BY <2>1, <1>3, <1>4, <1>6
    <3> QED
      BY <3>1, <1>6, <1>7
  <2>3. t[Len(b) + 1] = r
    <3> DEFINE k == Len(b) + 1
    <3>1. /\ k <= Len(v) /\ ~ (k <= Len(b)) /\ k - Len(b) = 1
          /\ k \in 1 .. Len(v) + Len(s) /\ k \in 1 .. Len(b) + Len(u)
      BY <2>1, <1>3, <1>4, <1>6
    <3> QED
      BY <3>1, <1>4, <1>6, <1>7
  <2>4. t[Len(b) + 2] = s[1]
    <3> DEFINE k == Len(b) + 2
    <3>1. ~ (k <= Len(v)) /\ k - Len(v) = 1 /\ k \in 1 .. Len(v) + Len(s)
      BY <2>1, <1>3, <1>4, <1>6
    <3> QED
      BY <3>1, <1>7
  <2> QED
    BY <2>1, <2>2, <2>3, <2>4, <1>1, <1>2, <1>3 DEF OnlyOps
<1>9. \A i \in 1 .. Len(t) : i \in 1 .. Len(b) \/ i = Len(b) + 1 \/ i = Len(b) + 2
  BY <1>6, <1>8
<1>10. \A i \in 1 .. Len(t) : t[i].op \in {"bst", "reset", "prompt"}
  BY <1>8, <1>9
<1>11. Chained(t) /\ Len(t) >= 2 /\ t[1].op \notin Waited
  <2>1. \A i \in 1 .. Len(t) - 1 : i \in 1 .. Len(t) /\ i + 1 \in 1 .. Len(t)
    BY <1>6, <1>8
  <2>2. 1 \in 1 .. Len(t) /\ Len(t) >= 2
    BY <1>6, <1>8
  <2> QED
    BY <2>1, <2>2, <1>10 DEF Chained, Waits, Waited
<1>12. \A i \in 1 .. Len(t) : t[i].op = "reset" <=> i = Len(t) - 1
  <2>1. \A i \in 1 .. Len(b) : i # Len(t) - 1
    BY <1>6, <1>8
  <2>2. Len(b) + 1 = Len(t) - 1 /\ Len(b) + 2 # Len(t) - 1
    BY <1>6, <1>8
  <2> QED
    BY <2>1, <2>2, <1>8, <1>9
<1> QED
  BY <1>5, <1>8, <1>10, <1>11, <1>12 DEF ShellStack, OnlyOps
(***************************************************************************)
(* The shell's handler and descriptors.                                    *)
(***************************************************************************)
NoLoop == \A q \in Living \ {Shell} : NoPrompt(todo[q])

(* SIGINT is ignored from sigint_ignore() to sigint_restore(), with the    *)
(* handler saved, and caught everywhere else.                              *)
Handled ==
  /\ sig[Shell].job = "ignore"
  /\ IF Top(Shell).op \in Waited
       THEN sig[Shell].int = "ignore" /\ sig[Shell].old = "handler"
       ELSE sig[Shell].int = "handler"

(* The only pipe that is open is that of sh->pipe, and a frame of          *)
(* pipe_handler() that leads to its close is on the stack; alone on the    *)
(* stack, the prompt has what it started with.                             *)
ClosingOp == {"fork_left", "fork_right", "close_pipe"}
Closes(s) == \E i \in 1 .. Len(s) : s[i].op \in ClosingOp
Owned ==
  /\ fd[Shell].rd \subseteq {mem[Shell].r} /\ fd[Shell].wr \subseteq {mem[Shell].w}
  /\ mem[Shell].r = mem[Shell].w
  /\ mem[Shell].r # NoPipe => Closes(todo[Shell])
  /\ Len(todo[Shell]) = 1 =>
       fd[Shell].in = Tty /\ fd[Shell].out = Tty /\ mem[Shell].arg = 0 /\ tty = "current"
Home == Shell \in Living => ShellStack(todo[Shell]) /\ Handled /\ Owned

LEMMA SignalForms ==
  ASSUME IInv, NEW p \in Pid, Step(p) \/ Types(p), st'[p] \in {"run", "stop"}
  PROVE  \/ SigintIgnore(p) \/ SigintRestore(p)
         \/ Top(p).op \in {"child", "exec", "heredoc_child"}
         \/ sig'[p] = sig[p] /\ Top(p).op \notin {"ignore", "restore"}
<1> DEFINE Unmoved == sig'[p] = sig[p] /\ Top(p).op \notin {"ignore", "restore"}
<1>1. ASSUME \/ PipeSyntaxError(p) \/ PipeHeredoc(p) \/ ClosePipe(p) \/ ExecBuiltin(p)
             \/ LeftChild(p) \/ RightChild(p) \/ RedirectionError(p) \/ RedirectionFails(p)
             \/ RdinHandler(p) \/ RdoutHandler(p) \/ HeredocOpen(p) \/ PipeHandler(p)
             \/ ProgramReads(p) \/ Writes(p) \/ HeredocLine(p) \/ ReadLine(p)
             \/ WaitEnded(p)
      PROVE  Unmoved
  <2>1. sig' = sig
    BY <1>1 DEF PipeSyntaxError, PipeHeredoc, ClosePipe, ExecBuiltin, LeftChild, RightChild,
       RedirectionError, RedirectionFails, RdinHandler, RdoutHandler, HeredocOpen, Writes,
       PipeHandler, ProgramReads, HeredocLine, ReadLine, WaitEnded
  <2>2. Top(p).op \notin {"ignore", "restore"}
    BY <1>1 DEF PipeSyntaxError, PipeHeredoc, ClosePipe, ExecBuiltin, Builtin, LeftChild,
       RightChild, RedirectionError, RedirectionFails, RdinHandler, RdoutHandler,
       HeredocOpen, Writes, Writing, PipeHandler, ProgramReads, Reading, HeredocLine,
       ReadLine, WaitEnded, Openable, Redirects, At
  <2> QED
    BY <2>1, <2>2
<1>2. ASSUME NEW code, Exit(p, code)  PROVE FALSE
  <2>1. st'[p] \notin {"run", "stop"}
    BY <1>2 DEF Exit, End
  <2> QED
    BY <2>1
<1>3. ASSUME ResetData(p)  PROVE Unmoved
  BY <1>2, <1>3 DEF ResetData, At
<1>4. ASSUME WaitStopped(p)  PROVE Unmoved
  BY <1>4, WaitStoppedKeeps DEF Same, WaitStopped, At
<1>5. ASSUME ExecCmd(p) \/ ForkLeft(p) \/ ForkRight(p) \/ HeredocHandler(p)
      PROVE  Unmoved
  <2>1. PICK c \in FreePid : \E a, b : Forks(p, c, a, b)
    BY <1>5, AnyForks
  <2>2. c # p /\ sig'[p] = sig[p]
    BY <2>1 DEF Forks, FreePid, IInv, TypeOK
  <2>3. Top(p).op \in {"bst", "fork_left", "fork_right"}
    BY <2>1 DEF Forks, ExecShape, LeftShape, RightShape, HeredocShape
  <2> QED
    BY <2>2, <2>3
<1>6. ASSUME ChildRestoreSignals(p) \/ Execve(p) \/ HeredocChild(p)
      PROVE  Top(p).op \in {"child", "exec", "heredoc_child"}
  BY <1>6 DEF ChildRestoreSignals, Execve, HeredocChild, At
<1>7. ASSUME \/ CommandNotFound(p) \/ ChildExit(p) \/ OpenFails(p) \/ OutOfResources(p)
             \/ ProgramEnds(p) \/ EndOfFile(p) \/ BrokenPipe(p)
             \/ EndOfInput(p) \/ HeredocEnd(p) \/ TypedEnd(p)
      PROVE  FALSE
  BY <1>2, <1>7 DEF CommandNotFound, ChildExit, OpenFails, OutOfResources, EndOfFile,
     ProgramEnds, BrokenPipe, EndOfInput, HeredocEnd, TypedEnd
<1> QED
  BY <1>1, <1>3, <1>4, <1>5, <1>6, <1>7 DEF Step, Types

(* Who opens and closes pipe ends. *)
LEMMA PipeForms ==
  ASSUME IInv, NEW p \in Pid, Step(p) \/ Types(p), st'[p] \in {"run", "stop"}
  PROVE  \/ PipeHandler(p) \/ ClosePipe(p) \/ LeftChild(p) \/ RightChild(p)
         \/ /\ mem'[p].r = mem[p].r /\ mem'[p].w = mem[p].w
            /\ fd'[p].rd = fd[p].rd /\ fd'[p].wr = fd[p].wr
            /\ Top(p).op # "close_pipe"
<1> DEFINE Unmoved == /\ mem'[p].r = mem[p].r /\ mem'[p].w = mem[p].w
                    /\ fd'[p].rd = fd[p].rd /\ fd'[p].wr = fd[p].wr
                    /\ Top(p).op # "close_pipe"
<1>1. fd \in [Pid -> Descriptors] /\ mem \in [Pid -> Memory]
  BY DEF IInv, TypeOK
<1>2. fd[p] \in Descriptors /\ mem[p] \in Memory
  BY <1>1
<1>3. ASSUME \/ SigintIgnore(p) \/ SigintRestore(p) \/ ChildRestoreSignals(p)
             \/ PipeSyntaxError(p) \/ ExecBuiltin(p) \/ RedirectionError(p)
             \/ HeredocLine(p) \/ ReadLine(p) \/ WaitEnded(p) \/ Execve(p)
             \/ ProgramReads(p) \/ Writes(p)
      PROVE  Unmoved
  <2>1. fd' = fd
    BY <1>3 DEF SigintIgnore, SigintRestore, ChildRestoreSignals, PipeSyntaxError,
       ExecBuiltin, RedirectionError, HeredocLine, ReadLine, WaitEnded, Execve,
       ProgramReads, Writes
  <2>2. mem'[p].r = mem[p].r /\ mem'[p].w = mem[p].w
    <3>1. SigintIgnore(p) \/ ChildRestoreSignals(p) \/ HeredocLine(p) \/ Execve(p)
          \/ ProgramReads(p) => mem' = mem
      BY DEF SigintIgnore, ChildRestoreSignals, HeredocLine, Execve, ProgramReads
    <3>2. SigintRestore(p) \/ PipeSyntaxError(p) \/ RedirectionError(p) \/ WaitEnded(p)
          \/ Writes(p) => \E g : mem' = [mem EXCEPT ![p].g = g]
      BY <1>1, <1>2 DEF SigintRestore, PipeSyntaxError, RedirectionError, WaitEnded, Writes
    <3>3. ReadLine(p) => \E line : mem' = [mem EXCEPT ![p].line = line]
      BY DEF ReadLine
    <3>4. ExecBuiltin(p) => \/ mem' = mem \/ \E g : mem' = [mem EXCEPT ![p].g = g]
                            \/ \E g : mem' = [mem EXCEPT ![p].exit = TRUE, ![p].g = g]
      <4> HAVE ExecBuiltin(p)
      <4>1. CASE CommandKind(p) = "echo"
        BY <4>1 DEF ExecBuiltin
      <4>2. CASE CommandKind(p) = "exit"
        BY <4>2, <1>1, <1>2 DEF ExecBuiltin, Memory
      <4>3. CASE CommandKind(p) \notin {"echo", "exit"}
        BY <4>3 DEF ExecBuiltin
      <4> QED
        BY <4>1, <4>2, <4>3
    <3> QED
      BY <1>1, <1>2, <1>3, <3>1, <3>2, <3>3, <3>4 DEF Memory
  <2>3. Top(p).op # "close_pipe"
    BY <1>3 DEF SigintIgnore, SigintRestore, ChildRestoreSignals, PipeSyntaxError,
       ExecBuiltin, Builtin, RedirectionError, HeredocLine, ReadLine, WaitEnded, Execve,
       ProgramReads, Reading, Writes, Writing, Redirects, At
  <2> QED
    BY <2>1, <2>2, <2>3
<1>4. ASSUME \/ PipeHeredoc(p) \/ RedirectionFails(p) \/ RdinHandler(p)
             \/ RdoutHandler(p) \/ HeredocOpen(p) \/ HeredocChild(p)
      PROVE  Unmoved
  <2>1. fd'[p].rd = fd[p].rd /\ fd'[p].wr = fd[p].wr
    BY <1>1, <1>2, <1>4 DEF Descriptors, PipeHeredoc, RedirectionFails, RdinHandler,
       RdoutHandler, HeredocOpen, HeredocChild
  <2>2. mem'[p].r = mem[p].r /\ mem'[p].w = mem[p].w
    <3>1. PipeHeredoc(p) \/ RedirectionFails(p) \/ HeredocChild(p) => mem' = mem
      BY DEF PipeHeredoc, RedirectionFails, HeredocChild
    <3>2. RdinHandler(p) \/ RdoutHandler(p) => mem' = [mem EXCEPT ![p].arg = TreeArg(p)]
      BY DEF RdinHandler, RdoutHandler
    <3>3. HeredocOpen(p) => mem' = mem \/ mem' = [mem EXCEPT ![p].arg = TreeArg(p)]
      BY DEF HeredocOpen
    <3> QED
      BY <1>1, <1>2, <1>4, <3>1, <3>2, <3>3 DEF Memory
  <2>3. Top(p).op # "close_pipe"
    BY <1>4 DEF PipeHeredoc, RedirectionFails, RdinHandler, RdoutHandler, HeredocOpen,
       HeredocChild, Openable, Redirects, At
  <2> QED
    BY <2>1, <2>2, <2>3
<1>5. ASSUME NEW code, Exit(p, code)  PROVE FALSE
  <2>1. st'[p] \notin {"run", "stop"}
    BY <1>5 DEF Exit, End
  <2> QED
    BY <2>1
<1>6. ASSUME ResetData(p)  PROVE Unmoved
  <2>1. /\ fd' = [fd EXCEPT ![p].in = Tty, ![p].out = Tty] /\ Top(p).op = "reset"
        /\ mem' = [mem EXCEPT ![p].arg = 0]
    BY <1>5, <1>6 DEF ResetData, At
  <2> QED
    BY <1>1, <1>2, <2>1 DEF Descriptors, Memory
<1>7. ASSUME WaitStopped(p)  PROVE Unmoved
  BY <1>7, WaitStoppedKeeps DEF Same, WaitStopped, At
<1>8. ASSUME ExecCmd(p) \/ ForkLeft(p) \/ ForkRight(p)  PROVE Unmoved
  <2>1. PICK c, b, a : c \in FreePid /\ Fork(p, c, b, a)
    BY <1>8 DEF ExecCmd, ForkLeft, ForkRight
  <2>2. c # p /\ fd'[p] = fd[p] /\ mem'[p] = mem[p]
    BY <2>1, <1>1, <1>8 DEF Fork, FreePid, ExecCmd, External, ForkLeft, ForkRight, At
  <2>3. Top(p).op # "close_pipe"
    BY <1>8 DEF ExecCmd, External, ForkLeft, ForkRight, At
  <2> QED
    BY <2>2, <2>3
<1>9. ASSUME HeredocHandler(p)  PROVE Unmoved
  <2>1. PICK c \in FreePid :
          /\ fd' = [fd EXCEPT ![p].in = Tty, ![p].leak = @ + 1,
                              ![c] = [fd[p] EXCEPT !.in = Tty]]
          /\ mem' = [mem EXCEPT ![c] = mem[p]]
    BY <1>9 DEF HeredocHandler
  <2>2. c # p /\ Top(p).op = "bst"
    BY <1>9 DEF HeredocHandler, Openable, Redirects, At, FreePid
  <2> QED
    BY <2>1, <2>2, <1>1, <1>2 DEF Descriptors
<1>10. ASSUME \/ CommandNotFound(p) \/ ChildExit(p) \/ OpenFails(p) \/ OutOfResources(p)
              \/ ProgramEnds(p) \/ EndOfFile(p) \/ BrokenPipe(p)
              \/ EndOfInput(p) \/ HeredocEnd(p) \/ TypedEnd(p)
       PROVE  FALSE
  BY <1>5, <1>10 DEF CommandNotFound, ChildExit, OpenFails, OutOfResources, EndOfFile,
     ProgramEnds, BrokenPipe, EndOfInput, HeredocEnd, TypedEnd
<1> QED
  BY <1>3, <1>4, <1>6, <1>7, <1>8, <1>9, <1>10 DEF Step, Types
(* Who sets the terminal. *)
LEMMA TerminalForms ==
  ASSUME IInv, NEW p \in Pid, Step(p) \/ Types(p)
  PROVE  tty' = tty \/ ReadLine(p) \/ ResetData(p)
<1>1. ASSUME \/ WaitEnded(p) \/ WaitStopped(p) \/ SigintIgnore(p) \/ SigintRestore(p)
             \/ ChildRestoreSignals(p) \/ ExecBuiltin(p) \/ ExecCmd(p) \/ Execve(p)
             \/ CommandNotFound(p) \/ PipeSyntaxError(p) \/ PipeHandler(p)
             \/ PipeHeredoc(p) \/ ForkLeft(p) \/ ForkRight(p) \/ ClosePipe(p)
      PROVE  tty' = tty
  BY <1>1 DEF WaitEnded, WaitStopped, SigintIgnore, SigintRestore, ChildRestoreSignals,
     ExecBuiltin, ExecCmd, Execve, CommandNotFound, PipeSyntaxError, PipeHandler,
     PipeHeredoc, ForkLeft, ForkRight, ClosePipe, user
<1>2. ASSUME \/ LeftChild(p) \/ RightChild(p) \/ ChildExit(p) \/ RedirectionError(p)
             \/ RedirectionFails(p) \/ OpenFails(p) \/ RdinHandler(p) \/ RdoutHandler(p)
             \/ HeredocHandler(p) \/ HeredocOpen(p) \/ HeredocChild(p) \/ OutOfResources(p)
             \/ ProgramEnds(p) \/ ProgramReads(p) \/ EndOfFile(p) \/ Writes(p)
             \/ BrokenPipe(p) \/ EndOfInput(p) \/ HeredocLine(p) \/ HeredocEnd(p)
             \/ TypedEnd(p)
      PROVE  tty' = tty
  BY <1>2 DEF LeftChild, RightChild, ChildExit, RedirectionError, RedirectionFails,
     OpenFails, RdinHandler, RdoutHandler, HeredocHandler, HeredocOpen, HeredocChild,
     OutOfResources, ProgramEnds, ProgramReads, EndOfFile, Writes, BrokenPipe, EndOfInput,
     HeredocLine, HeredocEnd, TypedEnd, user
<1> QED
  BY <1>1, <1>2 DEF Step, Types

LEMMA ResetForms ==
  ASSUME IInv, NEW p \in Pid, Step(p) \/ Types(p), Top(p).op = "reset"
  PROVE  ResetData(p)
<1>1. /\ ~ WaitEnded(p) /\ ~ WaitStopped(p) /\ ~ SigintIgnore(p) /\ ~ SigintRestore(p)
      /\ ~ ChildRestoreSignals(p) /\ ~ ExecBuiltin(p) /\ ~ ExecCmd(p) /\ ~ Execve(p)
      /\ ~ CommandNotFound(p) /\ ~ PipeSyntaxError(p) /\ ~ PipeHandler(p)
      /\ ~ PipeHeredoc(p) /\ ~ ForkLeft(p) /\ ~ ForkRight(p) /\ ~ ClosePipe(p)
  BY DEF WaitEnded, WaitStopped, SigintIgnore, SigintRestore, ChildRestoreSignals,
     ExecBuiltin, Builtin, ExecCmd, External, Execve, CommandNotFound, PipeSyntaxError,
     PipeHandler, PipeHeredoc, ForkLeft, ForkRight, ClosePipe, At
<1>2. /\ ~ LeftChild(p) /\ ~ RightChild(p) /\ ~ ChildExit(p) /\ ~ RedirectionError(p)
      /\ ~ RedirectionFails(p) /\ ~ OpenFails(p) /\ ~ RdinHandler(p) /\ ~ RdoutHandler(p)
      /\ ~ HeredocHandler(p) /\ ~ HeredocOpen(p) /\ ~ HeredocChild(p) /\ ~ OutOfResources(p)
      /\ ~ ProgramEnds(p) /\ ~ ProgramReads(p) /\ ~ EndOfFile(p) /\ ~ Writes(p)
      /\ ~ BrokenPipe(p) /\ ~ EndOfInput(p) /\ ~ HeredocLine(p) /\ ~ HeredocEnd(p)
      /\ ~ TypedEnd(p) /\ ~ ReadLine(p)
  BY DEF LeftChild, RightChild, ChildExit, RedirectionError, RedirectionFails,
     OpenFails, RdinHandler, RdoutHandler, HeredocHandler, HeredocOpen, HeredocChild,
     OutOfResources, External, ProgramEnds, Finished, ProgramReads, Reading, EndOfFile,
     Writes, Writing, BrokenPipe, EndOfInput, HeredocLine, HeredocEnd, TypedEnd, ReadLine,
     Openable, Redirects, At
<1> QED
  BY <1>1, <1>2 DEF Step, Types

(* pipe_handler() leaves the frame that will fork below those it runs.     *)
LEMMA PipeHandlerCloses ==
  ASSUME IInv, NEW p \in Pid, PipeHandler(p)
  PROVE  Closes(todo'[p])
<1>1. st[p] = "run" /\ Top(p).op = "bst" /\ Top(p).op \in NodeOp
  BY DEF PipeHandler, At, NodeOp
<1>2. /\ LeftBst(p) \in Seq(Frame) /\ RightBst(p) \in Seq(Frame)
      /\ Top(p).lo \in Nat /\ Top(p).hi \in Nat /\ todo[p] \in Seq(Frame) /\ todo[p] # <<>>
  BY <1>1, PartOps, RunningFrame DEF Frame
<1> DEFINE node(op) == <<On(op, Top(p).lo, Top(p).hi, Nobody)>>
           left == node("heredoc_left") \o LeftBst(p) \o node("heredoc_left_end")
           right == node("heredoc_right") \o RightBst(p) \o node("heredoc_right_end")
           x == IF LeftKind(p) = "HEREDOC" THEN left ELSE <<>>
           y == IF RightKind(p) = "HEREDOC" THEN right ELSE <<>>
           f == On("fork_left", Top(p).lo, Top(p).hi, Nobody)
           u == x \o y
           v == <<f>>
           a == u \o v
           s == todo[p]
           t == todo'[p]
<1>3. ASSUME NEW op \in CallOp  PROVE node(op) \in Seq(Frame)
  <2> DEFINE g == On(op, Top(p).lo, Top(p).hi, Nobody)
  <2>1. g \in Frame
    BY <1>2 DEF Frame, On, FrameOp, CallOp
  <2> HIDE DEF g
  <2>2. <<g>> \in Seq(Frame)
    BY <2>1
  <2> QED
    BY <2>2 DEF g
<1>4. f \in Frame /\ f.op = "fork_left"
  BY <1>2 DEF Frame, On, FrameOp
<1>5. t = a \o Tail(s)
  BY DEF PipeHandler, Return, IInv, TypeOK
<1>6. {"heredoc_left", "heredoc_left_end", "heredoc_right", "heredoc_right_end"}
        \subseteq CallOp
  BY DEF CallOp
<1> HIDE DEF node, f, s, t
<1>7. left \in Seq(Frame) /\ right \in Seq(Frame) /\ <<>> \in Seq(Frame)
  BY <1>2, <1>3, <1>6, EmptySeq
<1> HIDE DEF left, right
<1>8. u \in Seq(Frame)
  BY <1>7
<1> HIDE DEF u, x, y
<1>9. v \in Seq(Frame) /\ Len(v) = 1 /\ v[1] = f
  BY <1>4
<1> HIDE DEF v
<1>10. /\ a \in Seq(Frame) /\ Len(u) \in Nat /\ Len(a) = Len(u) + Len(v)
       /\ \A i \in 1 .. Len(u) + Len(v) : a[i] = IF i <= Len(u) THEN u[i] ELSE v[i - Len(u)]
  BY <1>8, <1>9, ConcatProperties, LenProperties
<1> HIDE DEF a
<1> DEFINE k == Len(u) + 1
<1>11. k \in 1 .. Len(a) /\ a[k] = f
  <2>1. k \in 1 .. Len(u) + Len(v) /\ ~ (k <= Len(u)) /\ k - Len(u) = 1
    BY <1>9, <1>10
  <2> QED
    BY <2>1, <1>9, <1>10
<1> HIDE DEF k
<1>12. k \in 1 .. Len(t) /\ t[k] = a[k]
  <2>1. s \in Seq(Frame) /\ s # <<>>
    BY <1>2 DEF s
  <2> QED
    BY <2>1, <1>5, <1>10, <1>11, Pushed
<1>13. Closes(t)
  BY <1>4, <1>11, <1>12 DEF Closes, ClosingOp
<1> QED
  BY <1>13 DEF t
(***************************************************************************)
(* Home is inductive.                                                      *)
(***************************************************************************)
LEMMA ClosesPush ==
  ASSUME NEW s \in Seq(Frame), s # <<>>, NEW a \in Seq(Frame), NEW t, t = a \o Tail(s),
         Closes(s), s[1].op # "close_pipe",
         s[1].op = "fork_left" => a # <<>> /\ a[1].op = "fork_right",
         s[1].op = "fork_right" => a # <<>> /\ a[1].op = "close_pipe"
  PROVE  Closes(t)
<1>1. /\ Len(a) \in Nat /\ Len(s) \in Nat
      /\ \A i \in 1 .. Len(a) : i \in 1 .. Len(t) /\ t[i] = a[i]
      /\ \A i \in 2 .. Len(s) : Len(a) + i - 1 \in 1 .. Len(t) /\ t[Len(a) + i - 1] = s[i]
      /\ a = <<>> <=> Len(a) = 0
  BY Pushed, EmptySeq
<1>2. PICK i \in 1 .. Len(s) : s[i].op \in ClosingOp
  BY DEF Closes
<1>3. CASE i = 1
  <2>1. a # <<>> /\ a[1].op \in ClosingOp
    BY <1>2, <1>3 DEF ClosingOp
  <2>2. 1 \in 1 .. Len(t) /\ t[1] = a[1]
    BY <2>1, <1>1
  <2> QED
    BY <2>1, <2>2 DEF Closes
<1>4. CASE i # 1
  <2>1. i \in 2 .. Len(s)
    BY <1>1, <1>4
  <2> QED
    BY <2>1, <1>1, <1>2 DEF Closes
<1> QED
  BY <1>3, <1>4

(* The shell's own step, when it stays. *)
LEMMA HomeStep ==
  ASSUME IInv, Home, Step(Shell) \/ Types(Shell), st'[Shell] \in {"run", "stop"}
  PROVE  ShellStack(todo'[Shell]) /\ Handled' /\ Owned'
<1> DEFINE s == todo[Shell]
           t == todo'[Shell]
<1>1. /\ Shell \in Pid /\ st[Shell] = "run" /\ Shell \in Living
      /\ fd \in [Pid -> Descriptors] /\ mem \in [Pid -> Memory] /\ sig \in [Pid -> Signals]
      /\ todo \in [Pid -> Seq(Frame)]
  BY ProcessAssumption, Stepping DEF Living, IInv, TypeOK
<1>2. ShellStack(s) /\ Handled /\ Owned
  BY <1>1 DEF Home
<1>3. /\ s \in Seq(Frame) /\ s # <<>> /\ Top(Shell) = s[1] /\ Len(s) \in Nat /\ Len(s) >= 1
      /\ s[1].op \in LastOp <=> Len(s) = 1
  BY <1>1, RunningFrame
<1>4. /\ 1 \in 1 .. Len(s) /\ (s[1].op \in LastOp => s[1].op = "prompt")
      /\ s[1].op \notin {"child", "left", "right"}
  BY <1>2, <1>3 DEF ShellStack
<1>5. Top(Shell)' = Head(t)
  BY DEF Top
<1>6. ASSUME ReadLine(Shell)  PROVE ShellStack(t) /\ Handled' /\ Owned'
  <2>1. ShellStack(t) /\ Len(t) >= 2 /\ t[1].op \notin Waited
    BY <1>1, <1>6, ShellStackReadLine
  <2>2. s[1].op = "prompt" /\ sig' = sig /\ fd' = fd
    BY <1>3, <1>6 DEF ReadLine, At
  <2>3. Head(t).op \notin Waited
    <3>1. Head(t) = t[1]
      OBVIOUS
    <3> QED
      BY <2>1, <3>1
  <2>4. Handled'
    BY <1>2, <1>3, <1>5, <2>2, <2>3 DEF Handled, Waited
  <2>5. mem'[Shell].r = mem[Shell].r /\ mem'[Shell].w = mem[Shell].w
    <3>1. PICK line : mem' = [mem EXCEPT ![Shell].line = line]
      BY <1>6 DEF ReadLine
    <3> QED
      BY <3>1, <1>1 DEF Memory
  <2>6. ~ Closes(s)
    <3>1. Len(s) = 1
      BY <1>3, <2>2 DEF LastOp
    <3> QED
      BY <2>2, <3>1 DEF Closes, ClosingOp
  <2>7. mem[Shell].r = NoPipe
    BY <1>2, <2>6 DEF Owned
  <2>8. t \in Seq(Frame) /\ Len(t) # 1
    <3> HIDE DEF t
    <3>1. t \in Seq(Frame)
      <4>1. IInv'
        BY <1>1, <1>6, NextOK DEF Types, Next
      <4> QED
        BY <1>1, <4>1 DEF t, IInv, TypeOK
    <3> DEFINE n == Len(t)
    <3>2. n \in Nat /\ n >= 2
      BY <2>1, <3>1, LenProperties
    <3> HIDE DEF n
    <3>3. n # 1
      BY <3>2
    <3> QED
      BY <3>1, <3>3 DEF n
  <2>9. Owned'
    BY <1>2, <2>2, <2>5, <2>7, <2>8 DEF Owned
  <2> QED
    BY <2>1, <2>4, <2>9
<1>7. ASSUME WaitStopped(Shell)  PROVE ShellStack(t) /\ Handled' /\ Owned'
  <2>1. Same(Shell) /\ tty' = tty
    BY <1>1, <1>7, WaitStoppedKeeps DEF WaitStopped, user
  <2> QED
    BY <1>2, <2>1 DEF Same, Handled, Owned, Top
<1>8. ~ HeredocLine(Shell)
  BY <1>3, <1>4 DEF HeredocLine, At, LastOp
<1>9. ASSUME NEW a, Pushes(Shell, a)  PROVE ShellStack(t) /\ Handled' /\ Owned'
  <2>1. /\ a \in Seq(Frame) /\ t = a \o Tail(s) /\ s[1].op # "prompt"
        /\ OnlyOps(a, PushedOp) /\ Linked(a) /\ (a # <<>> => s[1].op \in PushingOp)
        /\ \A i \in 1 .. Len(a) : a[i].op = "close_pipe" => i = 1
        /\ s[1].op = "fork_left" => a # <<>> /\ a[1].op = "fork_right"
        /\ s[1].op = "fork_right" => a # <<>> /\ a[1].op = "close_pipe"
    BY <1>3, <1>9 DEF Pushes
  <2> HIDE DEF s, t
  <2>2. Len(s) >= 2 /\ s[1].op \notin LastOp
    <3>1. s[1].op \notin LastOp /\ Len(s) # 1
      BY <1>3, <1>4, <2>1
    <3> DEFINE n == Len(s)
    <3>2. n \in Nat /\ n >= 1 /\ n # 1
      BY <1>3, <3>1
    <3> HIDE DEF n
    <3>3. n >= 2
      BY <3>2
    <3> QED
      BY <3>1, <3>3 DEF n
  <2>3. ShellStack(t)
    BY <1>2, <1>3, <2>1, <2>2, ShellStackPush
  <2>4. a # <<>> => s[1].op \notin Waits \cup Waited
    BY <2>1 DEF PushingOp, Waits, Waited, LastOp, ProgramOp, ProgramKind
  <2>5. t # <<>> /\ (t[1].op \in Waited <=> a = <<>> /\ s[1].op \in Waits)
    BY <1>2, <1>3, <2>1, <2>2, <2>4, ChainedPush DEF ShellStack
  <2>6. Top(Shell)'.op = t[1].op /\ Top(Shell).op = s[1].op
    BY <1>3, <1>5
  <2>7. Handled'
    <3>1. CASE SigintIgnore(Shell)
      <4>1. s[1].op = "ignore" /\ sig' = [sig EXCEPT ![Shell].old = sig[Shell].int, ![Shell].int = "ignore"]
        BY <2>6, <3>1 DEF SigintIgnore, At
      <4>2. t[1].op \in Waited /\ s[1].op \notin Waited
        BY <2>4, <2>5, <4>1 DEF Waits, Waited
      <4> QED
        BY <4>1, <4>2, <1>1, <1>2, <2>6 DEF Handled, Signals
    <3>2. CASE SigintRestore(Shell)
      <4>1. s[1].op = "restore" /\ sig' = [sig EXCEPT ![Shell].int = sig[Shell].old, ![Shell].old = "default"]
        BY <2>6, <3>2 DEF SigintRestore, At
      <4>2. t[1].op \notin Waited /\ s[1].op \in Waited
        BY <2>5, <4>1 DEF Waits, Waited
      <4> QED
        BY <4>1, <4>2, <1>1, <1>2, <2>6 DEF Handled, Signals
    <3>3. CASE sig'[Shell] = sig[Shell] /\ Top(Shell).op \notin {"ignore", "restore"}
      <4>1. t[1].op \in Waited <=> s[1].op \in Waited
        BY <2>4, <2>5, <2>6, <3>3 DEF Waits, Waited
      <4> QED
        BY <3>3, <4>1, <1>2, <2>6 DEF Handled
    <3>4. Top(Shell).op \notin {"child", "exec", "heredoc_child"}
      BY <1>4, <2>2, <2>6 DEF LastOp, ProgramOp
    <3> QED
      BY <1>1, <3>1, <3>2, <3>3, <3>4, SignalForms
  <2>8. /\ fd'[Shell].rd \subseteq {mem'[Shell].r} /\ fd'[Shell].wr \subseteq {mem'[Shell].w}
        /\ mem'[Shell].r = mem'[Shell].w /\ (mem'[Shell].r # NoPipe => Closes(t))
    <3>1. CASE PipeHandler(Shell)
      <4>1. s[1].op = "bst" /\ Top(Shell).op = "bst" /\ KindAt(Shell) = "PIPE"
        BY <2>6, <3>1 DEF PipeHandler, At
      <4>2. ~ PipeBelow(s)
        BY <1>1, <4>1, PipeIsOutermost DEF s
      <4>3. ~ Closes(s)
        <5>1. \A i \in 1 .. Len(s) : s[i].op = "close_pipe" => i = 1
          BY <1>2 DEF ShellStack
        <5>2. \A i \in 1 .. Len(s) : i = 1 \/ i \in 2 .. Len(s)
          BY <1>3
        <5> QED
          BY <4>1, <4>2, <5>1, <5>2 DEF Closes, ClosingOp, PipeBelow, PipeOp
      <4>4. fd[Shell].rd = {} /\ fd[Shell].wr = {}
        <5>1. fd[Shell].rd \subseteq PipeId /\ fd[Shell].wr \subseteq PipeId
          BY <1>1 DEF Descriptors
        <5> QED
          BY <5>1, <4>3, <1>2, ObjectAssumption DEF Owned, s
      <4>5. PICK q : /\ fd' = [fd EXCEPT ![Shell].rd = @ \cup {q}, ![Shell].wr = @ \cup {q}]
                     /\ mem' = [mem EXCEPT ![Shell].r = q, ![Shell].w = q]
        BY <3>1 DEF PipeHandler
      <4>6. /\ fd'[Shell].rd = {q} /\ fd'[Shell].wr = {q}
            /\ mem'[Shell].r = q /\ mem'[Shell].w = q
        BY <4>4, <4>5, <1>1 DEF Descriptors, Memory
      <4> QED
        BY <4>6, <3>1, <1>1, PipeHandlerCloses DEF t
    <3>2. CASE ClosePipe(Shell)
      <4>1. /\ fd' = [fd EXCEPT ![Shell].rd = @ \ {mem[Shell].r}, ![Shell].wr = @ \ {mem[Shell].w}]
            /\ mem' = [mem EXCEPT ![Shell].r = NoPipe, ![Shell].w = NoPipe]
        BY <3>2 DEF ClosePipe
      <4> QED
        BY <4>1, <1>1, <1>2 DEF Owned, Descriptors, Memory
    <3>3. CASE /\ mem'[Shell].r = mem[Shell].r /\ mem'[Shell].w = mem[Shell].w
               /\ fd'[Shell].rd = fd[Shell].rd /\ fd'[Shell].wr = fd[Shell].wr
               /\ Top(Shell).op # "close_pipe"
      <4>1. Closes(s) => Closes(t)
        BY <1>3, <2>1, <2>6, <3>3, ClosesPush
      <4> QED
        BY <3>3, <4>1, <1>2 DEF Owned, s
    <3>4. ~ LeftChild(Shell) /\ ~ RightChild(Shell)
      BY <1>4, <2>6 DEF LeftChild, RightChild, At
    <3> QED
      BY <1>1, <3>1, <3>2, <3>3, <3>4, PipeForms
  <2>9. ASSUME Len(t) = 1
        PROVE  /\ fd'[Shell].in = Tty /\ fd'[Shell].out = Tty /\ mem'[Shell].arg = 0
               /\ tty' = "current"
    <3>1. Len(s) = 2
      <4>1. Len(a) \in Nat /\ Len(t) = Len(a) + Len(s) - 1
        BY <1>3, <2>1, Pushed
      <4> DEFINE n == Len(s)
                 m == Len(a)
      <4>2. n \in Nat /\ m \in Nat /\ n >= 2 /\ m + n - 1 = 1
        BY <4>1, <2>2, <2>9, <1>3
      <4> HIDE DEF n, m
      <4>3. n = 2
        BY <4>2
      <4> QED
        BY <4>3 DEF n
    <3>2. s[1].op = "reset"
      <4>1. 1 = Len(s) - 1
        BY <3>1
      <4> QED
        BY <4>1, <1>2, <1>4 DEF ShellStack
    <3>3. ResetData(Shell)
      BY <1>1, <2>6, <3>2, ResetForms
    <3>4. ~ mem[Shell].exit
      <4>1. mem[Shell].exit => \E code : Exit(Shell, code)
        BY <3>3 DEF ResetData
      <4>2. ASSUME NEW code, Exit(Shell, code)  PROVE FALSE
        <5>1. st'[Shell] \notin {"run", "stop"}
          BY <4>2, <1>1 DEF Exit, End
        <5> QED
          BY <5>1
      <4> QED
        BY <4>1, <4>2
    <3>5. /\ fd' = [fd EXCEPT ![Shell].in = Tty, ![Shell].out = Tty]
          /\ mem' = [mem EXCEPT ![Shell].arg = 0] /\ tty' = "current"
      BY <3>3, <3>4 DEF ResetData
    <3> QED
      BY <3>5, <1>1 DEF Descriptors, Memory
  <2>10. Owned'
    BY <2>8, <2>9 DEF Owned, t
  <2> QED
    BY <2>3, <2>7, <2>10
<1> QED
  BY <1>1, <1>6, <1>7, <1>8, <1>9, StackForms
(* No process but the shell ever returns to the prompt loop.               *)
LEMMA NoPromptPush ==
  ASSUME NEW s \in Seq(Frame), s # <<>>, NEW a \in Seq(Frame), NEW t, t = a \o Tail(s),
         NoPrompt(s), OnlyOps(a, PushedOp)
  PROVE  NoPrompt(t)
<1>1. /\ Len(a) \in Nat /\ Len(s) \in Nat
      /\ \A i \in 1 .. Len(t) :
           \/ i \in 1 .. Len(a) /\ t[i] = a[i]
           \/ i - Len(a) + 1 \in 2 .. Len(s) /\ t[i] = s[i - Len(a) + 1]
  BY Pushed
<1>2. \A k : k \in 2 .. Len(s) => k \in 1 .. Len(s)
  BY <1>1
<1>3. \A i \in 1 .. Len(a) : a[i].op \notin {"prompt", "reset"}
  BY DEF OnlyOps, PushedOp
<1>4. ASSUME NEW i \in 1 .. Len(t)  PROVE t[i].op \notin {"prompt", "reset"}
  <2>1. CASE i \in 1 .. Len(a) /\ t[i] = a[i]
    BY <2>1, <1>3
  <2>2. CASE i - Len(a) + 1 \in 2 .. Len(s) /\ t[i] = s[i - Len(a) + 1]
    <3> DEFINE k == i - Len(a) + 1
    <3>1. k \in 1 .. Len(s) /\ t[i] = s[k]
      BY <2>2, <1>2
    <3> HIDE DEF k
    <3> QED
      BY <3>1 DEF NoPrompt
  <2> QED
    BY <2>1, <2>2, <1>1
<1> QED
  BY <1>4 DEF NoPrompt

LEMMA NoLoopStep ==
  ASSUME IInv, NoLoop, NEW p \in Pid, Step(p) \/ Types(p)
  PROVE  NoLoop'
<1> SUFFICES ASSUME NEW q \in Pid \ {Shell}, st'[q] \in {"run", "stop"}
             PROVE  NoPrompt(todo'[q])
  BY DEF NoLoop, Living, NoPrompt
<1>1. /\ st[p] = "run" /\ todo \in [Pid -> Seq(Frame)]
      /\ st \in [Pid -> {"none", "run", "stop", "zombie"}]
  BY Stepping DEF IInv, TypeOK
<1>2. CASE st[q] = "none"
  BY <1>2, NewStack
<1>3. CASE st[q] # "none" /\ q # p
  <2>1. st'[q] = st[q] /\ Same(q)
    BY <1>3, OthersKept
  <2> QED
    BY <2>1 DEF Same, NoLoop, Living
<1>4. CASE q = p
  <2>1. NoPrompt(todo[p]) /\ todo[p] \in Seq(Frame) /\ todo[p] # <<>>
    BY <1>1, <1>4, RunningFrame DEF NoLoop, Living
  <2>2. ~ ReadLine(p)
    <3>1. Len(todo[p]) \in Nat /\ Len(todo[p]) >= 1 /\ Top(p) = todo[p][1]
      BY <1>1, RunningFrame
    <3>2. 1 \in 1 .. Len(todo[p])
      BY <3>1
    <3> QED
      BY <2>1, <3>1, <3>2 DEF ReadLine, At, NoPrompt
  <2>3. CASE WaitStopped(p)
    BY <2>1, <2>3, <1>4, WaitStoppedKeeps DEF Same
  <2>4. CASE HeredocLine(p)
    BY <2>1, <2>4, <1>4 DEF HeredocLine
  <2>5. ASSUME NEW a, Pushes(p, a)  PROVE NoPrompt(todo'[q])
    <3> DEFINE s == todo[p]
               t == todo'[p]
    <3>1. /\ s \in Seq(Frame) /\ s # <<>> /\ a \in Seq(Frame) /\ t = a \o Tail(s)
          /\ NoPrompt(s) /\ OnlyOps(a, PushedOp)
      BY <2>1, <2>5 DEF Pushes
    <3> HIDE DEF s, t
    <3>2. NoPrompt(t)
      BY <3>1, NoPromptPush
    <3> QED
      BY <3>2, <1>4 DEF t
  <2> QED
    BY <2>2, <2>3, <2>4, <2>5, <1>4, StackForms
<1> QED
  BY <1>2, <1>3, <1>4

(* A step of another process leaves the shell as it is. *)
LEMMA HomeOthers ==
  ASSUME IInv, Home, NoLoop, NEW p \in Pid \ {Shell}, Step(p) \/ Types(p)
  PROVE  Home'
<1> SUFFICES ASSUME st'[Shell] \in {"run", "stop"}
             PROVE  ShellStack(todo'[Shell]) /\ Handled' /\ Owned'
  BY DEF Home, Living
<1>1. Shell \in Pid /\ st[p] = "run" /\ st \in [Pid -> {"none", "run", "stop", "zombie"}]
  BY ProcessAssumption, Stepping DEF IInv, TypeOK
<1>2. st[Shell] # "none"
  BY <1>1, NewStack
<1>3. st'[Shell] = st[Shell] /\ Same(Shell)
  BY <1>1, <1>2, OthersKept
<1>4. tty' = tty
  <2>1. Len(todo[p]) \in Nat /\ Len(todo[p]) >= 1 /\ Top(p) = todo[p][1]
    BY <1>1, RunningFrame
  <2>2. NoPrompt(todo[p]) /\ 1 \in 1 .. Len(todo[p])
    BY <1>1, <2>1 DEF NoLoop, Living
  <2>3. Top(p).op \notin {"prompt", "reset"}
    BY <2>1, <2>2 DEF NoPrompt
  <2> QED
    BY <2>3, TerminalForms DEF ReadLine, ResetData, At
<1>5. ShellStack(todo[Shell]) /\ Handled /\ Owned
  BY <1>1, <1>3 DEF Home, Living
<1> QED
  BY <1>3, <1>4, <1>5 DEF Same, Handled, Owned, Top

(* A key ends processes or stops them, and changes no other. *)
LEMMA SignalsKeep ==
  ASSUME IInv, CtrlC \/ CtrlBackslash \/ CtrlZ
  PROVE  /\ tty' = tty
         /\ \A q \in Pid : st'[q] \in {"run", "stop"} => q \in Living /\ Same(q)
<1>1. ASSUME CtrlC  PROVE tty' = tty /\ \A q \in Pid :
                       st'[q] \in {"run", "stop"} => st'[q] = st[q] /\ Same(q)
  <2> DEFINE hit == {q \in Running : sig[q].int \in {"default", "heredoc"}}
             status == [q \in hit |-> IF sig[q].int = "heredoc" THEN Exited(1) ELSE Killed(SIGINT)]
  <2>1. hit \in SUBSET Pid /\ status \in [hit -> Nat] /\ End(status) /\ tty' = tty
    BY <1>1, StatusIsNat DEF CtrlC, Running
  <2> HIDE DEF hit, status
  <2> QED
    BY <2>1, EndKeeps
<1>2. ASSUME CtrlBackslash  PROVE tty' = tty /\ \A q \in Pid :
                       st'[q] \in {"run", "stop"} => st'[q] = st[q] /\ Same(q)
  <2> DEFINE hit == {q \in Running : sig[q].job = "default"}
             status == [q \in hit |-> Killed(SIGQUIT)]
  <2>1. hit \in SUBSET Pid /\ status \in [hit -> Nat] /\ End(status) /\ tty' = tty
    BY <1>2, StatusIsNat DEF CtrlBackslash, Running
  <2> HIDE DEF hit, status
  <2> QED
    BY <2>1, EndKeeps
<1>3. ASSUME CtrlZ  PROVE tty' = tty /\ \A q \in Pid :
                       st'[q] \in {"run", "stop"} => q \in Living /\ Same(q)
  BY <1>3 DEF CtrlZ, Running, Living, Same
<1> QED
  BY <1>1, <1>2, <1>3 DEF Living

(* No key ends, stops or changes the shell. *)
LEMMA HomeSignals ==
  ASSUME IInv, Home, NoLoop, CtrlC \/ CtrlBackslash \/ CtrlZ
  PROVE  Home' /\ NoLoop'
<1>1. /\ tty' = tty
      /\ \A q \in Pid : st'[q] \in {"run", "stop"} => q \in Living /\ Same(q)
  BY SignalsKeep
<1>2. Home'
  <2> SUFFICES ASSUME st'[Shell] \in {"run", "stop"}
               PROVE  ShellStack(todo'[Shell]) /\ Handled' /\ Owned'
    BY DEF Home, Living
  <2>1. Shell \in Living /\ Same(Shell)
    BY <1>1, ProcessAssumption
  <2> QED
    BY <2>1, <1>1 DEF Home, Same, Handled, Owned, Top
<1>3. NoLoop'
  <2> SUFFICES ASSUME NEW q \in Pid \ {Shell}, st'[q] \in {"run", "stop"}
               PROVE  NoPrompt(todo'[q])
    BY DEF NoLoop, Living, NoPrompt
  <2> QED
    BY <1>1 DEF NoLoop, Same
<1> QED
  BY <1>2, <1>3

LEMMA HomeInit == Init => NoLoop /\ Home
<1> SUFFICES ASSUME Init PROVE NoLoop /\ Home
  OBVIOUS
<1>1. Shell \in Pid /\ Living \subseteq {Shell}
  BY ProcessAssumption DEF Init, Living
<1>2. NoLoop
  BY <1>1 DEF NoLoop
<1>3. /\ todo[Shell] = <<Do("prompt")>> /\ sig[Shell] = ShellSignals
      /\ fd[Shell] = Closed /\ mem[Shell] = Blank /\ tty = "current"
  BY <1>1 DEF Init
<1> DEFINE f == Do("prompt")
<1>4. f.op = "prompt"
  BY DEF Do, On
<1>5. todo[Shell] = <<f>>
  BY <1>3
<1> HIDE DEF f
<1>6. Len(todo[Shell]) = 1 /\ todo[Shell][1] = f /\ Top(Shell) = f
  BY <1>5 DEF Top
<1>7. ShellStack(todo[Shell])
  BY <1>4, <1>6 DEF ShellStack, Chained
<1>8. Handled
  BY <1>3, <1>4, <1>6 DEF Handled, ShellSignals, Waited
<1>9. Owned
  BY <1>3 DEF Owned, Closed, Blank
<1> QED
  BY <1>2, <1>7, <1>8, <1>9 DEF Home

LEMMA HomeNext == IInv /\ NoLoop /\ Home /\ [Next]_vars => NoLoop' /\ Home'
<1> SUFFICES ASSUME IInv, NoLoop, Home, [Next]_vars PROVE NoLoop' /\ Home'
  OBVIOUS
<1>1. ASSUME NEW p \in Pid, Step(p) \/ Types(p)  PROVE NoLoop' /\ Home'
  <2>1. CASE p = Shell
    <3>1. st'[Shell] \in {"run", "stop"} => ShellStack(todo'[Shell]) /\ Handled' /\ Owned'
      BY <1>1, <2>1, HomeStep
    <3>2. Home'
      BY <3>1 DEF Home, Living
    <3> QED
      BY <1>1, <3>2, NoLoopStep
  <2>2. CASE p # Shell
    BY <1>1, <2>2, HomeOthers, NoLoopStep
  <2> QED
    BY <2>1, <2>2
<1>2. CASE UNCHANGED vars
  BY <1>2 DEF vars, procs, user, NoLoop, Home, Living, Handled, Owned, Top
<1> QED
  BY <1>1, <1>2, HomeSignals DEF Next, Over

(* Every reachable state satisfies NoLoop and Home: the invariant behind   *)
(* the two theorems below.                                                 *)
THEOREM AtHome == Spec => [](IInv /\ Kin /\ NoLoop /\ Home)
<1>1. Init => NoLoop /\ Home
  BY HomeInit
<1>2. (IInv /\ Kin) /\ (NoLoop /\ Home) /\ [Next]_vars => (NoLoop /\ Home)'
  BY HomeNext
<1> QED
  BY <1>1, <1>2, Kinship, PTL DEF Spec

(* The shell never loses its Ctrl-C handler: it is caught, or ignored with *)
(* the handler saved for the sigint_restore() that is still on the stack;  *)
(* so it is caught at every prompt, whatever line was run and whichever    *)
(* signals came.                                                           *)
THEOREM HandlerKept == Spec => []ShellHandler
<1>1. Home => ShellHandler
  BY ProcessAssumption DEF Home, Living, Handled, Waited, ShellHandler
<1> QED
  BY <1>1, AtHome, PTL

(* Whatever the last line did, the prompt finds the shell as it started:   *)
(* its own descriptors, no pipe end, no pending argument, the terminal in  *)
(* its own mode, and no child left.                                        *)
THEOREM PromptRestored == Spec => []PromptClean
<1>1. IInv /\ Kin /\ Home => PromptClean
  <2> SUFFICES ASSUME IInv, Kin, Home, AtPrompt
               PROVE  /\ [fd[Shell] EXCEPT !.leak = 0] = Closed
                      /\ mem[Shell].r = NoPipe /\ mem[Shell].w = NoPipe /\ mem[Shell].arg = 0
                      /\ tty = "current"
                      /\ \A p \in Pid : st[p] # "none" => par[p] # Shell
    BY DEF PromptClean
  <2>1. /\ Shell \in Pid /\ st[Shell] = "run" /\ Shell \in Living /\ Top(Shell).op = "prompt"
        /\ fd[Shell] \in Descriptors
    BY ProcessAssumption DEF AtPrompt, At, Living, IInv, TypeOK
  <2>2. /\ Len(todo[Shell]) = 1 /\ todo[Shell][1].op = "prompt"
    BY <2>1, RunningFrame DEF LastOp
  <2>3. Owned /\ ~ Closes(todo[Shell])
    BY <2>1, <2>2 DEF Home, Closes, ClosingOp
  <2>4. mem[Shell].r = NoPipe /\ mem[Shell].w = NoPipe
    BY <2>3 DEF Owned
  <2>5. fd[Shell].rd = {} /\ fd[Shell].wr = {}
    BY <2>1, <2>3, <2>4, ObjectAssumption DEF Owned, Descriptors
  <2>6. fd[Shell].in = Tty /\ fd[Shell].out = Tty /\ mem[Shell].arg = 0 /\ tty = "current"
    BY <2>2, <2>3 DEF Owned
  <2>7. [fd[Shell] EXCEPT !.leak = 0] = Closed
    BY <2>1, <2>5, <2>6 DEF Descriptors, Closed
  <2>8. ASSUME NEW p \in Pid, st[p] # "none", par[p] = Shell  PROVE FALSE
    <3>1. WaitsFor(todo[Shell], p)
      BY <2>1, <2>8 DEF Kin, Matched, IsChild
    <3> QED
      BY <3>1, <2>2 DEF WaitsFor, Awaits
  <2> QED
    BY <2>4, <2>6, <2>7, <2>8
<1> QED
  BY <1>1, AtHome, PTL
=============================================================================
