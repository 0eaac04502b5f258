------------------------------ MODULE PipeProofs ------------------------------
(***************************************************************************)
(* Theorems about the pipes of a line and about its status in Executor,    *)
(* for every value of the constants: NoSelfFeed, ArgumentsOwnStage and,    *)
(* as long as fork and pipe succeed, StatusOfLast and PromptAlone.         *)
(*                                                                         *)
(* A pipe reaches descriptor 0 through right_child() and pipe_heredoc(),   *)
(* and its write end may be open in three places: descriptor 1, sh->pipe   *)
(* of the process, and sh->pipe of the shell, that forked it.  The         *)
(* invariant follows each of the three.                                    *)
(*                                                                         *)
(* The status of a line comes to the shell through the processes that run  *)
(* its right sides, one waiting for the other.  The invariant (Spine) is   *)
(* that these processes exist and what each of them still owes.            *)
(***************************************************************************)
EXTENDS ExecutorProofs, FiniteSetTheorems

(***************************************************************************)
(* The invariant.                                                          *)
(***************************************************************************)
Holds(s, O) == \E i \in 1 .. Len(s) : s[i].op \in O
HoldsBelow(s, O) == \E i \in 2 .. Len(s) : s[i].op \in O

(* Where pipe_heredoc() may have put the pipe in descriptor 0: from its    *)
(* dup2 to the one that follows recurse_bst(), before heredoc_handler()    *)
(* has put the terminal back.                                              *)
Excused(s, line) ==
  \/ s[1].op = "heredoc_right_end"
  \/ /\ s[1].op = "bst" /\ Kind(line, s[1].lo, s[1].hi) = "HEREDOC"
     /\ Len(s) >= 2 /\ s[2].op = "heredoc_right_end"

(* Between the two dup2 calls of pipe_heredoc(), the node it runs.         *)
Between(f, node, end, line) ==
  /\ node.op = "bst"
  /\ f.op = "heredoc_left" => end.op = "heredoc_left_end"
  /\ f.op = "heredoc_right" =>
       end.op = "heredoc_right_end" /\ Kind(line, node.lo, node.hi) = "HEREDOC"
Bracket(s, line, i) == i + 2 <= Len(s) /\ Between(s[i], s[i + 1], s[i + 2], line)
DupOp == {"heredoc_left", "heredoc_right"}
Bracketed(s, line) == \A i \in 1 .. Len(s) : s[i].op \in DupOp => Bracket(s, line, i)

(* A process does not hold the write end of the pipe it reads or is about  *)
(* to read.                                                                *)
ForkOp == {"fork_left", "fork_right", "right"}
LeftEnd == {"heredoc_left_end"}
Unshared(s, m, f) ==
  /\ f.in \in PipeId => (f.in \notin f.wr /\ f.out # f.in) \/ Excused(s, m.line)
  /\ Holds(s, PipeOp) => m.r = m.w
  /\ Holds(s, ForkOp) /\ ~ Holds(s, LeftEnd) => f.out # m.r
  /\ Holds(s, {"heredoc_child"}) => Len(s) = 1 /\ f.in \notin PipeId
  /\ Bracketed(s, m.line)
Separate == \A p \in Living : Unshared(todo[p], mem[p], fd[p])

(* In the shell, a pipe is descriptor 0 or 1 only inside pipe_heredoc().   *)
Attached ==
  Shell \in Living =>
    /\ fd[Shell].in \notin PipeId \/ Excused(todo[Shell], mem[Shell].line)
    /\ fd[Shell].out \in PipeId =>
         fd[Shell].out = mem[Shell].w /\ Holds(todo[Shell], LeftEnd)

(* The shell has no write end of a pipe that another process reads or is   *)
(* to read, but when it is about to close it.                              *)
TakeOp == PipeOp \ {"left"}
Sources(p) == {fd[p].in} \cup (IF Holds(todo[p], TakeOp) THEN {mem[p].r} ELSE {})
Unfed ==
  Shell \in Living /\ Top(Shell).op # "close_pipe" =>
    \A p \in Living \ {Shell} : Sources(p) \cap fd[Shell].wr = {}

(***************************************************************************)
(* Stacks.                                                                 *)
(***************************************************************************)
LEMMA HoldsTop ==
  ASSUME NEW s \in Seq(Frame), s # <<>>, NEW O
  PROVE  Holds(s, O) <=> s[1].op \in O \/ HoldsBelow(s, O)
<1>1. Len(s) \in Nat /\ Len(s) >= 1
  BY LenProperties, EmptySeq
<1>2. /\ 1 \in 1 .. Len(s) /\ \A i \in 2 .. Len(s) : i \in 1 .. Len(s)
      /\ \A i \in 1 .. Len(s) : i = 1 \/ i \in 2 .. Len(s)
  BY <1>1
<1> QED
  BY <1>2 DEF Holds, HoldsBelow

LEMMA HoldsPush ==
  ASSUME NEW s \in Seq(Frame), s # <<>>, NEW a \in Seq(Frame), NEW t, t = a \o Tail(s),
         NEW O
  PROVE  Holds(t, O) <=> Holds(a, O) \/ HoldsBelow(s, O)
<1>1. /\ \A i \in 1 .. Len(a) : i \in 1 .. Len(t) /\ t[i] = a[i]
      /\ \A i \in 2 .. Len(s) : Len(a) + i - 1 \in 1 .. Len(t) /\ t[Len(a) + i - 1] = s[i]
      /\ \A i \in 1 .. Len(t) :
           \/ i \in 1 .. Len(a) /\ t[i] = a[i]
           \/ i - Len(a) + 1 \in 2 .. Len(s) /\ t[i] = s[i - Len(a) + 1]
  BY Pushed
<1> QED
  BY <1>1 DEF Holds, HoldsBelow

LEMMA BracketedConcat ==
  ASSUME NEW u \in Seq(Frame), NEW v \in Seq(Frame), NEW t, t = u \o v,
         NEW line, Bracketed(u, line), Bracketed(v, line)
  PROVE  t \in Seq(Frame) /\ Bracketed(t, line)
<1>1. /\ t \in Seq(Frame) /\ Len(u) \in Nat /\ Len(v) \in Nat /\ Len(t) = Len(u) + Len(v)
      /\ \A i \in 1 .. Len(u) + Len(v) : t[i] = IF i <= Len(u) THEN u[i] ELSE v[i - Len(u)]
  BY ConcatProperties, LenProperties
<1>2. ASSUME NEW i \in 1 .. Len(t), t[i].op \in DupOp  PROVE Bracket(t, line, i)
  <2>1. CASE i <= Len(u)
    <3>1. i \in 1 .. Len(u) /\ t[i] = u[i]
      BY <1>1, <2>1
    <3>2. Bracket(u, line, i)
      BY <1>2, <3>1 DEF Bracketed
    <3>3. i + 2 <= Len(u) /\ i + 1 \in 1 .. Len(t) /\ i + 2 \in 1 .. Len(t) /\ i + 2 <= Len(t)
      BY <1>1, <3>1, <3>2 DEF Bracket
    <3>4. t[i + 1] = u[i + 1] /\ t[i + 2] = u[i + 2]
      BY <1>1, <3>3
    <3> QED
      BY <3>1, <3>2, <3>3, <3>4 DEF Bracket
  <2>2. CASE ~ (i <= Len(u))
    <3> DEFINE k == i - Len(u)
    <3>1. k \in 1 .. Len(v) /\ i = Len(u) + k /\ t[i] = v[k]
      BY <1>1, <2>2
    <3> HIDE DEF k
    <3>2. Bracket(v, line, k)
      BY <1>2, <3>1 DEF Bracketed
    <3> DEFINE m == Len(u)
               n == Len(v)
    <3>x. m \in Nat /\ n \in Nat /\ k \in 1 .. n /\ i = m + k /\ Len(t) = m + n /\ k + 2 <= n
      BY <1>1, <3>1, <3>2 DEF Bracket
    <3> HIDE DEF m, n
    <3>y. /\ i + 1 \in 1 .. m + n /\ i + 2 \in 1 .. m + n
          /\ (i + 1) - m = k + 1 /\ (i + 2) - m = k + 2
          /\ ~ (i + 1 <= m) /\ ~ (i + 2 <= m) /\ i + 2 <= m + n
      BY <3>x
    <3>3. /\ i + 1 \in 1 .. Len(t) /\ i + 2 \in 1 .. Len(t) /\ i + 2 <= Len(t)
          /\ (i + 1) - Len(u) = k + 1 /\ (i + 2) - Len(u) = k + 2
          /\ ~ (i + 1 <= Len(u)) /\ ~ (i + 2 <= Len(u))
      BY <3>x, <3>y DEF m, n
    <3>4. t[i + 1] = v[k + 1] /\ t[i + 2] = v[k + 2]
      BY <1>1, <3>3
    <3> QED
      BY <3>1, <3>2, <3>3, <3>4 DEF Bracket
  <2> QED
    BY <2>1, <2>2
<1> QED
  BY <1>1, <1>2 DEF Bracketed

LEMMA BracketedTail ==
  ASSUME NEW s \in Seq(Frame), s # <<>>, NEW line, Bracketed(s, line)
  PROVE  Tail(s) \in Seq(Frame) /\ Bracketed(Tail(s), line)
<1> DEFINE r == Tail(s)
<1>1. /\ r \in Seq(Frame) /\ Len(r) = Len(s) - 1 /\ Len(s) \in Nat
      /\ \A i \in 1 .. Len(s) - 1 : r[i] = s[i + 1]
  BY HeadTailProperties, LenProperties
<1> HIDE DEF r
<1>2. ASSUME NEW i \in 1 .. Len(r), r[i].op \in DupOp  PROVE Bracket(r, line, i)
  <2> DEFINE k == i + 1
  <2>1. k \in 1 .. Len(s) /\ r[i] = s[k]
    BY <1>1
  <2>2. Bracket(s, line, k)
    BY <1>2, <2>1 DEF Bracketed
  <2>3. /\ k + 2 <= Len(s) /\ i + 2 <= Len(r)
        /\ i + 1 \in 1 .. Len(s) - 1 /\ i + 2 \in 1 .. Len(s) - 1
        /\ (i + 1) + 1 = k + 1 /\ (i + 2) + 1 = k + 2
    BY <1>1, <2>2 DEF Bracket
  <2>4. r[i + 1] = s[k + 1] /\ r[i + 2] = s[k + 2]
    BY <1>1, <2>3
  <2> QED
    BY <2>1, <2>2, <2>3, <2>4 DEF Bracket
<1>3. Bracketed(r, line)
  BY <1>2 DEF Bracketed
<1> QED
  BY <1>1, <1>3 DEF r

LEMMA BracketedPush ==
  ASSUME NEW s \in Seq(Frame), s # <<>>, NEW a \in Seq(Frame), NEW t, t = a \o Tail(s),
         NEW line, Bracketed(s, line), Bracketed(a, line)
  PROVE  Bracketed(t, line)
<1> DEFINE r == Tail(s)
<1>1. r \in Seq(Frame) /\ Bracketed(r, line) /\ t = a \o r
  BY BracketedTail
<1> HIDE DEF r
<1> QED
  BY <1>1, BracketedConcat

(* pipe_handler() runs a node that is a here-document between the two dup2 *)
(* calls of pipe_heredoc().                                                *)
LEMMA BracketOf ==
  ASSUME NEW f \in Frame, NEW b \in Seq(Frame), NEW g \in Frame, NEW line,
         f.op \in DupOp, Len(b) = 1, b[1].op = "bst",
         g.op = IF f.op = "heredoc_left" THEN "heredoc_left_end" ELSE "heredoc_right_end",
         f.op = "heredoc_right" => Kind(line, b[1].lo, b[1].hi) = "HEREDOC"
  PROVE  /\ <<f>> \o b \o <<g>> \in Seq(Frame) /\ Bracketed(<<f>> \o b \o <<g>>, line)
         /\ ~ Holds(<<f>> \o b \o <<g>>, ForkOp)
<1> DEFINE x == <<f>>
           z == <<g>>
           u == x \o b
           t == u \o z
<1>1. x \in Seq(Frame) /\ Len(x) = 1 /\ x[1] = f /\ z \in Seq(Frame) /\ Len(z) = 1 /\ z[1] = g
  OBVIOUS
<1> HIDE DEF x, z
<1>2. /\ u \in Seq(Frame) /\ Len(u) = Len(x) + Len(b)
      /\ \A i \in 1 .. Len(x) + Len(b) : u[i] = IF i <= Len(x) THEN x[i] ELSE b[i - Len(x)]
  BY <1>1, ConcatProperties
<1> HIDE DEF u
<1>3. Len(u) = 2 /\ u[1] = f /\ u[2] = b[1]
  BY <1>1, <1>2
<1>t. t = u \o z /\ u \in Seq(Frame) /\ z \in Seq(Frame)
  BY <1>1, <1>2
<1> HIDE DEF t
<1>4. /\ t \in Seq(Frame) /\ Len(t) = Len(u) + Len(z)
      /\ \A i \in 1 .. Len(u) + Len(z) : t[i] = IF i <= Len(u) THEN u[i] ELSE z[i - Len(u)]
  BY <1>t, ConcatProperties
<1>5. Len(t) = 3 /\ t[1] = f /\ t[2] = b[1] /\ t[3] = g
  BY <1>1, <1>3, <1>4
<1>6. \A i \in 1 .. Len(t) : t[i].op \in DupOp => i = 1
  <2>1. \A i \in 1 .. 3 : i = 1 \/ i = 2 \/ i = 3
    OBVIOUS
  <2> QED
    BY <1>5, <2>1 DEF DupOp
<1>7. Bracket(t, line, 1)
  <2>1. Between(f, b[1], g, line)
    BY DEF Between, DupOp
  <2>2. 1 + 1 = 2 /\ 1 + 2 = 3
    OBVIOUS
  <2> QED
    BY <1>5, <2>1, <2>2 DEF Bracket
<1>8. ~ Holds(t, ForkOp)
  <2>1. \A i \in 1 .. 3 : i = 1 \/ i = 2 \/ i = 3
    OBVIOUS
  <2> QED
    BY <1>5, <2>1 DEF DupOp, Holds, ForkOp
<1>9. t \in Seq(Frame) /\ Bracketed(t, line) /\ ~ Holds(t, ForkOp)
  BY <1>4, <1>6, <1>7, <1>8 DEF Bracketed
<1> QED
  BY <1>9 DEF t, u, x, z

LEMMA PipeHandlerPush ==
  ASSUME IInv, NEW p \in Pid, PipeHandler(p)
  PROVE  \E a \in Seq(Frame) :
           /\ todo'[p] = a \o Tail(todo[p])
           /\ Bracketed(a, mem[p].line) /\ ~ Holds(a, {"heredoc_child"})
<1>1. st[p] = "run" /\ Top(p).op = "bst" /\ Top(p).op \in NodeOp
  BY DEF PipeHandler, At, NodeOp
<1>2. /\ Top(p).lo \in 1 .. Top(p).hi /\ Top(p).lo \in Nat /\ Top(p).hi \in Nat
      /\ RootAt(p) \in Top(p).lo .. Top(p).hi
      /\ LeftBst(p) \in Seq(Frame) /\ RightBst(p) \in Seq(Frame)
  BY <1>1, NodeParts, RunningFrame DEF Frame
<1> DEFINE line == mem[p].line
           f(op) == On(op, Top(p).lo, Top(p).hi, Nobody)
           left == <<f("heredoc_left")>> \o LeftBst(p) \o <<f("heredoc_left_end")>>
           right == <<f("heredoc_right")>> \o RightBst(p) \o <<f("heredoc_right_end")>>
           x == IF LeftKind(p) = "HEREDOC" THEN left ELSE <<>>
           y == IF RightKind(p) = "HEREDOC" THEN right ELSE <<>>
           u == x \o y
           v == <<f("fork_left")>>
           a == u \o v
<1>3. ASSUME NEW op \in CallOp  PROVE f(op) \in Frame /\ f(op).op = op
  BY <1>2 DEF Frame, On, FrameOp, CallOp
<1>4. todo'[p] = a \o Tail(todo[p])
  BY DEF PipeHandler, Return, IInv, TypeOK
<1>5. /\ LeftKind(p) = "HEREDOC" =>
           /\ Len(LeftBst(p)) = 1 /\ LeftBst(p)[1].op = "bst"
           /\ Kind(line, LeftBst(p)[1].lo, LeftBst(p)[1].hi) = "HEREDOC"
      /\ RightKind(p) = "HEREDOC" =>
           /\ Len(RightBst(p)) = 1 /\ RightBst(p)[1].op = "bst"
           /\ Kind(line, RightBst(p)[1].lo, RightBst(p)[1].hi) = "HEREDOC"
  <2>1. ASSUME NEW lo, NEW hi, Kind(line, lo, hi) = "HEREDOC"
        PROVE  /\ Len(Bst(lo, hi)) = 1 /\ Bst(lo, hi)[1].op = "bst"
               /\ Kind(line, Bst(lo, hi)[1].lo, Bst(lo, hi)[1].hi) = "HEREDOC"
    <3>1. ~ (lo > hi)
      BY <2>1 DEF Kind
    <3> DEFINE g == On("bst", lo, hi, Nobody)
    <3>2. Bst(lo, hi) = <<g>>
      BY <3>1 DEF Bst
    <3>3. g.op = "bst" /\ g.lo = lo /\ g.hi = hi
      BY DEF On
    <3> HIDE DEF g
    <3>4. Len(Bst(lo, hi)) = 1 /\ Bst(lo, hi)[1] = g
      BY <3>2
    <3> QED
      BY <2>1, <3>3, <3>4
  <2> QED
    BY <2>1 DEF LeftKind, RightKind, LeftBst, RightBst
<1>6. {"heredoc_left", "heredoc_left_end", "heredoc_right", "heredoc_right_end",
       "fork_left"} \subseteq CallOp
  BY DEF CallOp
<1> HIDE DEF line, f
<1>7. LeftKind(p) = "HEREDOC" => left \in Seq(Frame) /\ Bracketed(left, line)
  <2> HAVE LeftKind(p) = "HEREDOC"
  <2> DEFINE g == f("heredoc_left")
             h == f("heredoc_left_end")
  <2>1. g \in Frame /\ g.op = "heredoc_left" /\ h \in Frame /\ h.op = "heredoc_left_end"
    BY <1>3, <1>6
  <2> HIDE DEF g, h
  <2>2. g.op \in DupOp
    BY <2>1 DEF DupOp
  <2>3. <<g>> \o LeftBst(p) \o <<h>> \in Seq(Frame) /\ Bracketed(<<g>> \o LeftBst(p) \o <<h>>, line)
    BY <1>2, <1>5, <2>1, <2>2, BracketOf
  <2> QED
    BY <2>3 DEF g, h
<1>8. RightKind(p) = "HEREDOC" => right \in Seq(Frame) /\ Bracketed(right, line)
  <2> HAVE RightKind(p) = "HEREDOC"
  <2> DEFINE g == f("heredoc_right")
             h == f("heredoc_right_end")
  <2>1. g \in Frame /\ g.op = "heredoc_right" /\ h \in Frame /\ h.op = "heredoc_right_end"
    BY <1>3, <1>6
  <2> HIDE DEF g, h
  <2>2. g.op \in DupOp
    BY <2>1 DEF DupOp
  <2>3. <<g>> \o RightBst(p) \o <<h>> \in Seq(Frame) /\ Bracketed(<<g>> \o RightBst(p) \o <<h>>, line)
    BY <1>2, <1>5, <2>1, <2>2, BracketOf
  <2> QED
    BY <2>3 DEF g, h
<1>9. <<>> \in Seq(Frame) /\ Bracketed(<<>>, line)
  BY EmptySeq DEF Bracketed
<1> HIDE DEF left, right
<1>10. x \in Seq(Frame) /\ Bracketed(x, line) /\ y \in Seq(Frame) /\ Bracketed(y, line)
  BY <1>7, <1>8, <1>9
<1> HIDE DEF x, y
<1>11. u \in Seq(Frame) /\ Bracketed(u, line)
  BY <1>10, BracketedConcat
<1> HIDE DEF u
<1>12. v \in Seq(Frame) /\ Bracketed(v, line)
  <2> DEFINE g == f("fork_left")
  <2>1. g \in Frame /\ g.op = "fork_left"
    BY <1>3, <1>6
  <2> HIDE DEF g
  <2>2. <<g>> \in Seq(Frame) /\ Len(<<g>>) = 1 /\ <<g>>[1] = g
    BY <2>1
  <2>3. Bracketed(<<g>>, line)
    BY <2>1, <2>2 DEF Bracketed, DupOp
  <2> QED
    BY <2>2, <2>3 DEF g
<1> HIDE DEF v
<1>13. a \in Seq(Frame) /\ Bracketed(a, line)
  BY <1>11, <1>12, BracketedConcat
<1> HIDE DEF a
<1>14. PICK b \in Seq(Frame) : todo' = Return(p, b) /\ OnlyOps(b, CallOp)
  BY PipeHandlerCalls DEF Calls
<1>15. a = b
  <2>1. todo'[p] = b \o Tail(todo[p])
    BY <1>14 DEF Return, IInv, TypeOK
  <2> DEFINE r == Tail(todo[p])
  <2>2. r \in Seq(Frame) /\ a \o r = b \o r
    BY <1>1, <1>4, <2>1, RunningFrame, HeadTailProperties
  <2> HIDE DEF r
  <2>3. /\ Len(a \o r) = Len(a) + Len(r) /\ Len(b \o r) = Len(b) + Len(r)
        /\ \A i \in 1 .. Len(a) + Len(r) : (a \o r)[i] = IF i <= Len(a) THEN a[i] ELSE r[i - Len(a)]
        /\ \A i \in 1 .. Len(b) + Len(r) : (b \o r)[i] = IF i <= Len(b) THEN b[i] ELSE r[i - Len(b)]
    BY <1>13, <2>2, ConcatProperties
  <2>4. Len(a) \in Nat /\ Len(b) \in Nat /\ Len(r) \in Nat /\ Len(a) = Len(b)
    BY <1>13, <2>2, <2>3, LenProperties
  <2>5. \A i \in 1 .. Len(a) : a[i] = b[i]
    BY <2>2, <2>3, <2>4
  <2> QED
    BY <1>13, <2>4, <2>5, SeqEqual
<1>16. ~ Holds(a, {"heredoc_child"})
  BY <1>14, <1>15 DEF OnlyOps, CallOp, Holds
<1> QED
  BY <1>4, <1>13, <1>16 DEF line
(***************************************************************************)
(* What a step does to descriptors 0 and 1.                                *)
(***************************************************************************)
HeredocTop(p) == Top(p).op = "bst" /\ KindAt(p) = "HEREDOC"

(* p keeps its pipe and its line, and puts no pipe in descriptor 0 or 1;   *)
(* the handlers that must put something else there do.                     *)
Calm(p) ==
  /\ mem'[p].r = mem[p].r /\ mem'[p].w = mem[p].w /\ mem'[p].line = mem[p].line
  /\ fd'[p].wr = fd[p].wr
  /\ fd'[p].in = fd[p].in \/ fd'[p].in \notin PipeId
  /\ fd'[p].out = fd[p].out \/ fd'[p].out \notin PipeId
  /\ Top(p).op = "heredoc_left_end" => fd'[p].out \notin PipeId
  /\ Top(p).op = "heredoc_right_end" => fd'[p].in \notin PipeId
  /\ HeredocTop(p) => fd'[p].in \notin PipeId \/ todo'[p] = <<>> \o Tail(todo[p])
  /\ Top(p).op \notin DupOp \cup {"left", "right", "heredoc_child", "close_pipe"}
  /\ ~ PipeHandler(p)

LEMMA NotPipes ==
  /\ Tty \notin PipeId /\ \A f : f \in File \/ f \in Doc => f \notin PipeId
BY ObjectAssumption

LEMMA CalmForms ==
  ASSUME IInv, NEW p \in Pid, Step(p) \/ Types(p), st'[p] \in {"run", "stop"}
  PROVE  \/ PipeHandler(p) \/ ClosePipe(p) \/ LeftChild(p) \/ RightChild(p)
         \/ HeredocChild(p) \/ ReadLine(p)
         \/ PipeHeredoc(p) /\ Top(p).op \in DupOp
         \/ Calm(p)
<1>1. fd \in [Pid -> Descriptors] /\ mem \in [Pid -> Memory] /\ todo \in [Pid -> Seq(Frame)]
  BY DEF IInv, TypeOK
<1>2. fd[p] \in Descriptors /\ mem[p] \in Memory
  BY <1>1
<1> USE DEF HeredocTop, DupOp
<1>3. ASSUME NEW x, fd' = fd, mem'[p].line = mem[p].line,
             mem'[p].r = mem[p].r, mem'[p].w = mem[p].w, ~ PipeHandler(p),
             Top(p).op = x, x \notin {"heredoc_left_end", "heredoc_right_end", "left", "right",
                          "heredoc_child", "close_pipe"} \cup DupOp,
             HeredocTop(p) => todo'[p] = <<>> \o Tail(todo[p])
      PROVE  Calm(p)
  BY <1>3 DEF Calm
<1>4. ASSUME \/ SigintIgnore(p) \/ SigintRestore(p) \/ ChildRestoreSignals(p)
             \/ WaitEnded(p) \/ Execve(p) \/ ProgramReads(p) \/ Writes(p) \/ HeredocLine(p)
      PROVE  Calm(p)
  <2>1. fd' = fd
    BY <1>4 DEF SigintIgnore, SigintRestore, ChildRestoreSignals, WaitEnded, Execve,
       ProgramReads, Writes, HeredocLine
  <2>2. mem' = mem \/ \E g : mem' = [mem EXCEPT ![p].g = g]
    <3>1. SigintIgnore(p) \/ ChildRestoreSignals(p) \/ HeredocLine(p) \/ Execve(p)
          \/ ProgramReads(p) => mem' = mem
      BY DEF SigintIgnore, ChildRestoreSignals, HeredocLine, Execve, ProgramReads
    <3>2. SigintRestore(p) \/ WaitEnded(p) \/ Writes(p) => \E g : mem' = [mem EXCEPT ![p].g = g]
      BY <1>1, <1>2 DEF SigintRestore, WaitEnded, Writes
    <3> QED
      BY <1>4, <3>1, <3>2
  <2>3. Top(p).op \in {"ignore", "restore", "child", "wait", "exec", "copy", "head", "echo",
                       "put", "emit", "heredoc_input"}
    BY <1>4 DEF SigintIgnore, SigintRestore, ChildRestoreSignals, WaitEnded, Execve,
       ProgramReads, Reading, Writes, Writing, HeredocLine, At
  <2>4. mem'[p].line = mem[p].line /\ mem'[p].r = mem[p].r /\ mem'[p].w = mem[p].w
    BY <2>2, <1>1, <1>2 DEF Memory
  <2>5. ~ PipeHandler(p) /\ ~ HeredocTop(p)
    BY <2>3 DEF PipeHandler, At
  <2> QED
    BY <2>1, <2>3, <2>4, <2>5, <1>3
<1>5. ASSUME PipeSyntaxError(p) \/ ExecBuiltin(p) \/ RedirectionError(p)
      PROVE  Calm(p)
  <2>1. fd' = fd /\ Top(p).op = "bst" /\ st[p] = "run"
    BY <1>5 DEF PipeSyntaxError, ExecBuiltin, Builtin, RedirectionError, Redirects, At
  <2>2. mem'[p].line = mem[p].line /\ mem'[p].r = mem[p].r /\ mem'[p].w = mem[p].w
    <3>1. PipeSyntaxError(p) \/ RedirectionError(p) => \E g : mem' = [mem EXCEPT ![p].g = g]
      BY <1>1, <1>2 DEF PipeSyntaxError, RedirectionError
    <3>2. ExecBuiltin(p) => \/ mem' = mem \/ \E g : mem' = [mem EXCEPT ![p].g = g]
                            \/ \E g : mem' = [mem EXCEPT ![p].exit = TRUE, ![p].g = g]
      <4> HAVE ExecBuiltin(p)
      <4>1. CASE CommandKind(p) = "echo"
        BY <4>1 DEF ExecBuiltin
      <4>2. CASE CommandKind(p) = "exit"
        BY <4>2, <1>1, <1>2 DEF ExecBuiltin, Memory
      <4>3. CASE CommandKind(p) \notin {"echo", "exit"}
        BY <4>3 DEF ExecBuiltin
      <4> QED
        BY <4>1, <4>2, <4>3
    <3> QED
      BY <1>1, <1>2, <1>5, <3>1, <3>2 DEF Memory
  <2>3. ~ PipeHandler(p)
    BY <1>5 DEF PipeHandler, PipeSyntaxError, ExecBuiltin, Builtin, RedirectionError, Redirects
  <2>4. HeredocTop(p) => todo'[p] = <<>> \o Tail(todo[p])
    BY <1>1, <1>5 DEF PipeSyntaxError, ExecBuiltin, Builtin, RedirectionError, Return
  <2> QED
    BY <2>1, <2>2, <2>3, <2>4, <1>3
<1>6. ASSUME PipeHeredoc(p), Top(p).op \notin DupOp  PROVE Calm(p)
  <2>1. \/ Top(p).op = "heredoc_left_end" /\ fd' = [fd EXCEPT ![p].out = Tty]
        \/ Top(p).op = "heredoc_right_end" /\ fd' = [fd EXCEPT ![p].in = Tty]
    BY <1>6 DEF PipeHeredoc, At
  <2>2. mem' = mem /\ ~ PipeHandler(p)
    BY <2>1, <1>6 DEF PipeHeredoc, PipeHandler, At
  <2> QED
    BY <2>1, <2>2, <1>1, <1>2, NotPipes DEF Calm, Descriptors
<1>7. ASSUME RedirectionFails(p) \/ RdinHandler(p) \/ RdoutHandler(p)  PROVE Calm(p)
  <2>1. /\ Top(p).op = "bst" /\ ~ PipeHandler(p)
        /\ RdinHandler(p) \/ RdoutHandler(p) => ~ HeredocTop(p)
    BY <1>7 DEF RedirectionFails, RdinHandler, RdoutHandler, Openable, Redirects, PipeHandler, At
  <2>2. mem'[p].line = mem[p].line /\ mem'[p].r = mem[p].r /\ mem'[p].w = mem[p].w
    BY <1>1, <1>2, <1>7 DEF RedirectionFails, RdinHandler, RdoutHandler, Memory
  <2>3. CASE RedirectionFails(p)
    <3>1. fd' = [fd EXCEPT ![p].out = Tty, ![p].in = IF KindAt(p) = "HEREDOC" THEN Tty ELSE @]
      BY <2>3 DEF RedirectionFails
    <3>2. /\ fd'[p].wr = fd[p].wr /\ fd'[p].out = Tty
          /\ fd'[p].in = IF KindAt(p) = "HEREDOC" THEN Tty ELSE fd[p].in
      BY <3>1, <1>1, <1>2 DEF Descriptors
    <3> QED
      BY <3>2, <2>1, <2>2, NotPipes DEF Calm
  <2>4. CASE RdinHandler(p)
    <3>1. fd'[p].wr = fd[p].wr /\ fd'[p].out = fd[p].out /\ fd'[p].in \in File
      BY <2>4, <1>1, <1>2 DEF RdinHandler, IInv, TypeOK, Descriptors
    <3> QED
      BY <3>1, <2>1, <2>2, <2>4, NotPipes DEF Calm
  <2>5. CASE RdoutHandler(p)
    <3>1. Target(p) \in File
      <4>1. present' \in SUBSET File /\ Target(p) \in present'
        BY <1>7, <2>5, NextOK DEF RdoutHandler, Next, Step, IInv, TypeOK
      <4> QED
        BY <4>1
    <3>2. fd'[p].wr = fd[p].wr /\ fd'[p].in = fd[p].in /\ fd'[p].out = Target(p)
      BY <2>5, <1>1, <1>2 DEF RdoutHandler, Descriptors
    <3> QED
      BY <3>1, <3>2, <2>1, <2>2, <2>5, NotPipes DEF Calm
  <2> QED
    BY <1>7, <2>3, <2>4, <2>5
<1>8. ASSUME HeredocOpen(p)  PROVE Calm(p)
  <2>1. Top(p).op = "heredoc_open" /\ ~ PipeHandler(p)
    BY <1>8 DEF HeredocOpen, PipeHandler, At
  <2>2. mem'[p].line = mem[p].line /\ mem'[p].r = mem[p].r /\ mem'[p].w = mem[p].w
    BY <1>1, <1>2, <1>8 DEF HeredocOpen, Memory
  <2>3. CASE mem[p].g # 0 \/ tmp = NoDoc
    BY <1>8, <2>1, <2>2, <2>3 DEF HeredocOpen, Calm
  <2>4. CASE ~ (mem[p].g # 0 \/ tmp = NoDoc)
    <3>1. fd' = [fd EXCEPT ![p].in = IF RightKind(p) = "HEREDOC" THEN @ ELSE tmp] /\ tmp \in Doc
      BY <1>8, <2>4 DEF HeredocOpen, IInv, TypeOK
    <3>2. /\ fd'[p].wr = fd[p].wr /\ fd'[p].out = fd[p].out
          /\ fd'[p].in = IF RightKind(p) = "HEREDOC" THEN fd[p].in ELSE tmp
      BY <3>1, <1>1, <1>2 DEF Descriptors
    <3> QED
      BY <3>1, <3>2, <2>1, <2>2, NotPipes DEF Calm
  <2> QED
    BY <2>3, <2>4
<1>9. ASSUME NEW code, Exit(p, code)  PROVE FALSE
  <2>1. st'[p] \notin {"run", "stop"}
    BY <1>9 DEF Exit, End
  <2> QED
    BY <2>1
<1>10. ASSUME ResetData(p)  PROVE Calm(p)
  <2>1. /\ fd' = [fd EXCEPT ![p].in = Tty, ![p].out = Tty] /\ Top(p).op = "reset"
        /\ mem' = [mem EXCEPT ![p].arg = 0]
    BY <1>9, <1>10 DEF ResetData, At
  <2>2. ~ PipeHandler(p)
    BY <2>1 DEF PipeHandler, At
  <2>3. /\ fd'[p].wr = fd[p].wr /\ fd'[p].in = Tty /\ fd'[p].out = Tty
        /\ mem'[p].r = mem[p].r /\ mem'[p].w = mem[p].w /\ mem'[p].line = mem[p].line
    BY <1>1, <1>2, <2>1 DEF Descriptors, Memory
  <2> QED
    BY <2>1, <2>2, <2>3, NotPipes DEF Calm
<1>11. ASSUME WaitStopped(p)  PROVE Calm(p)
  <2>1. Same(p) /\ Top(p).op = "wait" /\ ~ PipeHandler(p)
    BY <1>11, WaitStoppedKeeps DEF WaitStopped, PipeHandler, At
  <2> QED
    BY <2>1 DEF Same, Calm
<1>12. ASSUME ExecCmd(p) \/ ForkLeft(p) \/ ForkRight(p)  PROVE Calm(p)
  <2>1. PICK c, b, a : c \in FreePid /\ Fork(p, c, b, a)
    BY <1>12 DEF ExecCmd, ForkLeft, ForkRight
  <2>2. st[p] = "run" /\ Top(p).op \in {"bst", "fork_left", "fork_right"} /\ ~ HeredocTop(p)
    BY <1>12 DEF ExecCmd, External, ForkLeft, ForkRight, At
  <2>3. c # p /\ fd'[p] = fd[p] /\ mem'[p] = mem[p]
    BY <2>1, <2>2, <1>1 DEF Fork, FreePid
  <2>4. ~ PipeHandler(p)
    BY <1>12 DEF PipeHandler, ExecCmd, External, ForkLeft, ForkRight, At
  <2> QED
    BY <2>2, <2>3, <2>4 DEF Calm
<1>13. ASSUME HeredocHandler(p)  PROVE Calm(p)
  <2>1. PICK c \in FreePid :
          /\ fd' = [fd EXCEPT ![p].in = Tty, ![p].leak = @ + 1,
                              ![c] = [fd[p] EXCEPT !.in = Tty]]
          /\ mem' = [mem EXCEPT ![c] = mem[p]]
    BY <1>13 DEF HeredocHandler
  <2>2. c # p /\ Top(p).op = "bst" /\ ~ PipeHandler(p)
    BY <1>13 DEF HeredocHandler, PipeHandler, Openable, Redirects, At, FreePid
  <2>3. /\ fd'[p].wr = fd[p].wr /\ fd'[p].in = Tty /\ fd'[p].out = fd[p].out
        /\ mem'[p] = mem[p]
    BY <2>1, <2>2, <1>1, <1>2 DEF Descriptors
  <2> QED
    BY <2>2, <2>3, NotPipes DEF Calm
<1>14. ASSUME \/ CommandNotFound(p) \/ ChildExit(p) \/ OpenFails(p) \/ OutOfResources(p)
              \/ ProgramEnds(p) \/ EndOfFile(p) \/ BrokenPipe(p)
              \/ EndOfInput(p) \/ HeredocEnd(p) \/ TypedEnd(p)
       PROVE  FALSE
  BY <1>9, <1>14 DEF CommandNotFound, ChildExit, OpenFails, OutOfResources, EndOfFile,
     ProgramEnds, BrokenPipe, EndOfInput, HeredocEnd, TypedEnd
<1> QED
  BY <1>4, <1>5, <1>6, <1>7, <1>8, <1>10, <1>11, <1>12, <1>13, <1>14 DEF Step, Types
(***************************************************************************)
(* Separate is inductive.                                                  *)
(***************************************************************************)
LEMMA PlainFrames ==
  ASSUME NEW a \in Seq(Frame), NEW O, OnlyOps(a, O), O = PlainOp \/ O = {"fork_right"},
         NEW line
  PROVE  /\ Bracketed(a, line)
         /\ ~ Holds(a, {"heredoc_child"}) /\ ~ Holds(a, LeftEnd)
         /\ O = PlainOp => ~ Holds(a, PipeOp) /\ ~ Holds(a, ForkOp)
BY DEF OnlyOps, PlainOp, PipeOp, FrameOp, Bracketed, DupOp, Holds, LeftEnd, ForkOp

LEMMA HeldPipe ==
  ASSUME IInv, NEW p \in Living, Holds(todo[p], PipeOp)
  PROVE  mem[p].r \in PipeId /\ mem[p].w \in PipeId /\ Open(mem[p], fd[p])
<1>1. StackOK(todo[p], mem[p], fd[p]) /\ p \in Pid /\ fd[p] \in Descriptors
  BY RunningFrame DEF Living, IInv, TypeOK
<1>2. Open(mem[p], fd[p])
  BY <1>1 DEF StackOK, Holds
<1> QED
  BY <1>1, <1>2 DEF Open, Descriptors

LEMMA ForkOpIsPipeOp ==
  ASSUME NEW s  PROVE Holds(s, ForkOp) \/ Holds(s, TakeOp) => Holds(s, PipeOp)
BY DEF Holds, ForkOp, PipeOp, TakeOp

(* The stack after p has replaced its top frame, in any handler but        *)
(* pipe_handler().                                                         *)
LEMMA PushShape ==
  ASSUME IInv, NEW p \in Pid, Unshared(todo[p], mem[p], fd[p]), ~ PipeHandler(p),
         NEW a, Pushes(p, a)
  PROVE  /\ \A P : Holds(todo[p], P) <=> Top(p).op \in P \/ HoldsBelow(todo[p], P)
         /\ \A P : HoldsBelow(todo[p], P) => Holds(todo'[p], P)
         /\ \A P \in {PipeOp, ForkOp, TakeOp} : Holds(todo'[p], P) =>
              HoldsBelow(todo[p], P) \/ Top(p).op = "fork_left"
         /\ Holds(todo'[p], LeftEnd) => HoldsBelow(todo[p], LeftEnd)
         /\ ~ Holds(todo'[p], {"heredoc_child"})
         /\ Bracketed(todo'[p], mem[p].line)
<1> DEFINE s == todo[p]
           t == todo'[p]
           line == mem[p].line
           O == IF Top(p).op = "fork_left" THEN {"fork_right"} ELSE PlainOp
<1>1. s \in Seq(Frame) /\ s # <<>> /\ Top(p) = s[1]
  BY RunningFrame DEF Pushes
<1>2. a \in Seq(Frame) /\ t = a \o Tail(s) /\ OnlyOps(a, O)
  BY DEF Pushes
<1>3. /\ Holds(s, {"heredoc_child"}) => Len(s) = 1
      /\ Bracketed(s, line)
  BY DEF Unshared
<1> HIDE DEF s, t, line
<1>4. /\ Bracketed(a, line) /\ ~ Holds(a, {"heredoc_child"}) /\ ~ Holds(a, LeftEnd)
      /\ Top(p).op # "fork_left" =>
           ~ Holds(a, PipeOp) /\ ~ Holds(a, ForkOp) /\ ~ Holds(a, TakeOp)
  BY <1>2, PlainFrames, ForkOpIsPipeOp
<1>5. ASSUME NEW P  PROVE /\ Holds(t, P) <=> Holds(a, P) \/ HoldsBelow(s, P)
                          /\ Holds(s, P) <=> Top(p).op \in P \/ HoldsBelow(s, P)
  BY <1>1, <1>2, HoldsPush, HoldsTop
<1>6. ~ Holds(t, {"heredoc_child"})
  <2>1. ASSUME Holds(t, {"heredoc_child"})  PROVE FALSE
    <3>1. HoldsBelow(s, {"heredoc_child"})
      BY <2>1, <1>4, <1>5
    <3>2. Len(s) = 1
      BY <3>1, <1>3, <1>5
    <3>3. 2 .. Len(s) = {}
      BY <3>2
    <3> QED
      BY <3>1, <3>3 DEF HoldsBelow
  <2> QED
    BY <2>1
<1>7. Bracketed(t, line)
  BY <1>1, <1>2, <1>3, <1>4, BracketedPush
<1>8. \A P \in {PipeOp, ForkOp, TakeOp} : Holds(t, P) => HoldsBelow(s, P) \/ Top(p).op = "fork_left"
  BY <1>4, <1>5
<1>9. Holds(t, LeftEnd) => HoldsBelow(s, LeftEnd)
  BY <1>4, <1>5
<1> QED
  BY <1>5, <1>6, <1>7, <1>8, <1>9 DEF s, t, line

(* The exception moves down with the node that pipe_heredoc() runs.        *)
LEMMA ExcusedCalm ==
  ASSUME IInv, NEW p \in Pid, Calm(p), NEW a, Pushes(p, a), fd'[p].in \in PipeId
  PROVE  /\ fd'[p].in = fd[p].in /\ mem'[p].line = mem[p].line
         /\ Excused(todo[p], mem[p].line) => Excused(todo'[p], mem[p].line)
<1> DEFINE s == todo[p]
           t == todo'[p]
           line == mem[p].line
           g == fd'[p]
<1>1. /\ p \in Living /\ s \in Seq(Frame) /\ s # <<>> /\ Top(p) = s[1]
      /\ Len(s) \in Nat /\ Len(s) >= 1
      /\ KindAt(p) = Kind(line, s[1].lo, s[1].hi)
  BY RunningFrame DEF Pushes, Living, KindAt
<1>2. /\ g.in = fd[p].in /\ mem'[p].line = line
      /\ s[1].op = "heredoc_right_end" => g.in \notin PipeId
      /\ s[1].op = "bst" /\ Kind(line, s[1].lo, s[1].hi) = "HEREDOC" =>
           g.in \notin PipeId \/ t = <<>> \o Tail(s)
  BY <1>1 DEF Calm, HeredocTop
<1>3. g.in \in PipeId
  OBVIOUS
<1> HIDE DEF s, t, line, g
<1>4. ASSUME Excused(s, line)  PROVE Excused(t, line)
  <2>1. /\ t = <<>> \o Tail(s) /\ s[2].op = "heredoc_right_end" /\ Len(s) >= 2
    BY <1>4, <1>2, <1>3 DEF Excused
  <2> DEFINE b == <<>>
  <2>2. b \in Seq(Frame) /\ Len(b) = 0 /\ t = b \o Tail(s)
    BY <2>1, EmptySeq
  <2> HIDE DEF b
  <2>3. \A i \in 2 .. Len(s) : Len(b) + i - 1 \in 1 .. Len(t) /\ t[Len(b) + i - 1] = s[i]
    BY <1>1, <2>2, Pushed
  <2>4. 2 \in 2 .. Len(s) /\ Len(b) + 2 - 1 = 1
    BY <1>1, <2>1, <2>2
  <2> QED
    BY <2>1, <2>3, <2>4 DEF Excused
<1> QED
  BY <1>2, <1>4 DEF s, t, line, g

LEMMA UnsharedCalm ==
  ASSUME IInv, NEW p \in Pid, Unshared(todo[p], mem[p], fd[p]), Calm(p),
         NEW a, Pushes(p, a)
  PROVE  Unshared(todo'[p], mem'[p], fd'[p])
<1> DEFINE s == todo[p]
           t == todo'[p]
           m == mem[p]
           f == fd[p]
           n == mem'[p]
           g == fd'[p]
           O == IF Top(p).op = "fork_left" THEN {"fork_right"} ELSE PlainOp
<1>1. /\ p \in Living /\ s \in Seq(Frame) /\ s # <<>> /\ Top(p) = s[1]
      /\ Len(s) \in Nat /\ Len(s) >= 1
  BY RunningFrame DEF Pushes, Living
<1>2. a \in Seq(Frame) /\ t = a \o Tail(s) /\ OnlyOps(a, O)
  BY DEF Pushes, Calm
<1>3. Holds(s, PipeOp) => m.r \in PipeId
  BY <1>1, HeldPipe
<1>4. /\ n.r = m.r /\ n.w = m.w /\ n.line = m.line /\ g.wr = f.wr
      /\ g.in = f.in \/ g.in \notin PipeId
      /\ g.out = f.out \/ g.out \notin PipeId
      /\ s[1].op = "heredoc_left_end" => g.out \notin PipeId
  BY <1>1, <1>3 DEF Calm, HeredocTop
<1>5. Unshared(s, m, f)
  OBVIOUS
<1> HIDE DEF s, t, m, f, n, g
<1>7. /\ \A P : Holds(s, P) <=> s[1].op \in P \/ HoldsBelow(s, P)
      /\ \A P : HoldsBelow(s, P) => Holds(t, P)
      /\ \A P \in {PipeOp, ForkOp} : Holds(t, P) => HoldsBelow(s, P) \/ s[1].op = "fork_left"
      /\ ~ Holds(t, {"heredoc_child"}) /\ Bracketed(t, m.line)
  BY <1>1, PushShape DEF s, t, m, Calm
<1>8. g.in \in PipeId => (g.in \notin g.wr /\ g.out # g.in) \/ Excused(t, n.line)
  <2> HAVE g.in \in PipeId
  <2>1. g.in = f.in /\ (Excused(s, m.line) => Excused(t, n.line))
    BY <1>4, ExcusedCalm DEF s, t, m, f, n, g
  <2> QED
    BY <2>1, <1>4, <1>5 DEF Unshared
<1>9. Holds(t, PipeOp) => n.r = n.w
  <2> HAVE Holds(t, PipeOp)
  <2>1. Holds(s, PipeOp)
    BY <1>7 DEF PipeOp
  <2> QED
    BY <2>1, <1>4, <1>5 DEF Unshared
<1>10. Holds(t, ForkOp) /\ ~ Holds(t, LeftEnd) => g.out # n.r
  <2> HAVE Holds(t, ForkOp) /\ ~ Holds(t, LeftEnd)
  <2>1. Holds(s, ForkOp)
    BY <1>7 DEF ForkOp
  <2>2. m.r \in PipeId
    BY <2>1, <1>3, ForkOpIsPipeOp
  <2>3. CASE s[1].op = "heredoc_left_end"
    BY <2>2, <2>3, <1>4
  <2>4. CASE s[1].op # "heredoc_left_end"
    <3>1. ~ Holds(s, LeftEnd)
      BY <2>4, <1>7 DEF LeftEnd
    <3> QED
      BY <2>1, <2>2, <3>1, <1>4, <1>5 DEF Unshared
  <2> QED
    BY <2>3, <2>4
<1>11. Unshared(t, n, g)
  BY <1>4, <1>7, <1>8, <1>9, <1>10 DEF Unshared
<1> QED
  BY <1>11 DEF t, n, g
(* ft_pipe() returns a pipe that nobody has.                               *)
LEMMA UnsharedPipeHandler ==
  ASSUME IInv, NEW p \in Pid, Unshared(todo[p], mem[p], fd[p]), PipeHandler(p)
  PROVE  Unshared(todo'[p], mem'[p], fd'[p])
<1> DEFINE s == todo[p]
           t == todo'[p]
           m == mem[p]
           f == fd[p]
           n == mem'[p]
           g == fd'[p]
<1>1. /\ st[p] = "run" /\ s \in Seq(Frame) /\ s # <<>> /\ Top(p) = s[1]
      /\ s[1].op = "bst" /\ KindAt(p) = "PIPE" /\ f \in Descriptors /\ m \in Memory
  BY RunningFrame DEF PipeHandler, At, IInv, TypeOK
<1>2. ~ Excused(s, m.line) /\ ~ PipeBelow(s)
  <2>1. KindAt(p) = Kind(m.line, s[1].lo, s[1].hi)
    BY <1>1 DEF KindAt
  <2> QED
    BY <1>1, <2>1, PipeIsOutermost DEF Excused
<1>3. PICK q \in FreePipe : /\ fd' = [fd EXCEPT ![p].rd = @ \cup {q}, ![p].wr = @ \cup {q}]
                            /\ mem' = [mem EXCEPT ![p].r = q, ![p].w = q]
  BY DEF PipeHandler
<1>4. /\ g.in = f.in /\ g.out = f.out /\ g.wr = f.wr \cup {q}
      /\ n.r = q /\ n.w = q /\ n.line = m.line
  BY <1>1, <1>3 DEF IInv, TypeOK, Descriptors, Memory
<1>5. f.in # q /\ f.out # q
  BY DEF FreePipe, Readers, Writers
<1>6. PICK a \in Seq(Frame) :
        t = a \o Tail(s) /\ Bracketed(a, m.line) /\ ~ Holds(a, {"heredoc_child"})
  BY PipeHandlerPush
<1>7. Unshared(s, m, f)
  OBVIOUS
<1> HIDE DEF s, t, m, f, n, g
<1>8. Bracketed(t, m.line)
  BY <1>1, <1>6, <1>7, BracketedPush DEF Unshared
<1>9. ~ Holds(t, {"heredoc_child"})
  <2> DEFINE P == {"heredoc_child"}
  <2>1. Holds(t, P) => HoldsBelow(s, P)
    BY <1>1, <1>6, HoldsPush
  <2>2. HoldsBelow(s, P) => Holds(s, P)
    BY <1>1, HoldsTop
  <2>3. Holds(s, P) => Len(s) = 1
    BY <1>7 DEF Unshared
  <2>4. Len(s) = 1 => 2 .. Len(s) = {}
    OBVIOUS
  <2>5. Len(s) = 1 => ~ HoldsBelow(s, P)
    BY <2>4 DEF HoldsBelow
  <2> QED
    BY <2>1, <2>2, <2>3, <2>5
<1>10. f.in \in PipeId => f.in \notin f.wr /\ f.out # f.in
  BY <1>2, <1>7 DEF Unshared
<1>11. Unshared(t, n, g)
  BY <1>4, <1>5, <1>8, <1>9, <1>10 DEF Unshared
<1> QED
  BY <1>11 DEF t, n, g

LEMMA UnsharedClosePipe ==
  ASSUME IInv, NEW p \in Pid, Unshared(todo[p], mem[p], fd[p]), ClosePipe(p),
         NEW a, Pushes(p, a)
  PROVE  Unshared(todo'[p], mem'[p], fd'[p])
<1> DEFINE s == todo[p]
           t == todo'[p]
           m == mem[p]
           f == fd[p]
           n == mem'[p]
           g == fd'[p]
<1>1. /\ Top(p) = s[1] /\ s[1].op = "close_pipe" /\ f \in Descriptors /\ m \in Memory
      /\ ~ PipeHandler(p) /\ st[p] = "run"
  BY RunningFrame DEF ClosePipe, PipeHandler, At, IInv, TypeOK
<1>2. ~ Excused(s, m.line) /\ ~ PipeBelow(s)
  BY <1>1, RunningFrame DEF Excused, KeepsPipe
<1>3. /\ g.in = f.in /\ g.out = f.out /\ g.wr \subseteq f.wr
      /\ n.r = n.w /\ n.line = m.line
  BY <1>1 DEF ClosePipe, IInv, TypeOK, Descriptors, Memory
<1>4. /\ ~ Holds(t, PipeOp) /\ ~ Holds(t, {"heredoc_child"}) /\ Bracketed(t, m.line)
  BY <1>1, <1>2, PushShape DEF PipeBelow, HoldsBelow
<1>5. Unshared(s, m, f)
  OBVIOUS
<1> HIDE DEF s, t, m, f, n, g
<1>6. ~ Holds(t, ForkOp)
  BY <1>4, ForkOpIsPipeOp
<1>7. Unshared(t, n, g)
  BY <1>2, <1>3, <1>4, <1>5, <1>6 DEF Unshared
<1> QED
  BY <1>7 DEF t, n, g

(* left_child() and right_child() close the end they do not use.           *)
LEMMA UnsharedSides ==
  ASSUME IInv, NEW p \in Pid, Unshared(todo[p], mem[p], fd[p]),
         LeftChild(p) \/ RightChild(p), NEW a, Pushes(p, a)
  PROVE  Unshared(todo'[p], mem'[p], fd'[p])
<1> DEFINE s == todo[p]
           t == todo'[p]
           m == mem[p]
           f == fd[p]
           n == mem'[p]
           g == fd'[p]
<1>1. /\ Top(p) = s[1] /\ s[1].op \in {"left", "right"} /\ f \in Descriptors /\ m \in Memory
      /\ ~ PipeHandler(p) /\ st[p] = "run" /\ Open(m, f)
      /\ LeftChild(p) => s[1].op = "left"
      /\ RightChild(p) => s[1].op = "right"
  BY RunningFrame DEF LeftChild, RightChild, PipeHandler, At, IInv, TypeOK, PipeOp
<1>2. ~ Excused(s, m.line) /\ ~ PipeBelow(s)
  BY <1>1, RunningFrame DEF Excused, KeepsPipe
<1>3. LeftChild(p) => /\ g.in = f.in /\ g.out = m.w /\ g.wr = f.wr /\ n.line = m.line
  BY <1>1 DEF LeftChild, IInv, TypeOK, Descriptors, Memory
<1>4. RightChild(p) => /\ g.in = m.r /\ g.out = f.out /\ g.wr = f.wr \ {m.w}
                       /\ n.line = m.line
  BY <1>1 DEF RightChild, IInv, TypeOK, Descriptors, Memory
<1>5. /\ ~ Holds(t, PipeOp) /\ ~ Holds(t, {"heredoc_child"}) /\ Bracketed(t, m.line)
      /\ Holds(s, PipeOp) /\ (s[1].op = "right" => Holds(s, ForkOp)) /\ ~ Holds(s, LeftEnd)
  <2>1. /\ \A P : Holds(s, P) <=> s[1].op \in P \/ HoldsBelow(s, P)
        /\ ~ Holds(t, {"heredoc_child"}) /\ Bracketed(t, m.line)
        /\ Holds(t, PipeOp) => HoldsBelow(s, PipeOp)
    BY <1>1, PushShape
  <2>2. ~ HoldsBelow(s, PipeOp) /\ ~ HoldsBelow(s, LeftEnd)
    BY <1>2 DEF PipeBelow, HoldsBelow, LeftEnd, PipeOp
  <2> QED
    BY <1>1, <2>1, <2>2 DEF PipeOp, ForkOp, LeftEnd
<1>6. Unshared(s, m, f)
  OBVIOUS
<1>7. LeftChild(p) \/ RightChild(p)
  OBVIOUS
<1> HIDE DEF s, t, m, f, n, g
<1>8. ~ Holds(t, ForkOp)
  BY <1>5, ForkOpIsPipeOp
<1>9. g.in \in PipeId => g.in \notin g.wr /\ g.out # g.in
  <2>1. CASE LeftChild(p)
    BY <1>1, <1>2, <1>3, <1>6, <2>1 DEF Unshared, Open
  <2>2. CASE RightChild(p)
    BY <1>1, <1>4, <1>5, <1>6, <2>2 DEF Unshared
  <2> QED
    BY <1>7, <2>1, <2>2
<1>10. Unshared(t, n, g)
  BY <1>3, <1>4, <1>5, <1>7, <1>8, <1>9 DEF Unshared
<1> QED
  BY <1>10 DEF t, n, g

(* The frames under a dup2 of pipe_heredoc(). *)
LEMMA DupFrames ==
  ASSUME IInv, NEW p \in Pid, Unshared(todo[p], mem[p], fd[p]),
         PipeHeredoc(p), Top(p).op \in DupOp
  PROVE  LET s == todo[p]
             t == todo'[p]
         IN  /\ 3 \in 2 .. Len(s) /\ Between(s[1], s[2], s[3], mem[p].line)
             /\ t[1] = s[2] /\ t[2] = s[3] /\ Len(t) >= 2
<1> DEFINE s == todo[p]
           t == todo'[p]
           line == mem[p].line
<1>1. /\ s \in Seq(Frame) /\ s # <<>> /\ s[1].op \in DupOp
      /\ Len(s) \in Nat /\ Len(s) >= 1
      /\ t = <<>> \o Tail(s) /\ Bracketed(s, line)
  BY RunningFrame DEF PipeHeredoc, At, IInv, TypeOK, Return, Unshared
<1> HIDE DEF s, t, line
<1>2. Len(s) >= 3 /\ Between(s[1], s[2], s[3], line)
  <2>1. 1 \in 1 .. Len(s)
    BY <1>1
  <2>2. Bracket(s, line, 1)
    BY <1>1, <2>1 DEF Bracketed
  <2>3. 1 + 1 = 2 /\ 1 + 2 = 3
    OBVIOUS
  <2> DEFINE k == Len(s)
  <2>4. 3 <= k /\ k \in Nat /\ Between(s[1], s[2], s[3], line)
    BY <1>1, <2>2, <2>3 DEF Bracket
  <2> HIDE DEF k
  <2>5. k >= 3
    BY <2>4
  <2> QED
    BY <2>4, <2>5 DEF k
<1>3. 3 \in 2 .. Len(s) /\ t[1] = s[2] /\ t[2] = s[3] /\ Len(t) >= 2
  <2> DEFINE b == <<>>
             k == Len(s)
  <2>1. b \in Seq(Frame) /\ Len(b) = 0 /\ t = b \o Tail(s)
    BY <1>1, EmptySeq
  <2> HIDE DEF b
  <2>2. /\ \A i \in 2 .. Len(s) : Len(b) + i - 1 \in 1 .. Len(t) /\ t[Len(b) + i - 1] = s[i]
        /\ Len(t) = Len(b) + Len(s) - 1
    BY <1>1, <2>1, Pushed
  <2>3. k \in Nat /\ k >= 3 /\ Len(t) = 0 + k - 1
    BY <1>1, <1>2, <2>1, <2>2
  <2> HIDE DEF k
  <2>4. 2 \in 2 .. k /\ 3 \in 2 .. k /\ Len(t) >= 2 /\ 0 + 2 - 1 = 1 /\ 0 + 3 - 1 = 2
    BY <2>3
  <2> QED
    BY <2>1, <2>2, <2>4 DEF k
<1> QED
  BY <1>2, <1>3 DEF s, t, line

(* pipe_heredoc() before the here-document. *)
LEMMA UnsharedDup ==
  ASSUME IInv, NEW p \in Pid, Unshared(todo[p], mem[p], fd[p]),
         PipeHeredoc(p), Top(p).op \in DupOp, NEW a, Pushes(p, a)
  PROVE  Unshared(todo'[p], mem'[p], fd'[p])
<1> DEFINE s == todo[p]
           t == todo'[p]
           m == mem[p]
           f == fd[p]
           g == fd'[p]
<1>1. /\ s \in Seq(Frame) /\ s # <<>> /\ Top(p) = s[1] /\ s[1].op \in DupOp
      /\ Len(s) \in Nat /\ Len(s) >= 1 /\ f \in Descriptors
      /\ ~ PipeHandler(p) /\ st[p] = "run" /\ Open(m, f) /\ m.r \in PipeId
      /\ t = <<>> \o Tail(s) /\ mem'[p] = m
  BY RunningFrame DEF PipeHeredoc, PipeHandler, At, IInv, TypeOK, PipeOp, DupOp, Return
<1>2. \/ s[1].op = "heredoc_left" /\ fd' = [fd EXCEPT ![p].out = m.w]
      \/ s[1].op = "heredoc_right" /\ fd' = [fd EXCEPT ![p].in = m.r]
  BY <1>1 DEF PipeHeredoc, At, DupOp
<1>3. /\ g.wr = f.wr
      /\ s[1].op = "heredoc_left" => g.in = f.in /\ g.out = m.w
      /\ s[1].op = "heredoc_right" => g.in = m.r /\ g.out = f.out
  BY <1>1, <1>2 DEF IInv, TypeOK, Descriptors
<1>4. Unshared(s, m, f)
  OBVIOUS
<1>5. /\ \A P : Holds(s, P) <=> s[1].op \in P \/ HoldsBelow(s, P)
      /\ \A P : HoldsBelow(s, P) => Holds(t, P)
      /\ \A P \in {PipeOp, ForkOp} : Holds(t, P) => HoldsBelow(s, P) \/ s[1].op = "fork_left"
      /\ ~ Holds(t, {"heredoc_child"}) /\ Bracketed(t, m.line)
  BY <1>1, PushShape
<1> HIDE DEF s, t, m, f, g
<1>6. 3 \in 2 .. Len(s) /\ Between(s[1], s[2], s[3], m.line)
  BY <1>1, DupFrames DEF s, m
<1>7. s[1].op # "fork_left" /\ ~ Excused(s, m.line) /\ s[1].op \notin ForkOp \cup LeftEnd
  BY <1>1 DEF DupOp, Excused, ForkOp, LeftEnd
<1>8. t[1] = s[2] /\ t[2] = s[3] /\ Len(t) >= 2
  BY <1>1, DupFrames DEF s, t
<1>9. g.in \in PipeId => (g.in \notin g.wr /\ g.out # g.in) \/ Excused(t, m.line)
  <2>1. CASE s[1].op = "heredoc_left"
    BY <2>1, <1>1, <1>3, <1>4, <1>7 DEF Unshared, Open
  <2>2. CASE s[1].op = "heredoc_right"
    BY <2>2, <1>6, <1>8 DEF Between, Excused
  <2> QED
    BY <1>1, <2>1, <2>2 DEF DupOp
<1>10. Holds(t, PipeOp) => m.r = m.w
  BY <1>4, <1>5, <1>7 DEF Unshared
<1>11. Holds(t, ForkOp) /\ ~ Holds(t, LeftEnd) => g.out # m.r
  <2>1. CASE s[1].op = "heredoc_left"
    <3>1. s[3].op \in LeftEnd
      BY <2>1, <1>6 DEF Between, LeftEnd
    <3> QED
      BY <3>1, <1>5, <1>6 DEF HoldsBelow
  <2>2. CASE s[1].op = "heredoc_right"
    BY <2>2, <1>3, <1>4, <1>5, <1>7 DEF Unshared
  <2> QED
    BY <1>1, <2>1, <2>2 DEF DupOp
<1>12. Unshared(t, m, g)
  BY <1>5, <1>9, <1>10, <1>11 DEF Unshared
<1> QED
  BY <1>1, <1>12 DEF t, m, g
(* The process of a here-document holds the pipe of its line, and reads    *)
(* the terminal.                                                           *)
LEMMA UnsharedHeredocChild ==
  ASSUME IInv, NEW p \in Pid, Unshared(todo[p], mem[p], fd[p]), HeredocChild(p),
         NEW a, Pushes(p, a)
  PROVE  Unshared(todo'[p], mem'[p], fd'[p])
<1> DEFINE s == todo[p]
           t == todo'[p]
           m == mem[p]
           f == fd[p]
           n == mem'[p]
           g == fd'[p]
           child == {"heredoc_child"}
<1>1. /\ s \in Seq(Frame) /\ s # <<>> /\ Top(p) = s[1] /\ s[1].op = "heredoc_child"
      /\ f \in Descriptors /\ ~ PipeHandler(p) /\ st[p] = "run"
  BY RunningFrame DEF HeredocChild, PipeHandler, At, IInv, TypeOK
<1>2. g.in = f.in /\ n = m
  BY <1>1 DEF HeredocChild, IInv, TypeOK, Descriptors
<1>3. /\ Holds(s, child) /\ ~ Holds(t, child) /\ Bracketed(t, m.line)
      /\ Holds(t, PipeOp) => HoldsBelow(s, PipeOp)
  BY <1>1, PushShape
<1>4. Unshared(s, m, f)
  OBVIOUS
<1> HIDE DEF s, t, m, f, n, g
<1>5. Len(s) = 1 /\ f.in \notin PipeId
  BY <1>3, <1>4 DEF Unshared
<1>6. 2 .. Len(s) = {}
  BY <1>5
<1>7. ~ Holds(t, PipeOp)
  BY <1>3, <1>6 DEF HoldsBelow
<1>8. ~ Holds(t, ForkOp)
  BY <1>7, ForkOpIsPipeOp
<1>9. Unshared(t, n, g)
  BY <1>2, <1>3, <1>5, <1>7, <1>8 DEF Unshared
<1> QED
  BY <1>9 DEF t, n, g

LEMMA UnsharedReadLine ==
  ASSUME IInv, NEW p \in Pid, Unshared(todo[p], mem[p], fd[p]), ReadLine(p)
  PROVE  Unshared(todo'[p], mem'[p], fd'[p])
<1> DEFINE s == todo[p]
           t == todo'[p]
           m == mem[p]
           f == fd[p]
           n == mem'[p]
           g == fd'[p]
<1>1. s[1].op = "prompt" /\ g = f
  BY RunningFrame DEF ReadLine, At
<1>2. OnlyOps(t, {"bst", "reset", "prompt"})
  BY ShellStackReadLine
<1>3. Unshared(s, m, f)
  OBVIOUS
<1> HIDE DEF s, t, m, f, n, g
<1>4. ~ Excused(s, m.line)
  BY <1>1 DEF Excused
<1>5. /\ ~ Holds(t, PipeOp) /\ ~ Holds(t, ForkOp) /\ ~ Holds(t, {"heredoc_child"})
      /\ Bracketed(t, n.line)
  BY <1>2 DEF OnlyOps, Holds, PipeOp, ForkOp, Bracketed, DupOp
<1>6. Unshared(t, n, g)
  BY <1>1, <1>3, <1>4, <1>5 DEF Unshared
<1> QED
  BY <1>6 DEF t, n, g

(* Whatever a process does itself. *)
LEMMA UnsharedStep ==
  ASSUME IInv, NEW p \in Pid, Unshared(todo[p], mem[p], fd[p]), Step(p) \/ Types(p),
         st'[p] \in {"run", "stop"}
  PROVE  Unshared(todo'[p], mem'[p], fd'[p])
<1>1. CASE ReadLine(p)
  BY <1>1, UnsharedReadLine
<1>2. CASE WaitStopped(p)
  BY <1>2, WaitStoppedKeeps DEF Same
<1>3. CASE HeredocLine(p)
  BY <1>3 DEF HeredocLine
<1>4. CASE PipeHandler(p)
  BY <1>4, UnsharedPipeHandler
<1>5. ASSUME NEW a, Pushes(p, a), ~ ReadLine(p), ~ PipeHandler(p)
      PROVE  Unshared(todo'[p], mem'[p], fd'[p])
  <2>1. \/ ClosePipe(p) \/ LeftChild(p) \/ RightChild(p) \/ HeredocChild(p)
        \/ PipeHeredoc(p) /\ Top(p).op \in DupOp
        \/ Calm(p)
    BY <1>5, CalmForms
  <2> QED
    BY <1>5, <2>1, UnsharedClosePipe, UnsharedSides, UnsharedHeredocChild, UnsharedDup,
       UnsharedCalm
<1> QED
  BY <1>1, <1>2, <1>3, <1>4, <1>5, StackForms

(* A child begins with what its parent has. *)
LEMMA ChildHas ==
  ASSUME IInv, NEW p \in Pid, NEW c \in FreePid, NEW a, NEW b, Forks(p, c, a, b)
  PROVE  /\ st[p] = "run" /\ c \in Pid /\ c # p /\ todo'[c] = b /\ mem'[c] = mem[p]
         /\ \/ fd'[c].in = Tty /\ Len(b) = 1 /\ b[1].op = "heredoc_child"
            \/ /\ fd'[c] = fd[p] /\ ~ Excused(todo[p], mem[p].line)
               /\ \A i \in 1 .. Len(b) :
                    \/ b[i].op \in {"child", "exec", "_exit"}
                    \/ b[i].op = "left" /\ Top(p).op = "fork_left"
                    \/ b[i].op = "right" /\ Top(p).op = "fork_right"
<1>1. st[p] = "run" /\ c \in Pid /\ st[c] = "none"
  BY DEF Forks, FreePid
<1>2. /\ todo'[c] = b /\ mem'[c] = mem[p] /\ c # p
      /\ Top(p) = todo[p][1] /\ fd[p] \in Descriptors
      /\ st'[c] = "run" /\ \A q \in Pid \ {c} : st'[q] = st[q]
  BY <1>1, RunningFrame DEF Forks, Return, IInv, TypeOK
<1>3. CASE HeredocHandler(p) /\ HeredocShape(p, c, a, b)
  <2>1. PICK d \in FreePid :
          /\ fd' = [fd EXCEPT ![p].in = Tty, ![p].leak = @ + 1,
                              ![d] = [fd[p] EXCEPT !.in = Tty]]
          /\ st' = [st EXCEPT ![d] = "run"]
    BY <1>3 DEF HeredocHandler
  <2>2. d = c
    BY <2>1, <1>1, <1>2 DEF FreePid, IInv, TypeOK
  <2>3. fd'[c].in = Tty
    BY <1>1, <1>2, <2>1, <2>2 DEF IInv, TypeOK, Descriptors
  <2> QED
    BY <1>1, <1>2, <1>3, <2>3 DEF HeredocShape
<1>4. CASE \/ ExecCmd(p) /\ ExecShape(p, c, a, b)
           \/ ForkLeft(p) /\ LeftShape(p, c, a, b)
           \/ ForkRight(p) /\ RightShape(p, c, a, b)
  <2>1. fd'[c] = fd[p]
    <3>1. PICK d, x, y : d \in FreePid /\ Fork(p, d, x, y)
      BY <1>4 DEF ExecCmd, ForkLeft, ForkRight
    <3>2. d = c
      BY <3>1, <1>1, <1>2 DEF Fork, FreePid, IInv, TypeOK
    <3> QED
      BY <3>1, <3>2, <1>1 DEF Fork, IInv, TypeOK
  <2>2. ~ Excused(todo[p], mem[p].line)
    <3>1. CASE Top(p).op = "bst"
      <4>1. External(p)
        BY <1>4, <3>1 DEF ExecCmd, ForkLeft, ForkRight, At
      <4> QED
        BY <4>1, <1>2, <3>1 DEF External, KindAt, Excused
    <3>2. CASE Top(p).op # "bst"
      BY <1>2, <1>4, <3>2 DEF ForkLeft, ForkRight, ExecCmd, External, At, Excused
    <3> QED
      BY <3>1, <3>2
  <2>3. ASSUME NEW i \in 1 .. Len(b)
        PROVE  \/ b[i].op \in {"child", "exec", "_exit"}
               \/ b[i].op = "left" /\ Top(p).op = "fork_left"
               \/ b[i].op = "right" /\ Top(p).op = "fork_right"
    <3>1. CASE ExecCmd(p) /\ ExecShape(p, c, a, b)
      <4>1. i = 1 \/ i = 2
        BY <3>1 DEF ExecShape
      <4> QED
        BY <3>1, <4>1 DEF ExecShape, On
    <3>2. ASSUME NEW op, IsSide(b, p, op)
          PROVE  b[i].op \in {"child", "_exit"} \/ b[i].op = op
      <4>1. i = 1 \/ i = Len(b) \/ (Len(b) = 3 /\ i = 2)
        BY <3>2 DEF IsSide
      <4> QED
        BY <3>2, <4>1 DEF IsSide, On
    <3> QED
      BY <1>4, <3>1, <3>2 DEF LeftShape, RightShape
  <2> QED
    BY <1>1, <1>2, <2>1, <2>2, <2>3
<1> QED
  BY <1>3, <1>4 DEF Forks

LEMMA UnsharedFork ==
  ASSUME IInv, NEW p \in Pid, NEW c \in FreePid, NEW a, NEW b, Forks(p, c, a, b),
         Unshared(todo[p], mem[p], fd[p])
  PROVE  Unshared(todo'[c], mem'[c], fd'[c])
<1> DEFINE s == todo[p]
           m == mem[p]
           f == fd[p]
           g == fd'[c]
<1>1. /\ st[p] = "run" /\ todo'[c] = b /\ mem'[c] = m
      /\ Top(p) = s[1] /\ s \in Seq(Frame) /\ s # <<>>
  BY ChildHas, RunningFrame
<1>2. Unshared(s, m, f)
  OBVIOUS
<1>3. CASE g.in = Tty /\ Len(b) = 1 /\ b[1].op = "heredoc_child"
  <2> HIDE DEF g, m
  <2>1. /\ ~ Holds(b, PipeOp) /\ ~ Holds(b, ForkOp) /\ Bracketed(b, m.line)
    <3>1. \A i \in 1 .. Len(b) : i = 1
      BY <1>3
    <3> QED
      BY <1>3, <3>1 DEF Holds, PipeOp, ForkOp, Bracketed, DupOp
  <2>2. Unshared(b, m, g)
    BY <1>3, <2>1, NotPipes DEF Unshared
  <2> QED
    BY <1>1, <2>2 DEF g, m
<1>4. CASE /\ g = f /\ ~ Excused(s, m.line)
           /\ \A i \in 1 .. Len(b) : \/ b[i].op \in {"child", "exec", "_exit"}
                                     \/ b[i].op = "left" /\ Top(p).op = "fork_left"
                                     \/ b[i].op = "right" /\ Top(p).op = "fork_right"
  <2>1. s[1].op \in ForkOp => ~ PipeBelow(s)
    BY <1>1, RunningFrame DEF KeepsPipe, ForkOp
  <2>2. /\ Holds(b, PipeOp) => s[1].op \in {"fork_left", "fork_right"}
        /\ Holds(b, ForkOp) => s[1].op \in {"fork_left", "fork_right"}
        /\ ~ Holds(b, {"heredoc_child"}) /\ Bracketed(b, m.line)
    BY <1>1, <1>4 DEF Holds, PipeOp, ForkOp, Bracketed, DupOp
  <2>g. g = f /\ ~ Excused(s, m.line)
    BY <1>4
  <2> HIDE DEF s, m, f, g
  <2>3. \A P : Holds(s, P) <=> s[1].op \in P \/ HoldsBelow(s, P)
    BY <1>1, HoldsTop
  <2>4. s[1].op \in {"fork_left", "fork_right"} =>
          Holds(s, PipeOp) /\ Holds(s, ForkOp) /\ ~ Holds(s, LeftEnd)
    BY <2>1, <2>3 DEF PipeOp, ForkOp, LeftEnd, PipeBelow, HoldsBelow
  <2>5. Unshared(b, m, g)
    BY <2>g, <1>2, <2>2, <2>4 DEF Unshared
  <2> QED
    BY <1>1, <2>5 DEF g, m
<1> QED
  BY <1>3, <1>4, ChildHas

(* Whatever any process does. *)
LEMMA SeparateStep ==
  ASSUME IInv, Separate, NEW p \in Pid, Step(p) \/ Types(p)
  PROVE  Separate'
<1> SUFFICES ASSUME NEW q \in Pid, st'[q] \in {"run", "stop"}
             PROVE  Unshared(todo'[q], mem'[q], fd'[q])
  BY DEF Separate, Living
<1>1. st[p] = "run" /\ st \in [Pid -> {"none", "run", "stop", "zombie"}]
  BY Stepping DEF IInv, TypeOK
<1>2. CASE q = p
  BY <1>1, <1>2, UnsharedStep DEF Separate, Living
<1>3. CASE q # p /\ st[q] # "none"
  BY <1>3, OthersKept DEF Same, Separate, Living
<1>4. CASE st[q] = "none"
  <2>1. PICK a, b : q # Shell /\ Forks(p, q, a, b)
    BY <1>4, NewStack
  <2> QED
    BY <1>1, <1>4, <2>1, UnsharedFork DEF FreePid, Separate, Living
<1> QED
  BY <1>2, <1>3, <1>4

LEMMA SeparateInit == Init => Separate
<1> SUFFICES ASSUME Init PROVE Separate
  OBVIOUS
<1>1. Shell \in Pid /\ Living \subseteq {Shell}
  BY ProcessAssumption DEF Init, Living
<1>2. todo[Shell] = <<Do("prompt")>> /\ fd[Shell] = Closed
  BY <1>1 DEF Init
<1> DEFINE f == Do("prompt")
           s == todo[Shell]
<1>3. f.op = "prompt"
  BY DEF Do, On
<1>4. s = <<f>>
  BY <1>2
<1> HIDE DEF f, s
<1>5. Len(s) = 1 /\ s[1] = f
  BY <1>4
<1>6. \A i \in 1 .. Len(s) : s[i].op = "prompt"
  BY <1>3, <1>5
<1>7. /\ ~ Holds(s, PipeOp) /\ ~ Holds(s, ForkOp) /\ ~ Holds(s, {"heredoc_child"})
      /\ Bracketed(s, mem[Shell].line)
  BY <1>6 DEF Holds, PipeOp, ForkOp, Bracketed, DupOp
<1>8. fd[Shell].in \notin PipeId
  BY <1>2, NotPipes DEF Closed
<1>9. Unshared(s, mem[Shell], fd[Shell])
  BY <1>7, <1>8 DEF Unshared
<1> QED
  BY <1>1, <1>9 DEF Separate, s

LEMMA SeparateNext == IInv /\ Separate /\ [Next]_vars => Separate'
<1> SUFFICES ASSUME IInv, Separate, [Next]_vars PROVE Separate'
  OBVIOUS
<1>1. CASE CtrlC \/ CtrlBackslash \/ CtrlZ
  BY <1>1, SignalsKeep DEF Separate, Living, Same
<1>2. CASE UNCHANGED vars
  BY <1>2 DEF vars, procs, Separate, Living
<1> QED
  BY <1>1, <1>2, SeparateStep DEF Next, Over
(***************************************************************************)
(* Attached is inductive.                                                  *)
(***************************************************************************)
PipeEnds(s, m, f) ==
  /\ f.in \notin PipeId \/ Excused(s, m.line)
  /\ f.out \in PipeId => f.out = m.w /\ Holds(s, LeftEnd)

(* What the shell has on its stack when it may step. *)
LEMMA ShellTop ==
  ASSUME IInv, Home, st[Shell] = "run"
  PROVE  /\ Shell \in Pid /\ Shell \in Living /\ ShellStack(todo[Shell]) /\ Owned
         /\ Top(Shell) = todo[Shell][1] /\ todo[Shell] # <<>> /\ todo[Shell] \in Seq(Frame)
         /\ Top(Shell).op \notin {"child", "left", "right"}
         /\ Top(Shell).op \in LastOp => Top(Shell).op = "prompt" /\ Len(todo[Shell]) = 1
<1>1. /\ Shell \in Pid /\ Shell \in Living /\ ShellStack(todo[Shell]) /\ Owned
  BY ProcessAssumption DEF Home, Living
<1> DEFINE s == todo[Shell]
           n == Len(s)
<1>2. /\ Top(Shell) = s[1] /\ s # <<>> /\ s \in Seq(Frame) /\ n \in Nat /\ n >= 1
      /\ Top(Shell).op \in LastOp => n = 1
      /\ s[n].op = "prompt"
      /\ \A i \in 1 .. n : s[i].op \notin {"child", "left", "right"}
  BY <1>1, RunningFrame DEF ShellStack
<1> HIDE DEF s, n
<1>3. 1 \in 1 .. n
  BY <1>2
<1> QED
  BY <1>1, <1>2, <1>3 DEF s, n

LEMMA EndsSame ==
  ASSUME Attached, Shell \in Living, Same(Shell)
  PROVE  PipeEnds(todo'[Shell], mem'[Shell], fd'[Shell])
BY DEF Attached, PipeEnds, Same

LEMMA EndsAtEdge ==
  ASSUME IInv, Home, Separate, Attached, ReadLine(Shell) \/ PipeHandler(Shell)
                                         \/ ClosePipe(Shell)
  PROVE  PipeEnds(todo'[Shell], mem'[Shell], fd'[Shell])
<1> DEFINE s == todo[Shell]
           m == mem[Shell]
           f == fd[Shell]
           g == fd'[Shell]
<1>1. /\ st[Shell] = "run" /\ f \in Descriptors /\ Shell \in Pid
      /\ ReadLine(Shell) => Top(Shell).op = "prompt"
      /\ PipeHandler(Shell) => Top(Shell).op = "bst" /\ KindAt(Shell) = "PIPE"
      /\ ClosePipe(Shell) => Top(Shell).op = "close_pipe"
  BY ProcessAssumption DEF ReadLine, PipeHandler, ClosePipe, At, IInv, TypeOK
<1>2. /\ Top(Shell) = s[1] /\ s \in Seq(Frame) /\ s # <<>> /\ Owned /\ Shell \in Living
      /\ s[1].op = "prompt" => Len(s) = 1
  BY <1>1, ShellTop DEF LastOp
<1>3. g.in = f.in /\ g.out = f.out
  <2>1. CASE ReadLine(Shell)
    BY <2>1 DEF ReadLine
  <2>2. CASE PipeHandler(Shell)
    <3>1. PICK q \in FreePipe :
            fd' = [fd EXCEPT ![Shell].rd = @ \cup {q}, ![Shell].wr = @ \cup {q}]
      BY <2>2 DEF PipeHandler
    <3> QED
      BY <3>1, <1>1 DEF IInv, TypeOK, Descriptors
  <2>3. CASE ClosePipe(Shell)
    BY <2>3, <1>1 DEF ClosePipe, IInv, TypeOK, Descriptors
  <2> QED
    BY <2>1, <2>2, <2>3
<1>4. CASE ReadLine(Shell)
  BY <1>1, <1>2, <1>3, <1>4, NotPipes DEF Owned, PipeEnds
<1>5. CASE PipeHandler(Shell) \/ ClosePipe(Shell)
  <2>1. ~ PipeBelow(s)
    <3>1. CASE PipeHandler(Shell)
      BY <3>1, <1>1, PipeIsOutermost
    <3>2. CASE ClosePipe(Shell)
      BY <3>2, <1>1, RunningFrame DEF KeepsPipe
    <3> QED
      BY <1>5, <3>1, <3>2
  <2>2. ~ Excused(s, m.line)
    <3>1. KindAt(Shell) = Kind(m.line, s[1].lo, s[1].hi)
      BY <1>2 DEF KindAt
    <3> QED
      BY <1>1, <1>2, <1>5, <3>1 DEF Excused
  <2>3. Holds(s, LeftEnd) <=> s[1].op \in LeftEnd \/ HoldsBelow(s, LeftEnd)
    BY <1>2, HoldsTop
  <2>4. ~ Holds(s, LeftEnd)
    BY <1>1, <1>2, <1>5, <2>1, <2>3 DEF LeftEnd, HoldsBelow, PipeBelow, PipeOp
  <2>5. f.in \notin PipeId /\ f.out \notin PipeId
    BY <1>2, <2>2, <2>4 DEF Attached
  <2> QED
    BY <1>3, <2>5 DEF PipeEnds
<1> QED
  BY <1>4, <1>5

LEMMA EndsCalm ==
  ASSUME IInv, Home, Separate, Attached, Calm(Shell), NEW a, Pushes(Shell, a)
  PROVE  PipeEnds(todo'[Shell], mem'[Shell], fd'[Shell])
<1> DEFINE s == todo[Shell]
           t == todo'[Shell]
           m == mem[Shell]
           f == fd[Shell]
           n == mem'[Shell]
           g == fd'[Shell]
<1>1. st[Shell] = "run" /\ Shell \in Pid
  BY ProcessAssumption DEF Pushes
<1>2. /\ Top(Shell) = s[1] /\ s \in Seq(Frame) /\ s # <<>> /\ Shell \in Living
  BY <1>1, ShellTop
<1>3. /\ n.w = m.w /\ n.line = m.line
      /\ g.out = f.out \/ g.out \notin PipeId
      /\ s[1].op = "heredoc_left_end" => g.out \notin PipeId
  BY <1>2 DEF Calm
<1>4. /\ f.in \notin PipeId \/ Excused(s, m.line)
      /\ f.out \in PipeId => f.out = m.w /\ Holds(s, LeftEnd)
  BY <1>2 DEF Attached
<1>5. g.in \in PipeId => g.in = f.in /\ (Excused(s, m.line) => Excused(t, m.line))
  BY <1>1, ExcusedCalm
<1>6. Holds(s, LeftEnd) => s[1].op = "heredoc_left_end" \/ HoldsBelow(s, LeftEnd)
  BY <1>2, HoldsTop DEF LeftEnd
<1>7. HoldsBelow(s, LeftEnd) => Holds(t, LeftEnd)
  BY <1>1, <1>2, PushShape DEF Separate, Calm
<1> HIDE DEF s, t, m, f, n, g
<1>8. PipeEnds(t, n, g)
  BY <1>3, <1>4, <1>5, <1>6, <1>7 DEF PipeEnds
<1> QED
  BY <1>8 DEF t, n, g

LEMMA EndsDup ==
  ASSUME IInv, Home, Separate, Attached, PipeHeredoc(Shell), Top(Shell).op \in DupOp,
         NEW a, Pushes(Shell, a)
  PROVE  PipeEnds(todo'[Shell], mem'[Shell], fd'[Shell])
<1> DEFINE s == todo[Shell]
           t == todo'[Shell]
           m == mem[Shell]
           f == fd[Shell]
           g == fd'[Shell]
<1>1. /\ st[Shell] = "run" /\ Shell \in Pid /\ f \in Descriptors
  BY ProcessAssumption DEF Pushes, IInv, TypeOK
<1>2. /\ Top(Shell) = s[1] /\ s \in Seq(Frame) /\ s # <<>> /\ Shell \in Living
  BY <1>1, ShellTop
<1>3. /\ mem'[Shell] = m /\ ~ PipeHandler(Shell)
      /\ \/ s[1].op = "heredoc_left" /\ fd' = [fd EXCEPT ![Shell].out = m.w]
         \/ s[1].op = "heredoc_right" /\ fd' = [fd EXCEPT ![Shell].in = m.r]
  BY <1>2 DEF PipeHeredoc, PipeHandler, At, DupOp
<1>4. /\ s[1].op = "heredoc_left" => g.in = f.in /\ g.out = m.w
      /\ s[1].op = "heredoc_right" => g.out = f.out
      /\ s[1].op \in DupOp
  BY <1>1, <1>2, <1>3 DEF IInv, TypeOK, Descriptors
<1>5. /\ 3 \in 2 .. Len(s) /\ Between(s[1], s[2], s[3], m.line)
      /\ t[1] = s[2] /\ t[2] = s[3] /\ Len(t) >= 2
  BY <1>1, <1>2, DupFrames DEF Separate
<1>6. /\ f.in \notin PipeId \/ Excused(s, m.line)
      /\ f.out \in PipeId => f.out = m.w /\ Holds(s, LeftEnd)
  BY <1>2 DEF Attached
<1>7. Holds(s, LeftEnd) => s[1].op = "heredoc_left_end" \/ HoldsBelow(s, LeftEnd)
  BY <1>2, HoldsTop DEF LeftEnd
<1>8. HoldsBelow(s, LeftEnd) => Holds(t, LeftEnd)
  BY <1>1, <1>2, <1>3, PushShape DEF Separate
<1> HIDE DEF s, t, m, f, g
<1>9. ~ Excused(s, m.line) /\ s[1].op # "heredoc_left_end"
  BY <1>4 DEF DupOp, Excused
<1>10. s[1].op = "heredoc_left" => HoldsBelow(s, LeftEnd)
  BY <1>5 DEF Between, HoldsBelow, LeftEnd
<1>11. s[1].op = "heredoc_right" => Excused(t, m.line)
  BY <1>5 DEF Between, Excused
<1>12. PipeEnds(t, m, g)
  BY <1>4, <1>6, <1>7, <1>8, <1>9, <1>10, <1>11 DEF PipeEnds, DupOp
<1> QED
  BY <1>3, <1>12 DEF t, m, g

LEMMA AttachedStep ==
  ASSUME IInv, Home, Separate, Attached, NEW p \in Pid, Step(p) \/ Types(p)
  PROVE  Attached'
<1> SUFFICES ASSUME st'[Shell] \in {"run", "stop"}
             PROVE  PipeEnds(todo'[Shell], mem'[Shell], fd'[Shell])
  BY DEF Attached, Living, PipeEnds
<1>1. /\ st[p] = "run" /\ st \in [Pid -> {"none", "run", "stop", "zombie"}]
      /\ Shell \in Pid
  BY ProcessAssumption, Stepping DEF IInv, TypeOK
<1>2. CASE p # Shell
  <2>1. st[Shell] # "none"
    BY <1>1, NewStack
  <2>2. st'[Shell] = st[Shell] /\ Same(Shell)
    BY <1>1, <1>2, <2>1, OthersKept
  <2>3. Shell \in Living
    BY <1>1, <2>2 DEF Living
  <2> QED
    BY <2>2, <2>3, EndsSame
<1>3. CASE p = Shell
  <2>1. /\ Shell \in Living /\ Top(Shell).op \notin {"left", "right", "heredoc_child"}
    BY <1>1, <1>3, ShellTop DEF LastOp
  <2>2. CASE WaitStopped(Shell)
    BY <1>1, <2>1, <2>2, WaitStoppedKeeps, EndsSame
  <2>3. CASE HeredocLine(Shell)
    BY <2>1, <2>3, EndsSame DEF HeredocLine, Same
  <2>4. CASE ReadLine(Shell)
    BY <2>4, EndsAtEdge
  <2>5. ASSUME NEW a, Pushes(Shell, a), ~ ReadLine(Shell)
        PROVE  PipeEnds(todo'[Shell], mem'[Shell], fd'[Shell])
    <3>1. ~ LeftChild(Shell) /\ ~ RightChild(Shell) /\ ~ HeredocChild(Shell)
      BY <2>1 DEF LeftChild, RightChild, HeredocChild, At
    <3>2. \/ PipeHandler(Shell) \/ ClosePipe(Shell)
          \/ PipeHeredoc(Shell) /\ Top(Shell).op \in DupOp
          \/ Calm(Shell)
      BY <1>1, <1>3, <2>5, <3>1, CalmForms
    <3> QED
      BY <2>5, <3>2, EndsAtEdge, EndsDup, EndsCalm
  <2> QED
    BY <1>1, <1>3, <2>2, <2>3, <2>4, <2>5, StackForms
<1> QED
  BY <1>2, <1>3

LEMMA AttachedInit == Init => Attached
BY ProcessAssumption, NotPipes DEF Init, Attached, Closed

LEMMA AttachedNext == IInv /\ Home /\ Separate /\ Attached /\ [Next]_vars => Attached'
<1> SUFFICES ASSUME IInv, Home, Separate, Attached, [Next]_vars PROVE Attached'
  OBVIOUS
<1>1. CASE CtrlC \/ CtrlBackslash \/ CtrlZ
  BY <1>1, SignalsKeep, ProcessAssumption DEF Attached, Living, Same
<1>2. CASE UNCHANGED vars
  BY <1>2 DEF vars, procs, Attached, Living
<1> QED
  BY <1>1, <1>2, AttachedStep DEF Next, Over
(***************************************************************************)
(* Unfed is inductive.                                                     *)
(***************************************************************************)
(* A process reads, or is to read, only a pipe that it had or that it has  *)
(* just made.                                                              *)
LEMMA SourcesStep ==
  ASSUME IInv, NEW p \in Pid, Unshared(todo[p], mem[p], fd[p]), Step(p) \/ Types(p),
         st'[p] \in {"run", "stop"}, NEW x \in Sources(p)', x \in PipeId
  PROVE  x \in Sources(p) \/ x \in FreePipe
<1> DEFINE s == todo[p]
           t == todo'[p]
           m == mem[p]
           f == fd[p]
           n == mem'[p]
           g == fd'[p]
<1>1. st[p] = "run" /\ f \in Descriptors /\ m \in Memory
  BY Stepping DEF IInv, TypeOK
<1>2. Top(p) = s[1] /\ s \in Seq(Frame) /\ s # <<>> /\ Len(s) \in Nat
  BY <1>1, RunningFrame
<1>3. /\ x = g.in \/ (x = n.r /\ Holds(t, TakeOp))
      /\ f.in \in Sources(p) /\ (Holds(s, TakeOp) => m.r \in Sources(p))
  BY DEF Sources
<1>4. \A P : Holds(s, P) <=> s[1].op \in P \/ HoldsBelow(s, P)
  BY <1>2, HoldsTop
<1>5. CASE ReadLine(p)
  <2>1. OnlyOps(t, {"bst", "reset", "prompt"}) /\ g = f
    BY <1>5, ShellStackReadLine DEF ReadLine
  <2>2. ~ Holds(t, TakeOp)
    BY <2>1 DEF OnlyOps, Holds, TakeOp, PipeOp
  <2> QED
    BY <1>3, <2>1, <2>2
<1>6. CASE WaitStopped(p)
  BY <1>3, <1>6, WaitStoppedKeeps DEF Same
<1>7. CASE HeredocLine(p)
  BY <1>3, <1>7 DEF HeredocLine
<1>8. CASE PipeHandler(p)
  <2>1. PICK q \in FreePipe :
          /\ fd' = [fd EXCEPT ![p].rd = @ \cup {q}, ![p].wr = @ \cup {q}]
          /\ mem' = [mem EXCEPT ![p].r = q, ![p].w = q]
    BY <1>8 DEF PipeHandler
  <2>2. g.in = f.in /\ n.r = q
    BY <1>1, <2>1 DEF IInv, TypeOK, Descriptors, Memory
  <2> QED
    BY <1>3, <2>2
<1>9. ASSUME NEW a, Pushes(p, a), ~ ReadLine(p), ~ PipeHandler(p)
      PROVE  x \in Sources(p)
  <2>1. /\ Holds(t, TakeOp) => Holds(s, TakeOp)
        /\ Holds(t, PipeOp) => HoldsBelow(s, PipeOp) \/ s[1].op = "fork_left"
    <3>1. \A P \in {PipeOp, ForkOp, TakeOp} :
            Holds(t, P) => HoldsBelow(s, P) \/ s[1].op = "fork_left"
      BY <1>2, <1>9, PushShape
    <3> QED
      BY <1>4, <3>1 DEF TakeOp, PipeOp
  <2>2. CASE ClosePipe(p) \/ LeftChild(p) \/ RightChild(p)
    <3>1. s[1].op \in {"close_pipe", "left", "right"}
      BY <1>2, <2>2 DEF ClosePipe, LeftChild, RightChild, At
    <3>2. ~ PipeBelow(s)
      BY <1>1, <1>2, <3>1, RunningFrame DEF KeepsPipe
    <3>3. ~ Holds(t, TakeOp)
      BY <2>1, <3>1, <3>2, ForkOpIsPipeOp DEF PipeBelow, HoldsBelow
    <3>4. g.in = f.in \/ (g.in = m.r /\ s[1].op = "right")
      BY <1>1, <1>2, <2>2 DEF ClosePipe, LeftChild, RightChild, At, IInv, TypeOK, Descriptors
    <3> QED
      BY <1>3, <1>4, <3>3, <3>4 DEF TakeOp, PipeOp
  <2>3. CASE HeredocChild(p) \/ (PipeHeredoc(p) /\ Top(p).op \in DupOp)
    <3>1. CASE HeredocChild(p)
      <4>1. n = m /\ g.in = f.in
        BY <1>1, <3>1 DEF HeredocChild, IInv, TypeOK, Descriptors
      <4> QED
        BY <1>3, <2>1, <4>1
    <3>2. CASE PipeHeredoc(p) /\ Top(p).op \in DupOp
      <4>1. /\ n = m /\ (fd' = [fd EXCEPT ![p].out = m.w]
                        \/ (fd' = [fd EXCEPT ![p].in = m.r] /\ s[1].op = "heredoc_right"))
        BY <1>2, <3>2 DEF PipeHeredoc, At, DupOp
      <4>2. g.in = f.in \/ (g.in = m.r /\ s[1].op = "heredoc_right")
        BY <1>1, <4>1 DEF IInv, TypeOK, Descriptors
      <4> QED
        BY <1>3, <1>4, <2>1, <4>1, <4>2 DEF TakeOp, PipeOp
    <3> QED
      BY <2>3, <3>1, <3>2
  <2>4. CASE Calm(p)
    <3>1. n.r = m.r /\ (g.in = f.in \/ g.in \notin PipeId)
      BY <2>4 DEF Calm
    <3> QED
      BY <1>3, <2>1, <3>1
  <2> QED
    BY <1>9, <2>2, <2>3, <2>4, CalmForms
<1> QED
  BY <1>5, <1>6, <1>7, <1>8, <1>9, StackForms

(* So does the child it forks; the right side of a pipe is to read the     *)
(* pipe that pipe_child_process() is about to close.                       *)
LEMMA SourcesFork ==
  ASSUME IInv, NEW p \in Pid, NEW c \in FreePid, NEW a, NEW b, Forks(p, c, a, b),
         NEW x \in Sources(c)', x \in PipeId
  PROVE  /\ x \in Sources(p)
         /\ \/ x = fd[p].in /\ ~ Excused(todo[p], mem[p].line)
            \/ Top(p)'.op = "close_pipe"
<1> DEFINE s == todo[p]
<1>1. /\ st[p] = "run" /\ c # p /\ todo'[c] = b /\ mem'[c] = mem[p]
      /\ Top(p) = s[1] /\ s \in Seq(Frame) /\ s # <<>>
      /\ x = fd'[c].in \/ (x = mem[p].r /\ Holds(b, TakeOp))
      /\ fd[p].in \in Sources(p) /\ (Holds(s, TakeOp) => mem[p].r \in Sources(p))
  BY ChildHas, RunningFrame DEF Sources
<1>2. CASE fd'[c].in = Tty /\ Len(b) = 1 /\ b[1].op = "heredoc_child"
  <2>1. \A i \in 1 .. Len(b) : i = 1
    BY <1>2
  <2>2. ~ Holds(b, TakeOp)
    BY <1>2, <2>1 DEF Holds, TakeOp, PipeOp
  <2> QED
    BY <1>1, <1>2, <2>2, NotPipes
<1>3. CASE /\ fd'[c] = fd[p] /\ ~ Excused(todo[p], mem[p].line)
           /\ \A i \in 1 .. Len(b) : \/ b[i].op \in {"child", "exec", "_exit"}
                                     \/ b[i].op = "left" /\ Top(p).op = "fork_left"
                                     \/ b[i].op = "right" /\ Top(p).op = "fork_right"
  <2>1. CASE x = fd[p].in
    BY <1>1, <1>3, <2>1
  <2>2. CASE Holds(b, TakeOp)
    <3>1. Top(p).op = "fork_right"
      BY <1>3, <2>2 DEF Holds, TakeOp, PipeOp
    <3>2. Holds(s, TakeOp)
      BY <1>1, <3>1, HoldsTop DEF TakeOp, PipeOp
    <3>3. Top(p)'.op = "close_pipe"
      <4>1. Pushes(p, a)
        BY ForksPush
      <4> DEFINE t == todo'[p]
      <4>2. /\ a \in Seq(Frame) /\ t = a \o Tail(s)
            /\ a # <<>> /\ a[1].op = "close_pipe"
        BY <3>1, <4>1 DEF Pushes
      <4> HIDE DEF s, t
      <4>3. Len(a) \in Nat /\ Len(a) # 0
        BY <4>2, EmptySeq, LenProperties
      <4>4. /\ \A i \in 1 .. Len(a) : i \in 1 .. Len(t) /\ t[i] = a[i]
            /\ t \in Seq(Frame) /\ 1 \in 1 .. Len(a)
        BY <1>1, <4>2, <4>3, Pushed
      <4>5. t # <<>> /\ t[1].op = "close_pipe"
        BY <4>2, <4>4
      <4>6. Head(t) = t[1]
        BY <4>4, <4>5
      <4> QED
        BY <4>5, <4>6 DEF Top, t
    <3>4. x = fd[p].in \/ x = mem[p].r
      BY <1>1, <1>3
    <3> QED
      BY <1>1, <3>2, <3>3, <3>4
  <2> QED
    BY <1>1, <1>3, <2>1, <2>2
<1> QED
  BY <1>2, <1>3, ChildHas

(* A step of another process. *)
LEMMA UnfedOthers ==
  ASSUME IInv, Separate, Unfed, NEW p \in Pid \ {Shell}, Step(p) \/ Types(p)
  PROVE  Unfed'
<1> SUFFICES ASSUME st'[Shell] \in {"run", "stop"}, Top(Shell)'.op # "close_pipe",
                    NEW q \in Pid \ {Shell}, st'[q] \in {"run", "stop"},
                    NEW x \in Sources(q)', x \in fd'[Shell].wr
             PROVE  FALSE
  BY DEF Unfed, Living
<1>1. /\ st[p] = "run" /\ Shell \in Pid /\ p \in Living /\ p # Shell
      /\ st \in [Pid -> {"none", "run", "stop", "zombie"}]
  BY ProcessAssumption, Stepping DEF Living, IInv, TypeOK
<1>2. st[Shell] # "none"
  BY <1>1, NewStack
<1>3. st'[Shell] = st[Shell] /\ Same(Shell)
  BY <1>1, <1>2, OthersKept
<1>4. /\ \A r \in Living \ {Shell} : Sources(r) \cap fd[Shell].wr = {}
      /\ x \in fd[Shell].wr /\ x \in PipeId
  BY <1>1, <1>3 DEF Same, Top, Living, Unfed, IInv, TypeOK, Descriptors
<1>5. x \notin FreePipe
  BY <1>1, <1>4 DEF FreePipe, Writers
<1>6. CASE q = p
  BY <1>1, <1>4, <1>5, <1>6, SourcesStep DEF Separate
<1>7. CASE q # p /\ st[q] # "none"
  <2>1. st'[q] = st[q] /\ Same(q)
    BY <1>7, OthersKept
  <2>2. q \in Living /\ x \in Sources(q)
    BY <2>1 DEF Same, Sources, Living
  <2> QED
    BY <2>2, <1>4
<1>8. CASE st[q] = "none"
  <2>1. PICK a, b : Forks(p, q, a, b)
    BY <1>8, NewStack
  <2>2. x \in Sources(p)
    BY <1>4, <1>8, <2>1, SourcesFork DEF FreePid
  <2> QED
    BY <1>1, <1>4, <2>2
<1> QED
  BY <1>6, <1>7, <1>8

(* A step of the shell. *)
LEMMA UnfedShell ==
  ASSUME IInv, Home, Separate, Attached, Unfed, Step(Shell) \/ Types(Shell)
  PROVE  Unfed'
<1> SUFFICES ASSUME st'[Shell] \in {"run", "stop"}, Top(Shell)'.op # "close_pipe",
                    NEW q \in Pid \ {Shell}, st'[q] \in {"run", "stop"},
                    NEW x \in Sources(q)', x \in fd'[Shell].wr
             PROVE  FALSE
  BY DEF Unfed, Living
<1>1. /\ st[Shell] = "run" /\ Shell \in Pid /\ Shell \in Living /\ Owned
      /\ Top(Shell).op \notin {"left", "right"}
      /\ st \in [Pid -> {"none", "run", "stop", "zombie"}]
      /\ fd[Shell] \in Descriptors /\ mem[Shell] \in Memory
  BY ProcessAssumption, Stepping, ShellTop DEF IInv, TypeOK
<1>2. /\ IInv'
      /\ fd' \in [Pid -> Descriptors]
  BY <1>1, NextOK DEF Next, IInv, TypeOK
<1>3. x \in PipeId
  BY <1>1, <1>2 DEF Descriptors
<1>4. ~ LeftChild(Shell) /\ ~ RightChild(Shell)
  BY <1>1 DEF LeftChild, RightChild, At
<1>5. ASSUME NEW r \in Living \ {Shell}, Top(Shell).op # "close_pipe"
      PROVE  Sources(r) \cap fd[Shell].wr = {}
  BY <1>1, <1>5 DEF Unfed
<1>6. ~ ClosePipe(Shell)
  <2>1. ASSUME ClosePipe(Shell)  PROVE FALSE
    <3>1. fd'[Shell].wr = fd[Shell].wr \ {mem[Shell].w}
      BY <1>1, <2>1 DEF ClosePipe, IInv, TypeOK, Descriptors
    <3> QED
      BY <1>1, <3>1 DEF Owned
  <2> QED
    BY <2>1
<1>7. CASE st[q] # "none"
  <2>1. q \in Living /\ Same(q) /\ x \in Sources(q)
    <3>1. st'[q] = st[q] /\ Same(q)
      BY <1>7, <1>1, OthersKept
    <3> QED
      BY <3>1 DEF Same, Sources, Living
  <2>2. CASE PipeHandler(Shell)
    <3>1. PICK y \in FreePipe :
            fd' = [fd EXCEPT ![Shell].rd = @ \cup {y}, ![Shell].wr = @ \cup {y}]
      BY <2>2 DEF PipeHandler
    <3>2. fd'[Shell].wr = fd[Shell].wr \cup {y} /\ Top(Shell).op # "close_pipe"
      BY <1>1, <2>2, <3>1 DEF PipeHandler, At, IInv, TypeOK, Descriptors
    <3>3. x \notin fd[Shell].wr
      BY <1>5, <2>1, <3>2
    <3>4. x = y
      BY <3>2, <3>3
    <3>5. CASE x = fd[q].in
      BY <2>1, <3>4, <3>5 DEF FreePipe, Readers
    <3>6. CASE Holds(todo[q], TakeOp) /\ x = mem[q].r
      <4>1. mem[q].r \in fd[q].rd
        BY <2>1, <3>6, HeldPipe, ForkOpIsPipeOp DEF Open
      <4> QED
        BY <2>1, <3>4, <3>6, <4>1 DEF FreePipe, Readers
    <3> QED
      BY <2>1, <3>5, <3>6 DEF Sources
  <2>3. CASE ~ PipeHandler(Shell)
    <3>1. fd'[Shell].wr = fd[Shell].wr /\ Top(Shell).op # "close_pipe"
      BY <1>1, <1>4, <1>6, <2>3, PipeForms
    <3> QED
      BY <1>5, <2>1, <3>1
  <2> QED
    BY <2>2, <2>3
<1>8. CASE st[q] = "none"
  <2>1. PICK a, b : Forks(Shell, q, a, b)
    BY <1>1, <1>8, NewStack
  <2>2. x = fd[Shell].in /\ ~ Excused(todo[Shell], mem[Shell].line)
    BY <1>1, <1>3, <1>8, <2>1, SourcesFork DEF FreePid
  <2> QED
    BY <1>1, <1>3, <2>2 DEF Attached
<1> QED
  BY <1>7, <1>8

LEMMA UnfedInit == Init => Unfed
BY ProcessAssumption DEF Init, Unfed, Closed, Living

LEMMA UnfedNext ==
  IInv /\ Home /\ Separate /\ Attached /\ Unfed /\ [Next]_vars => Unfed'
<1> SUFFICES ASSUME IInv, Home, Separate, Attached, Unfed, [Next]_vars PROVE Unfed'
  OBVIOUS
<1>1. CASE CtrlC \/ CtrlBackslash \/ CtrlZ
  <2>1. \A q \in Pid : st'[q] \in {"run", "stop"} => q \in Living /\ Same(q)
    BY <1>1, SignalsKeep
  <2>2. \A q \in Living' : q \in Living /\ Sources(q)' = Sources(q) /\ fd'[q] = fd[q]
                           /\ Top(q)' = Top(q)
    BY <2>1 DEF Living, Sources, Same, Top
  <2> QED
    BY <2>2, ProcessAssumption DEF Unfed
<1>2. CASE UNCHANGED vars
  BY <1>2 DEF vars, procs, Unfed, Living, Sources, Top
<1>3. ASSUME NEW p \in Pid, Step(p) \/ Types(p)  PROVE Unfed'
  BY <1>3, UnfedShell, UnfedOthers
<1> QED
  BY <1>1, <1>2, <1>3 DEF Next, Over

(***************************************************************************)
(* The theorems.                                                           *)
(***************************************************************************)
(* Every reachable state satisfies Separate, Attached and Unfed: the       *)
(* invariant behind the theorem below, over those of the other modules.    *)
THEOREM PipesApart == Spec => [](IInv /\ Home /\ Separate /\ Attached /\ Unfed)
<1>1. Init => Separate /\ Attached /\ Unfed
  BY SeparateInit, AttachedInit, UnfedInit
<1>2. (IInv /\ Home) /\ (Separate /\ Attached /\ Unfed) /\ [Next]_vars
        => (Separate /\ Attached /\ Unfed)'
  BY SeparateNext, AttachedNext, UnfedNext
<1> QED
  BY <1>1, <1>2, AtHome, PTL DEF Spec

(* No program holds the write end of the pipe it reads, and the shell,     *)
(* while it waits, holds it neither: a program that reads a pipe sees its  *)
(* end when the programs that feed it have ended.                          *)
THEOREM NoneFeedsItself == Spec => []NoSelfFeed
<1>1. IInv /\ Home /\ Separate /\ Attached /\ Unfed => NoSelfFeed
  <2> SUFFICES ASSUME IInv, Home, Separate, Attached, Unfed,
                      NEW p \in Pid, IsProgram(p), fd[p].in \in PipeId
               PROVE  /\ p \notin Writers(fd[p].in)
                      /\ At(Shell, "wait") => Shell \notin Writers(fd[p].in)
    BY DEF NoSelfFeed
  <2>1. /\ p \in Living /\ Top(p).op \in ProgramOp \ {"exec"} /\ Top(p) = todo[p][1]
        /\ Unshared(todo[p], mem[p], fd[p])
    BY RunningFrame DEF IsProgram, Living, ProgramOp, ProgramKind, Separate
  <2>2. ~ Excused(todo[p], mem[p].line)
    BY <2>1 DEF Excused, ProgramOp, ProgramKind
  <2>3. fd[p].in \notin fd[p].wr /\ fd[p].out # fd[p].in
    BY <2>1, <2>2 DEF Unshared
  <2>4. ASSUME At(Shell, "wait")  PROVE Shell \notin Writers(fd[p].in)
    <3>1. /\ st[Shell] = "run" /\ Top(Shell).op = "wait" /\ Shell \in Living /\ p # Shell
      BY <2>1, <2>4, ShellTop DEF At, ProgramOp, ProgramKind
    <3>2. fd[p].in \notin fd[Shell].wr
      BY <2>1, <3>1 DEF Unfed, Sources
    <3>3. fd[Shell].out # fd[p].in
      <4>1. ASSUME fd[Shell].out \in PipeId  PROVE fd[Shell].out \in fd[Shell].wr
        <5>1. fd[Shell].out = mem[Shell].w /\ Holds(todo[Shell], LeftEnd)
          BY <3>1, <4>1 DEF Attached
        <5>2. Holds(todo[Shell], PipeOp)
          BY <5>1 DEF Holds, LeftEnd, PipeOp
        <5> QED
          BY <3>1, <5>1, <5>2, HeldPipe DEF Open
      <4> QED
        BY <3>2, <4>1
    <3> QED
      BY <3>2, <3>3 DEF Writers
  <2> QED
    BY <2>3, <2>4 DEF Writers
<1> QED
  BY <1>1, PipesApart, PTL

(***************************************************************************)
(* ArgumentsOwnStage.                                                      *)
(*                                                                         *)
(* tree_transversal() leaves the words of a command in                     *)
(* sh->tree_arg_value, one variable of the process, and the next command   *)
(* it runs adds them to its own.  The words belong to that command because *)
(* of what is on the stack meanwhile: outside the handlers of a pipe every *)
(* node that is left to do is of one stage of the line, and in them the    *)
(* only nodes are here-documents, which set no word unless their stage has *)
(* two.                                                                    *)
(***************************************************************************)
TreeOp == {"bst", "heredoc_open"}
SideOp == {"fork_left", "fork_right", "left", "right"}

(* Nodes without a pipe, and two of them in one stage. *)
Single(line, f) == TokensOf(line, f.lo, f.hi, "|") = {}
Alike(line, f, g) ==
  Single(line, f) /\ Single(line, g) /\ Stage(line, f.lo) = Stage(line, g.lo)
Documented(line, k) ==
  \E i \in 1 .. Len(line) : Stage(line, i) = k /\ TypeAssign(line[i]) = "HEREDOC"

(* The pending word is of the stage of every node left. *)
Pending(s, m) ==
  m.arg # 0 =>
    /\ m.arg \in 1 .. Len(m.line) /\ ~ Holds(s, PipeOp)
    /\ \A i \in 1 .. Len(s) : s[i].op \in TreeOp =>
         Single(m.line, s[i]) /\ Stage(m.line, s[i].lo) = Stage(m.line, m.arg)

(* Two nodes are of one stage; those a pipe waits for are here-documents.  *)
OneStage(s, line) ==
  ~ Holds(s, PipeOp) => \A i, j \in 1 .. Len(s) :
    i # j /\ s[i].op \in TreeOp /\ s[j].op \in TreeOp => Alike(line, s[i], s[j])
PipeNodes(s, line) ==
  Holds(s, PipeOp) =>
    /\ TokensOf(line, 1, Len(line), "|") # {} /\ Holds(s, SideOp)
    /\ \A i \in 1 .. Len(s) : s[i].op \in TreeOp =>
         Single(line, s[i]) /\ Documented(line, Stage(line, s[i].lo))

(* No node waits for the fork of a pipe. *)
SidesLast(s) ==
  \A i, j \in 1 .. Len(s) : i < j /\ s[i].op \in SideOp => s[j].op \notin TreeOp

(* The word given to a program is of the stage of its command. *)
WordOwn(f, line) ==
  f.op \in ProgramOp /\ f.hi # 0 =>
    f.hi \in 1 .. Len(line) /\ Stage(line, f.hi) = Stage(line, f.lo)
FramesOwn(s, line) ==
  \A i \in 1 .. Len(s) : /\ s[i].op = "heredoc_open" => Single(line, s[i])
                         /\ WordOwn(s[i], line)

Args(s, m) ==
  Pending(s, m) /\ OneStage(s, m.line) /\ PipeNodes(s, m.line)
  /\ SidesLast(s) /\ FramesOwn(s, m.line)
Arguments == \A p \in Living : ~ WordWithHeredoc(mem[p].line) => Args(todo[p], mem[p])

(***************************************************************************)
(* Stages.                                                                 *)
(***************************************************************************)
(* Tokens with no pipe from one to the other are of one stage. *)
LEMMA SameStage ==
  ASSUME NEW line, NEW lo \in Nat, NEW hi \in Nat, lo >= 1, TokensOf(line, lo, hi, "|") = {},
         NEW i \in lo .. hi, NEW j \in lo .. hi
  PROVE  Stage(line, i) = Stage(line, j)
<1>1. ASSUME NEW n \in lo .. hi
      PROVE  TokensOf(line, 1, n - 1, "|") = TokensOf(line, 1, lo - 1, "|")
  BY DEF TokensOf
<1> QED
  BY <1>1 DEF Stage

LEMMA Within ==
  ASSUME NEW line, NEW f, NEW g, f.lo \in Nat, f.hi \in Nat, f.lo >= 1, Single(line, f),
         g.lo \in f.lo .. f.hi, g.hi \in g.lo .. f.hi
  PROVE  Single(line, g) /\ Stage(line, g.lo) = Stage(line, f.lo)
<1>1. TokensOf(line, g.lo, g.hi, "|") = {}
  BY DEF Single, TokensOf
<1>2. f.lo \in f.lo .. f.hi
  OBVIOUS
<1> QED
  BY <1>1, <1>2, SameStage DEF Single

(***************************************************************************)
(* The frames a step adds, and what they mean to the invariant.            *)
(***************************************************************************)
(* A frame that the handler of f adds to a stack. *)
Added(f, g, line) ==
  \/ g.op \notin TreeOp \cup PipeOp \cup ProgramOp
  \/ /\ g.op \in TreeOp /\ f.op \in TreeOp
     /\ Single(line, f) /\ Single(line, g) /\ Stage(line, g.lo) = Stage(line, f.lo)
  \/ g.op = "bst" /\ f.op \in {"left", "right"}
  \/ g.op = "fork_right" /\ f.op = "fork_left"
  \/ g.op \in ProgramOp /\ WordOwn(g, line)

LEMMA ArgsPush ==
  ASSUME NEW s \in Seq(Frame), s # <<>>, NEW m, NEW n, n.line = m.line, Args(s, m),
         s[1].op \in SideOp => ~ HoldsBelow(s, PipeOp),
         NEW a \in Seq(Frame), NEW t, t = a \o Tail(s),
         \A i \in 1 .. Len(a) : Added(s[1], a[i], m.line),
         s[1].op \in {"left", "right"} => Len(a) <= 1,
         \/ n.arg = m.arg
         \/ n.arg = 0
         \/ /\ n.arg \in 1 .. Len(m.line) /\ s[1].op \in TreeOp /\ ~ Holds(s, PipeOp)
            /\ Single(m.line, s[1]) /\ Stage(m.line, s[1].lo) = Stage(m.line, n.arg)
  PROVE  Args(t, n)
<1> DEFINE line == m.line
           k(i) == i - Len(a) + 1
<1>1. /\ Len(a) \in Nat /\ Len(s) \in Nat /\ Len(s) >= 1 /\ Len(t) \in Nat
      /\ 1 \in 1 .. Len(s)
      /\ \A i \in 1 .. Len(t) :
           \/ i \in 1 .. Len(a) /\ t[i] = a[i]
           \/ k(i) \in 2 .. Len(s) /\ t[i] = s[k(i)] /\ i > Len(a)
  <2>1. /\ t \in Seq(Frame) /\ Len(a) \in Nat /\ Len(s) \in Nat /\ Len(s) >= 1
        /\ \A i \in 1 .. Len(t) :
             \/ i \in 1 .. Len(a) /\ t[i] = a[i]
             \/ i - Len(a) + 1 \in 2 .. Len(s) /\ t[i] = s[i - Len(a) + 1]
    BY Pushed
  <2>2. Len(t) \in Nat
    BY <2>1, LenProperties
  <2>3. \A i \in 1 .. Len(t) : i - Len(a) + 1 \in 2 .. Len(s) => i > Len(a)
    BY <2>1, <2>2
  <2> QED
    BY <2>1, <2>2, <2>3
<1>2. \A i \in 2 .. Len(s) : i \in 1 .. Len(s) /\ i # 1 /\ 1 < i
  BY <1>1
<1>3. \A P : /\ Holds(t, P) <=> Holds(a, P) \/ HoldsBelow(s, P)
             /\ Holds(s, P) <=> s[1].op \in P \/ HoldsBelow(s, P)
  BY HoldsPush, HoldsTop
<1>4. Holds(a, PipeOp) => s[1].op = "fork_left" /\ Holds(a, SideOp)
  BY DEF Holds, Added, TreeOp, PipeOp, ProgramOp, ProgramKind, SideOp
<1>5. /\ TreeOp \cap PipeOp = {} /\ SideOp \subseteq PipeOp
      /\ {"left", "right", "fork_left"} \subseteq SideOp
      /\ TreeOp \cap ProgramOp = {} /\ PipeOp \cap ProgramOp = {}
  BY DEF TreeOp, PipeOp, SideOp, ProgramOp, ProgramKind
<1>6. ASSUME NEW i \in 1 .. Len(a), a[i].op \in TreeOp
      PROVE  \/ /\ s[1].op \in TreeOp /\ Single(line, s[1]) /\ Single(line, a[i])
                /\ Stage(line, a[i].lo) = Stage(line, s[1].lo)
             \/ s[1].op \in {"left", "right"} /\ Len(a) <= 1 /\ i = 1
  <2>1. \/ /\ s[1].op \in TreeOp /\ Single(line, s[1]) /\ Single(line, a[i])
           /\ Stage(line, a[i].lo) = Stage(line, s[1].lo)
        \/ s[1].op \in {"left", "right"}
    BY <1>5, <1>6 DEF Added, TreeOp
  <2>2. Len(a) <= 1 => i = 1
    BY <1>1
  <2> QED
    BY <2>1, <2>2
<1>7. /\ Pending(s, m) /\ OneStage(s, line) /\ PipeNodes(s, line)
      /\ SidesLast(s) /\ FramesOwn(s, line)
  BY DEF Args
<1>8. \A i \in 1 .. Len(a) : /\ a[i].op = "heredoc_open" => Single(line, a[i])
                             /\ WordOwn(a[i], line)
                             /\ a[i].op \in SideOp => s[1].op = "fork_left"
  BY DEF Added, TreeOp, PipeOp, SideOp, ProgramOp, ProgramKind, WordOwn
<1>9. /\ n.line = line
      /\ s[1].op \in SideOp => ~ HoldsBelow(s, PipeOp)
      /\ \/ n.arg = m.arg
         \/ n.arg = 0
         \/ /\ n.arg \in 1 .. Len(line) /\ s[1].op \in TreeOp /\ ~ Holds(s, PipeOp)
            /\ Single(line, s[1]) /\ Stage(line, s[1].lo) = Stage(line, n.arg)
  OBVIOUS
<1> HIDE DEF line, k
<1>10. ~ Holds(s, PipeOp) => ~ Holds(t, PipeOp)
  BY <1>3, <1>4, <1>5
<1>11. Pending(t, n)
  <2> SUFFICES ASSUME n.arg # 0
               PROVE  /\ n.arg \in 1 .. Len(line) /\ ~ Holds(t, PipeOp)
                      /\ \A i \in 1 .. Len(t) : t[i].op \in TreeOp =>
                           Single(line, t[i]) /\ Stage(line, t[i].lo) = Stage(line, n.arg)
    BY <1>9 DEF Pending
  <2>1. n.arg \in 1 .. Len(line) /\ ~ Holds(s, PipeOp)
    BY <1>7, <1>9 DEF Pending, line
  <2>2. s[1].op \in TreeOp =>
          Single(line, s[1]) /\ Stage(line, s[1].lo) = Stage(line, n.arg)
    BY <1>1, <1>7, <1>9 DEF Pending, line
  <2>3. ASSUME NEW i \in 2 .. Len(s), s[i].op \in TreeOp
        PROVE  Single(line, s[i]) /\ Stage(line, s[i].lo) = Stage(line, n.arg)
    <3>1. CASE n.arg = m.arg
      BY <1>2, <1>7, <2>3, <3>1 DEF Pending, line
    <3>2. CASE n.arg # m.arg
      <4>1. s[1].op \in TreeOp /\ Stage(line, s[1].lo) = Stage(line, n.arg)
        BY <1>9, <3>2
      <4>2. Alike(line, s[1], s[i])
        BY <1>1, <1>2, <1>7, <2>1, <2>3, <4>1 DEF OneStage
      <4> QED
        BY <4>1, <4>2 DEF Alike
    <3> QED
      BY <3>1, <3>2
  <2>4. s[1].op \notin {"left", "right"}
    BY <1>3, <1>5, <2>1
  <2>5. ASSUME NEW i \in 1 .. Len(t), t[i].op \in TreeOp
        PROVE  Single(line, t[i]) /\ Stage(line, t[i].lo) = Stage(line, n.arg)
    BY <1>1, <1>6, <2>2, <2>3, <2>4, <2>5
  <2> QED
    BY <1>10, <2>1, <2>5
<1>12. OneStage(t, line)
  <2> SUFFICES ASSUME ~ Holds(t, PipeOp), NEW i \in 1 .. Len(t), NEW j \in 1 .. Len(t),
                      i # j, t[i].op \in TreeOp, t[j].op \in TreeOp
               PROVE  Alike(line, t[i], t[j])
    BY DEF OneStage
  <2>1. CASE Holds(s, PipeOp)
    <3>1. ~ HoldsBelow(s, PipeOp) /\ s[1].op \in SideOp
      <4>1. ~ HoldsBelow(s, PipeOp)
        BY <1>3
      <4>2. ~ HoldsBelow(s, SideOp)
        BY <4>1, <1>5 DEF HoldsBelow
      <4> QED
        BY <4>1, <4>2, <1>3, <1>7, <2>1 DEF PipeNodes
    <3>2. \A x \in 2 .. Len(s) : s[x].op \notin TreeOp
      BY <1>1, <1>2, <1>7, <3>1 DEF SidesLast
    <3>3. i \in 1 .. Len(a) /\ t[i] = a[i] /\ j \in 1 .. Len(a) /\ t[j] = a[j]
      BY <1>1, <3>2
    <3>4. i = 1 /\ j = 1
      BY <1>5, <1>6, <3>1, <3>3
    <3> QED
      BY <3>4
  <2>2. CASE ~ Holds(s, PipeOp)
    <3>1. s[1].op \notin {"left", "right"}
      BY <1>3, <1>5, <2>2
    <3>2. \A x \in 1 .. Len(a) : a[x].op \in TreeOp =>
             /\ s[1].op \in TreeOp /\ Single(line, s[1]) /\ Single(line, a[x])
             /\ Stage(line, a[x].lo) = Stage(line, s[1].lo)
      BY <1>6, <3>1
    <3>3. \A x, y \in 1 .. Len(s) :
            x # y /\ s[x].op \in TreeOp /\ s[y].op \in TreeOp => Alike(line, s[x], s[y])
      BY <1>7, <2>2 DEF OneStage
    <3>4. CASE i \in 1 .. Len(a) /\ t[i] = a[i]
      <4>1. CASE j \in 1 .. Len(a) /\ t[j] = a[j]
        BY <3>2, <3>4, <4>1 DEF Alike
      <4>2. CASE k(j) \in 2 .. Len(s) /\ t[j] = s[k(j)]
        <5>1. Alike(line, s[1], s[k(j)])
          BY <1>1, <1>2, <3>2, <3>3, <3>4, <4>2
        <5> QED
          BY <3>2, <3>4, <4>2, <5>1 DEF Alike
      <4> QED
        BY <1>1, <4>1, <4>2
    <3>5. CASE k(i) \in 2 .. Len(s) /\ t[i] = s[k(i)]
      <4>1. CASE j \in 1 .. Len(a) /\ t[j] = a[j]
        <5>1. Alike(line, s[1], s[k(i)])
          BY <1>1, <1>2, <3>2, <3>3, <3>5, <4>1
        <5> QED
          BY <3>2, <3>5, <4>1, <5>1 DEF Alike
      <4>2. CASE k(j) \in 2 .. Len(s) /\ t[j] = s[k(j)]
        <5>1. k(i) # k(j)
          BY <1>1 DEF k
        <5> QED
          BY <1>2, <3>3, <3>5, <4>2, <5>1
      <4> QED
        BY <1>1, <4>1, <4>2
    <3> QED
      BY <1>1, <3>4, <3>5
  <2> QED
    BY <2>1, <2>2
<1>13. PipeNodes(t, line)
  <2> SUFFICES ASSUME Holds(t, PipeOp)
               PROVE  /\ TokensOf(line, 1, Len(line), "|") # {} /\ Holds(t, SideOp)
                      /\ \A i \in 1 .. Len(t) : t[i].op \in TreeOp =>
                           Single(line, t[i]) /\ Documented(line, Stage(line, t[i].lo))
    BY DEF PipeNodes
  <2>1. /\ TokensOf(line, 1, Len(line), "|") # {} /\ Holds(s, SideOp)
        /\ \A i \in 1 .. Len(s) : s[i].op \in TreeOp =>
             Single(line, s[i]) /\ Documented(line, Stage(line, s[i].lo))
    BY <1>7, <1>10 DEF PipeNodes
  <2>2. Holds(t, SideOp)
    BY <1>3, <1>4, <1>9, <2>1
  <2>3. s[1].op \notin {"left", "right"}
    BY <1>3, <1>4, <1>5, <1>9
  <2>4. ASSUME NEW i \in 1 .. Len(t), t[i].op \in TreeOp
        PROVE  Single(line, t[i]) /\ Documented(line, Stage(line, t[i].lo))
    <3>1. CASE i \in 1 .. Len(a) /\ t[i] = a[i]
      BY <1>1, <1>6, <2>1, <2>3, <2>4, <3>1
    <3>2. CASE k(i) \in 2 .. Len(s) /\ t[i] = s[k(i)]
      BY <1>2, <2>1, <2>4, <3>2
    <3> QED
      BY <1>1, <3>1, <3>2
  <2> QED
    BY <2>1, <2>2, <2>4
<1>14. SidesLast(t)
  <2> SUFFICES ASSUME NEW i \in 1 .. Len(t), NEW j \in 1 .. Len(t), i < j,
                      t[i].op \in SideOp, t[j].op \in TreeOp
               PROVE  FALSE
    BY DEF SidesLast
  <2>1. \A x, y \in 1 .. Len(s) : x < y /\ s[x].op \in SideOp => s[y].op \notin TreeOp
    BY <1>7 DEF SidesLast
  <2>2. CASE i \in 1 .. Len(a) /\ t[i] = a[i]
    <3>1. s[1].op = "fork_left"
      BY <1>8, <2>2
    <3>2. CASE j \in 1 .. Len(a) /\ t[j] = a[j]
      BY <1>5, <1>6, <3>1, <3>2
    <3>3. CASE k(j) \in 2 .. Len(s) /\ t[j] = s[k(j)]
      BY <1>1, <1>2, <1>5, <2>1, <3>1, <3>3
    <3> QED
      BY <1>1, <3>2, <3>3
  <2>3. CASE k(i) \in 2 .. Len(s) /\ t[i] = s[k(i)] /\ i > Len(a)
    <3>1. k(j) \in 2 .. Len(s) /\ t[j] = s[k(j)] /\ k(i) < k(j)
      BY <1>1, <2>3 DEF k
    <3> QED
      BY <1>2, <2>1, <2>3, <3>1
  <2> QED
    BY <1>1, <2>2, <2>3
<1>15. FramesOwn(t, line)
  <2> SUFFICES ASSUME NEW i \in 1 .. Len(t)
               PROVE  (t[i].op = "heredoc_open" => Single(line, t[i])) /\ WordOwn(t[i], line)
    BY DEF FramesOwn
  <2> QED
    BY <1>1, <1>2, <1>7, <1>8 DEF FramesOwn
<1> QED
  BY <1>9, <1>11, <1>12, <1>13, <1>14, <1>15 DEF Args

(***************************************************************************)
(* What a step adds.                                                       *)
(***************************************************************************)
(* The nodes inside another. *)
Inside(f) == {g \in Frame : g.op = "bst" /\ g.lo \in f.lo .. f.hi /\ g.hi \in g.lo .. f.hi}

LEMMA BstInside ==
  ASSUME NEW f \in Frame, NEW lo \in Nat, NEW hi \in Nat, lo >= f.lo, hi <= f.hi
  PROVE  Bst(lo, hi) \in Seq(Inside(f)) /\ Len(Bst(lo, hi)) <= 1
<1> DEFINE g == On("bst", lo, hi, Nobody)
<1>1. g \in Frame /\ g.op = "bst" /\ g.lo = lo /\ g.hi = hi /\ f.lo \in Nat /\ f.hi \in Nat
  BY DEF Frame, On, FrameOp
<1>2. Bst(lo, hi) = IF lo > hi THEN <<>> ELSE <<g>>
  BY DEF Bst
<1> HIDE DEF g
<1>3. CASE lo > hi
  BY <1>2, <1>3, EmptySeq
<1>4. CASE ~ (lo > hi)
  <2>1. g \in Inside(f)
    BY <1>1, <1>4 DEF Inside
  <2>2. <<g>> \in Seq(Inside(f)) /\ Len(<<g>>) = 1
    BY <2>1
  <2> QED
    BY <1>2, <1>4, <2>2
<1> QED
  BY <1>3, <1>4

LEMMA PartsInside ==
  ASSUME IInv, NEW p \in Pid, st[p] = "run", Top(p).op \in NodeOp
  PROVE  /\ LeftBst(p) \in Seq(Inside(Top(p))) /\ Len(LeftBst(p)) <= 1
         /\ RightBst(p) \in Seq(Inside(Top(p))) /\ Len(RightBst(p)) <= 1
         /\ TreeTransversal(p) \in Seq(Inside(Top(p)))
<1>1. /\ Top(p).lo \in 1 .. Top(p).hi /\ Top(p).lo \in Nat /\ Top(p).hi \in Nat
      /\ RootAt(p) \in Top(p).lo .. Top(p).hi /\ Top(p) \in Frame
  BY NodeParts, RunningFrame DEF Frame
<1>2. /\ RootAt(p) - 1 \in Nat /\ RootAt(p) + 1 \in Nat
      /\ RootAt(p) - 1 <= Top(p).hi /\ RootAt(p) + 1 >= Top(p).lo
  BY <1>1
<1>3. /\ LeftBst(p) \in Seq(Inside(Top(p))) /\ Len(LeftBst(p)) <= 1
      /\ RightBst(p) \in Seq(Inside(Top(p))) /\ Len(RightBst(p)) <= 1
  <2> DEFINE f == Top(p)
             before == RootAt(p) - 1
             after == RootAt(p) + 1
  <2>1. /\ f \in Frame /\ before \in Nat /\ after \in Nat /\ f.lo \in Nat /\ f.hi \in Nat
        /\ before <= f.hi /\ after >= f.lo /\ f.lo >= f.lo /\ f.hi <= f.hi
        /\ LeftBst(p) = Bst(f.lo, before) /\ RightBst(p) = Bst(after, f.hi)
    BY <1>1, <1>2 DEF LeftBst, RightBst
  <2> HIDE DEF f, before, after
  <2>2. /\ LeftBst(p) \in Seq(Inside(f)) /\ Len(LeftBst(p)) <= 1
        /\ RightBst(p) \in Seq(Inside(f)) /\ Len(RightBst(p)) <= 1
    BY <2>1, BstInside
  <2> QED
    BY <2>2 DEF f
<1> DEFINE x == IF IsArgument(p) THEN <<>> ELSE RightBst(p)
           y == LeftBst(p)
           S == Inside(Top(p))
<1>4. x \in Seq(S) /\ y \in Seq(S) /\ TreeTransversal(p) = x \o y
  BY <1>3, EmptySeq DEF TreeTransversal
<1> HIDE DEF x, y, S
<1>5. x \o y \in Seq(S)
  BY <1>4, ConcatProperties
<1> QED
  BY <1>3, <1>4, <1>5 DEF S

(* p replaces its top frame by frames that the invariant allows. *)
Adds(p) ==
  \E a \in Seq(Frame) :
    /\ todo'[p] = a \o Tail(todo[p])
    /\ \A i \in 1 .. Len(a) : Added(Top(p), a[i], mem[p].line)
    /\ Top(p).op \in {"left", "right"} => Len(a) <= 1

LEMMA AddsNothing ==
  ASSUME IInv, NEW p \in Pid, todo' = Return(p, <<>>)  PROVE Adds(p)
<1> DEFINE a == <<>>
<1>1. a \in Seq(Frame) /\ Len(a) = 0 /\ todo'[p] = a \o Tail(todo[p])
  BY EmptySeq DEF Return, IInv, TypeOK
<1> HIDE DEF a
<1>2. (\A i \in 1 .. Len(a) : Added(Top(p), a[i], mem[p].line)) /\ Len(a) <= 1
  BY <1>1
<1> QED
  BY <1>1, <1>2 DEF Adds

LEMMA AddsOne ==
  ASSUME IInv, NEW p \in Pid, NEW f \in Frame, todo' = Return(p, <<f>>),
         Added(Top(p), f, mem[p].line)
  PROVE  Adds(p)
<1> DEFINE a == <<f>>
<1>1. a \in Seq(Frame) /\ Len(a) = 1 /\ a[1] = f /\ todo'[p] = a \o Tail(todo[p])
  BY DEF Return, IInv, TypeOK
<1> HIDE DEF a
<1>2. (\A i \in 1 .. Len(a) : Added(Top(p), a[i], mem[p].line)) /\ Len(a) <= 1
  BY <1>1
<1> QED
  BY <1>1, <1>2 DEF Adds

LEMMA AddsInside ==
  ASSUME IInv, NEW p \in Pid, st[p] = "run", NEW a \in Seq(Inside(Top(p))),
         todo' = Return(p, a),
         \/ Top(p).op \in {"left", "right"} /\ Len(a) <= 1
         \/ Top(p).op \in TreeOp /\ Single(mem[p].line, Top(p))
  PROVE  Adds(p)
<1>1. a \in Seq(Frame) /\ todo'[p] = a \o Tail(todo[p])
  <2>1. Inside(Top(p)) \subseteq Frame
    BY DEF Inside
  <2> QED
    BY <2>1, SeqMonotonic DEF Return, IInv, TypeOK
<1>2. ASSUME NEW i \in 1 .. Len(a)  PROVE Added(Top(p), a[i], mem[p].line)
  <2>1. a[i] \in Inside(Top(p))
    BY <1>2, ElementOfSeq
  <2>2. CASE Top(p).op \in {"left", "right"}
    BY <2>1, <2>2 DEF Inside, Added
  <2>3. CASE Top(p).op \in TreeOp /\ Single(mem[p].line, Top(p))
    <3>1. /\ Top(p).lo \in Nat /\ Top(p).hi \in Nat /\ Top(p).lo >= 1
      BY <2>3, RunningFrame DEF Frame, Indexed, TreeOp, NodeOp
    <3>2. Single(mem[p].line, a[i]) /\ Stage(mem[p].line, a[i].lo) = Stage(mem[p].line, Top(p).lo)
      BY <2>1, <2>3, <3>1, Within DEF Inside
    <3> QED
      BY <2>1, <2>3, <3>2 DEF Inside, Added, TreeOp
  <2> QED
    BY <2>2, <2>3
<1>3. Top(p).op \in {"left", "right"} => Len(a) <= 1
  BY DEF TreeOp
<1> QED
  BY <1>1, <1>2, <1>3 DEF Adds
(* A node that is no pipe has none inside. *)
LEMMA SingleNode ==
  ASSUME IInv, NEW p \in Pid, st[p] = "run", Top(p).op \in NodeOp, KindAt(p) # "PIPE"
  PROVE  Single(mem[p].line, Top(p))
<1>1. /\ Top(p).lo \in 1 .. Top(p).hi /\ Top(p).hi \in 1 .. Len(mem[p].line)
      /\ Top(p).lo \in Nat /\ mem[p].line \in Lines \cup {<<>>}
  BY NodeParts, RunningFrame DEF Frame
<1> QED
  BY <1>1, RootInside DEF Single, KindAt

LEMMA AddsProgram ==
  ASSUME IInv, NEW p \in Pid, Args(todo[p], mem[p]),
         Execve(p) \/ HeredocChild(p) \/ ProgramReads(p) \/ (Writes(p) /\ ~ At(p, "echo"))
  PROVE  Adds(p)
<1>1. /\ st[p] = "run" /\ Top(p) \in Frame /\ Top(p) = todo[p][1] /\ 1 \in 1 .. Len(todo[p])
  <2>1. st[p] = "run"
    BY DEF Execve, HeredocChild, ProgramReads, Reading, Writes, Writing, At
  <2> QED
    BY <2>1, RunningFrame
<1>2. WordOwn(Top(p), mem[p].line)
  BY <1>1 DEF Args, FramesOwn
<1>3. ASSUME Execve(p)  PROVE Adds(p)
  <2> DEFINE f == On(CommandKind(p), Top(p).lo, Top(p).hi, Nobody)
  <2>1. Top(p).op = "exec" /\ todo' = Return(p, <<f>>)
    BY <1>3 DEF Execve, At
  <2>2. CommandKind(p) \in ProgramKind
    BY <1>3, <1>1, <2>1, CommandType, RunningFrame
       DEF Execve, Indexed, Command, LastOp, ProgramOp, ProgramKind
  <2>3. f \in Frame /\ f.op \in ProgramOp /\ f.lo = Top(p).lo /\ f.hi = Top(p).hi
    BY <1>1, <2>2 DEF On, Frame, FrameOp, ProgramOp
  <2> HIDE DEF f
  <2>4. WordOwn(f, mem[p].line)
    BY <1>2, <2>1, <2>3 DEF WordOwn, ProgramOp
  <2> QED
    BY <2>1, <2>3, <2>4, AddsOne DEF Added
<1>4. ASSUME HeredocChild(p)  PROVE Adds(p)
  <2> DEFINE f == On("heredoc_input", 0, 0, Top(p).ref)
  <2>1. todo' = Return(p, <<f>>) /\ f \in Frame /\ f.op = "heredoc_input"
    BY <1>1, <1>4 DEF HeredocChild, On, Frame, FrameOp
  <2> HIDE DEF f
  <2> QED
    BY <2>1, AddsOne DEF Added, TreeOp, PipeOp, ProgramOp, ProgramKind
<1>5. ASSUME NEW f \in Frame, todo' = Return(p, <<f>>), f.op \in ProgramOp,
             Top(p).op \in ProgramOp, f.lo = Top(p).lo, f.hi = Top(p).hi
      PROVE  Adds(p)
  <2>1. WordOwn(f, mem[p].line)
    BY <1>2, <1>5 DEF WordOwn
  <2> QED
    BY <1>5, <2>1, AddsOne DEF Added
<1>6. ASSUME ProgramReads(p)  PROVE Adds(p)
  <2> DEFINE f == [Top(p) EXCEPT !.n = @ + 1, !.op = IF @ = "copy" THEN "put" ELSE @]
  <2>1. Top(p).op \in {"copy", "head"} /\ todo' = Return(p, <<f>>)
    BY <1>6 DEF ProgramReads, Reading, At
  <2>2. Top(p).n + 1 \in Nat
    BY <1>1 DEF Frame
  <2>3. f \in Frame /\ f.op \in {"put", "head"} /\ f.lo = Top(p).lo /\ f.hi = Top(p).hi
    BY <1>1, <2>1, <2>2 DEF Frame, FrameOp, ProgramKind
  <2> HIDE DEF f
  <2> QED
    BY <1>5, <2>1, <2>3 DEF ProgramOp, ProgramKind
<1>7. ASSUME Writes(p), ~ At(p, "echo")  PROVE Adds(p)
  <2> DEFINE f == IF At(p, "put") THEN [Top(p) EXCEPT !.op = "copy"]
                  ELSE [Top(p) EXCEPT !.n = @ + 1]
  <2>1. Top(p).op \in {"put", "emit"} /\ todo' = Return(p, <<f>>)
    BY <1>7 DEF Writes, Writing, Written, At
  <2>2. Top(p).n + 1 \in Nat
    BY <1>1 DEF Frame
  <2>3. f \in Frame /\ f.op \in {"copy", "emit"} /\ f.lo = Top(p).lo /\ f.hi = Top(p).hi
    BY <1>1, <2>1, <2>2 DEF At, Frame, FrameOp, ProgramKind
  <2> HIDE DEF f
  <2> QED
    BY <1>5, <2>1, <2>3 DEF ProgramOp, ProgramKind
<1> QED
  BY <1>3, <1>4, <1>6, <1>7

LEMMA AddsForks ==
  ASSUME IInv, NEW p \in Pid, NEW c \in FreePid, NEW a, NEW b, Forks(p, c, a, b)
  PROVE  Adds(p)
<1>1. /\ st[p] = "run" /\ a \in Seq(Frame) /\ c # p /\ todo' = [Return(p, a) EXCEPT ![c] = b]
  BY DEF Forks, FreePid
<1>2. todo'[p] = a \o Tail(todo[p])
  BY <1>1 DEF Return, IInv, TypeOK
<1>3. ASSUME NEW i \in 1 .. Len(a)
      PROVE  Added(Top(p), a[i], mem[p].line) /\ Top(p).op \notin {"left", "right"}
  <2>1. CASE ExecShape(p, c, a, b)
    <3>1. i = 1 \/ i = 2 \/ i = 3
      BY <2>1 DEF ExecShape
    <3>2. a[i].op \in {"ignore", "wait", "restore"} /\ Top(p).op = "bst"
      BY <2>1, <3>1 DEF ExecShape, IsAwait
    <3> QED
      BY <3>2 DEF Added, TreeOp, PipeOp, ProgramOp, ProgramKind
  <2>2. CASE LeftShape(p, c, a, b)
    <3>1. i = 1
      BY <2>2 DEF LeftShape
    <3> QED
      BY <2>2, <3>1 DEF LeftShape, On, Added
  <2>3. CASE RightShape(p, c, a, b)
    <3>1. i = 1 \/ i = 2 \/ i = 3 \/ i = 4 \/ i = 5
      BY <2>3 DEF RightShape
    <3>2. a[i].op \in {"ignore", "wait", "restore", "close_pipe"} /\ Top(p).op = "fork_right"
      BY <2>3, <3>1 DEF RightShape
    <3> QED
      BY <3>2 DEF Added, TreeOp, PipeOp, ProgramOp, ProgramKind
  <2>4. CASE HeredocShape(p, c, a, b) /\ HeredocHandler(p)
    <3>1. i = 1 \/ i = 2 \/ i = 3 \/ i = 4
      BY <2>4 DEF HeredocShape
    <3>2. Top(p).op = "bst" /\ (a[i].op \in {"ignore", "wait", "restore"} \/ i = 4)
      BY <2>4, <3>1 DEF HeredocShape, IsAwait
    <3>3. a[4].op = "heredoc_open" /\ a[4].lo = Top(p).lo /\ a[4].hi = Top(p).hi
      BY <2>4 DEF HeredocShape, On
    <3>4. Single(mem[p].line, Top(p))
      BY <1>1, <2>4, <3>2, SingleNode DEF HeredocHandler, Openable, Redirects, NodeOp
    <3>5. Single(mem[p].line, a[4])
      BY <3>3, <3>4 DEF Single
    <3>6. Added(Top(p), a[4], mem[p].line)
      BY <3>2, <3>3, <3>4, <3>5 DEF Added, TreeOp
    <3> QED
      BY <3>2, <3>6 DEF Added, TreeOp, PipeOp, ProgramOp, ProgramKind
  <2> QED
    BY <2>1, <2>2, <2>3, <2>4 DEF Forks
<1>4. Top(p).op \notin {"left", "right"}
  BY DEF Forks, ExecShape, LeftShape, RightShape, HeredocShape
<1> QED
  BY <1>1, <1>2, <1>3, <1>4 DEF Adds

(* The frames of every step. *)
LEMMA FramesAdded ==
  ASSUME IInv, NEW p \in Pid, Step(p) \/ Types(p), st'[p] \in {"run", "stop"},
         Args(todo[p], mem[p])
  PROVE  ReadLine(p) \/ WaitStopped(p) \/ HeredocLine(p) \/ PipeHandler(p) \/ Adds(p)
<1>1. ASSUME NEW code, Exit(p, code)  PROVE FALSE
  <2>1. st'[p] \notin {"run", "stop"}
    BY <1>1 DEF Exit, End
  <2> QED
    BY <2>1
<1>2. ASSUME \/ SigintIgnore(p) \/ SigintRestore(p) \/ ChildRestoreSignals(p)
             \/ PipeSyntaxError(p) \/ PipeHeredoc(p) \/ ClosePipe(p) \/ WaitEnded(p)
             \/ RedirectionError(p) \/ RedirectionFails(p) \/ ResetData(p)
             \/ Writes(p) /\ At(p, "echo")
      PROVE  Adds(p)
  <2>1. todo' = Return(p, <<>>)
    BY <1>1, <1>2 DEF SigintIgnore, SigintRestore, ChildRestoreSignals, PipeSyntaxError,
       PipeHeredoc, ClosePipe, WaitEnded, RedirectionError, RedirectionFails, ResetData,
       Writes, Written
  <2> QED
    BY <2>1, AddsNothing
<1>3. ASSUME LeftChild(p) \/ RightChild(p)  PROVE Adds(p)
  <2>1. /\ st[p] = "run" /\ Top(p).op \in {"left", "right"} /\ Top(p).op \in NodeOp
        /\ todo' = Return(p, LeftBst(p)) \/ todo' = Return(p, RightBst(p))
    BY <1>3 DEF LeftChild, RightChild, At, NodeOp, PipeOp
  <2> QED
    BY <2>1, PartsInside, AddsInside
<1>4. ASSUME RdinHandler(p) \/ RdoutHandler(p)  PROVE Adds(p)
  <2>1. /\ st[p] = "run" /\ Top(p).op = "bst" /\ KindAt(p) # "PIPE"
        /\ todo' = Return(p, TreeTransversal(p))
    BY <1>4 DEF RdinHandler, RdoutHandler, Openable, Redirects, At
  <2>2. Single(mem[p].line, Top(p)) /\ TreeTransversal(p) \in Seq(Inside(Top(p)))
    BY <2>1, SingleNode, PartsInside DEF NodeOp
  <2> QED
    BY <2>1, <2>2, AddsInside DEF TreeOp
<1>5. ASSUME HeredocOpen(p)  PROVE Adds(p)
  <2>1. /\ st[p] = "run" /\ Top(p).op = "heredoc_open"
        /\ todo' = Return(p, <<>>) \/ todo' = Return(p, TreeTransversal(p))
    BY <1>5 DEF HeredocOpen, At
  <2>2. 1 \in 1 .. Len(todo[p]) /\ Top(p) = todo[p][1]
    BY <2>1, RunningFrame
  <2>3. Single(mem[p].line, Top(p)) /\ TreeTransversal(p) \in Seq(Inside(Top(p)))
    BY <2>1, <2>2, PartsInside DEF NodeOp, Args, FramesOwn
  <2> QED
    BY <2>1, <2>3, AddsInside, AddsNothing DEF TreeOp
<1>6. ASSUME ExecBuiltin(p)  PROVE Adds(p)
  <2> DEFINE e == Do("echo")
  <2>1. todo' = Return(p, <<>>) \/ todo' = Return(p, <<e>>)
    BY <1>6 DEF ExecBuiltin
  <2>2. e \in Frame /\ e.op = "echo"
    BY DEF Do, On, Frame, FrameOp
  <2> HIDE DEF e
  <2>3. Added(Top(p), e, mem[p].line)
    BY <2>2 DEF Added, TreeOp, PipeOp, ProgramOp, ProgramKind
  <2> QED
    BY <2>1, <2>2, <2>3, AddsNothing, AddsOne
<1>7. ASSUME ExecCmd(p) \/ ForkLeft(p) \/ ForkRight(p) \/ HeredocHandler(p)
      PROVE  Adds(p)
  BY <1>7, AnyForks, AddsForks
<1>8. ASSUME \/ CommandNotFound(p) \/ ChildExit(p) \/ OpenFails(p) \/ OutOfResources(p)
             \/ ProgramEnds(p) \/ EndOfFile(p) \/ BrokenPipe(p)
             \/ EndOfInput(p) \/ HeredocEnd(p) \/ TypedEnd(p)
      PROVE  FALSE
  BY <1>1, <1>8 DEF CommandNotFound, ChildExit, OpenFails, OutOfResources, EndOfFile,
     ProgramEnds, BrokenPipe, EndOfInput, HeredocEnd, TypedEnd
<1> QED
  BY <1>2, <1>3, <1>4, <1>5, <1>6, <1>7, <1>8, AddsProgram DEF Step, Types
(***************************************************************************)
(* What a step does to the word.                                           *)
(***************************************************************************)
(* The word is set by tree_transversal() only, from the node at the top.   *)
Sets(p) ==
  /\ Top(p).op \in TreeOp /\ IsArgument(p) /\ mem'[p].arg = RootAt(p) + 1
  /\ Top(p).op = "bst" => KindAt(p) # "PIPE"

LEMMA ArgForms ==
  ASSUME IInv, NEW p \in Pid, Step(p) \/ Types(p), st'[p] \in {"run", "stop"}
  PROVE  \/ ReadLine(p)
         \/ /\ mem'[p].line = mem[p].line
            /\ mem'[p].arg = mem[p].arg \/ mem'[p].arg = 0 \/ Sets(p)
<1> DEFINE Held == mem'[p].line = mem[p].line /\ mem'[p].arg = mem[p].arg
<1>1. mem \in [Pid -> Memory] /\ mem[p] \in Memory
  BY DEF IInv, TypeOK
<1>2. ASSUME \/ SigintIgnore(p) \/ SigintRestore(p) \/ ChildRestoreSignals(p)
             \/ PipeSyntaxError(p) \/ ExecBuiltin(p) \/ RedirectionError(p)
             \/ HeredocLine(p) \/ WaitEnded(p) \/ Execve(p)
             \/ ProgramReads(p) \/ Writes(p)
             \/ PipeHeredoc(p) \/ RedirectionFails(p) \/ HeredocChild(p)
      PROVE  Held
  <2>1. SigintIgnore(p) \/ ChildRestoreSignals(p) \/ HeredocLine(p) \/ Execve(p)
        \/ ProgramReads(p) \/ PipeHeredoc(p) \/ RedirectionFails(p) \/ HeredocChild(p)
          => mem' = mem
    BY DEF SigintIgnore, ChildRestoreSignals, HeredocLine, Execve, ProgramReads,
       PipeHeredoc, RedirectionFails, HeredocChild
  <2>2. SigintRestore(p) \/ PipeSyntaxError(p) \/ RedirectionError(p) \/ WaitEnded(p)
        \/ Writes(p) => \E g : mem' = [mem EXCEPT ![p].g = g]
    BY <1>1 DEF SigintRestore, PipeSyntaxError, RedirectionError, WaitEnded, Writes
  <2>3. ExecBuiltin(p) => \/ mem' = mem \/ \E g : mem' = [mem EXCEPT ![p].g = g]
                          \/ \E g : mem' = [mem EXCEPT ![p].exit = TRUE, ![p].g = g]
    <3> HAVE ExecBuiltin(p)
    <3>1. CASE CommandKind(p) = "echo"
      BY <3>1 DEF ExecBuiltin
    <3>2. CASE CommandKind(p) = "exit"
      BY <3>2, <1>1 DEF ExecBuiltin, Memory
    <3>3. CASE CommandKind(p) \notin {"echo", "exit"}
      BY <3>3 DEF ExecBuiltin
    <3> QED
      BY <3>1, <3>2, <3>3
  <2> QED
    BY <1>1, <1>2, <2>1, <2>2, <2>3 DEF Memory
<1>3. ASSUME ClosePipe(p) \/ LeftChild(p) \/ RightChild(p) \/ PipeHandler(p)
      PROVE  Held
  <2>1. ASSUME NEW x, NEW y,
               mem' = [mem EXCEPT ![p] = [mem[p] EXCEPT !.r = x, !.w = y]]
        PROVE  Held
    BY <1>1, <2>1 DEF Memory
  <2>2. ClosePipe(p) => mem' = [mem EXCEPT ![p] = [mem[p] EXCEPT !.r = NoPipe, !.w = NoPipe]]
    BY <1>1 DEF ClosePipe
  <2>3. LeftChild(p) => Held
    BY <1>1 DEF LeftChild, Memory
  <2>4. RightChild(p) => Held
    BY <1>1 DEF RightChild, Memory
  <2>5. PipeHandler(p) =>
          \E q : mem' = [mem EXCEPT ![p] = [mem[p] EXCEPT !.r = q, !.w = q]]
    BY <1>1 DEF PipeHandler
  <2> QED
    BY <1>3, <2>1, <2>2, <2>3, <2>4, <2>5
<1>4. ASSUME RdinHandler(p) \/ RdoutHandler(p) \/ HeredocOpen(p)
      PROVE  Held \/ (mem'[p].line = mem[p].line /\ Sets(p))
  <2>1. mem' = mem \/ mem' = [mem EXCEPT ![p].arg = TreeArg(p)]
    BY <1>4 DEF RdinHandler, RdoutHandler, HeredocOpen
  <2>2. Top(p).op \in TreeOp /\ (Top(p).op = "bst" => KindAt(p) # "PIPE")
    BY <1>4 DEF RdinHandler, RdoutHandler, HeredocOpen, Openable, Redirects, At, TreeOp
  <2>3. Held \/ (mem'[p].line = mem[p].line /\ mem'[p].arg = TreeArg(p))
    BY <1>1, <2>1 DEF Memory
  <2>4. TreeArg(p) = mem[p].arg \/ (IsArgument(p) /\ TreeArg(p) = RootAt(p) + 1)
    BY DEF TreeArg
  <2> QED
    BY <2>2, <2>3, <2>4 DEF Sets
<1>5. ASSUME NEW code, Exit(p, code)  PROVE FALSE
  <2>1. st'[p] \notin {"run", "stop"}
    BY <1>5 DEF Exit, End
  <2> QED
    BY <2>1
<1>6. ASSUME ResetData(p)  PROVE mem'[p].line = mem[p].line /\ mem'[p].arg = 0
  <2>1. mem' = [mem EXCEPT ![p].arg = 0]
    BY <1>5, <1>6 DEF ResetData
  <2> QED
    BY <1>1, <2>1 DEF Memory
<1>7. ASSUME WaitStopped(p)  PROVE Held
  BY <1>7, WaitStoppedKeeps DEF Same
<1>8. ASSUME ExecCmd(p) \/ ForkLeft(p) \/ ForkRight(p) \/ HeredocHandler(p)  PROVE Held
  <2>1. PICK c \in FreePid : \E a, b : Forks(p, c, a, b)
    BY <1>8, AnyForks
  <2>2. mem'[p] = mem[p]
    BY <1>1, <2>1 DEF Forks, FreePid
  <2> QED
    BY <2>2
<1>9. ASSUME \/ CommandNotFound(p) \/ ChildExit(p) \/ OpenFails(p) \/ OutOfResources(p)
             \/ ProgramEnds(p) \/ EndOfFile(p) \/ BrokenPipe(p)
             \/ EndOfInput(p) \/ HeredocEnd(p) \/ TypedEnd(p)
      PROVE  FALSE
  BY <1>5, <1>9 DEF CommandNotFound, ChildExit, OpenFails, OutOfResources, EndOfFile,
     ProgramEnds, BrokenPipe, EndOfInput, HeredocEnd, TypedEnd
<1> QED
  BY <1>2, <1>3, <1>4, <1>6, <1>7, <1>8, <1>9 DEF Step, Types

(* A word and the command before it are of the stage of their node.        *)
LEMMA ArgumentStage ==
  ASSUME IInv, NEW p \in Pid, st[p] = "run", Top(p).op \in TreeOp, IsArgument(p),
         Single(mem[p].line, Top(p)), NEW n, n = RootAt(p) + 1
  PROVE  /\ Top(p).lo \in 1 .. Len(mem[p].line) /\ n \in 1 .. Len(mem[p].line)
         /\ Top(p).lo < n /\ mem[p].line[Top(p).lo].c = "w" /\ mem[p].line[n].c = "w"
         /\ Stage(mem[p].line, n) = Stage(mem[p].line, Top(p).lo)
<1> DEFINE line == mem[p].line
           lo == Top(p).lo
           hi == Top(p).hi
           before == RootAt(p) - 1
<1>1. /\ line \in Lines \cup {<<>>} /\ Len(line) \in Nat /\ lo \in Nat /\ hi \in Nat
      /\ lo \in 1 .. hi /\ hi \in 1 .. Len(line) /\ RootAt(p) \in lo .. hi
      /\ TokensOf(line, lo, hi, "|") = {}
  BY NodeParts, RunningFrame, LineType DEF Frame, TreeOp, NodeOp, Single
<1>2. Kind(line, lo, before) = "COMMAND" /\ Kind(line, n, hi) = "COMMAND"
  BY DEF IsArgument, LeftKind, RightKind
<1>3. before \in Nat /\ n \in Nat /\ before <= hi /\ lo < n /\ before < n
  BY <1>1
<1> HIDE DEF line, lo, hi, before
<1>4. ~ (lo > before) /\ ~ (n > hi)
  BY <1>2 DEF Kind
<1>5. lo \in 1 .. before /\ before \in 1 .. Len(line) /\ n \in 1 .. hi /\ n \in 1 .. Len(line)
  BY <1>1, <1>3, <1>4
<1>6. line[lo].c = "w"
  BY <1>1, <1>2, <1>5, RootInside
<1>7. line[n].c = "w"
  BY <1>1, <1>2, <1>3, <1>5, RootInside
<1>8. n \in lo .. hi /\ lo \in lo .. hi /\ lo >= 1
  BY <1>1, <1>3, <1>5
<1>9. Stage(line, n) = Stage(line, lo)
  BY <1>1, <1>8, SameStage
<1> QED
  BY <1>1, <1>3, <1>5, <1>6, <1>7, <1>9 DEF line, lo

(* In a handler of a pipe, a node with two words is a here-document with   *)
(* one of them.                                                            *)
LEMMA ArgumentOutside ==
  ASSUME IInv, NEW p \in Pid, st[p] = "run", Args(todo[p], mem[p]),
         ~ WordWithHeredoc(mem[p].line), Sets(p)
  PROVE  /\ Single(mem[p].line, Top(p)) /\ ~ Holds(todo[p], PipeOp)
         /\ mem'[p].arg \in 1 .. Len(mem[p].line)
         /\ Stage(mem[p].line, Top(p).lo) = Stage(mem[p].line, mem'[p].arg)
<1> DEFINE line == mem[p].line
           n == RootAt(p) + 1
           lo == Top(p).lo
<1>1. /\ Top(p) = todo[p][1] /\ 1 \in 1 .. Len(todo[p]) /\ mem'[p].arg = n
      /\ Top(p).op \in TreeOp /\ IsArgument(p)
  BY RunningFrame DEF Sets
<1>2. Single(line, Top(p))
  <2>1. CASE Top(p).op = "bst"
    BY <2>1, SingleNode DEF Sets, NodeOp
  <2>2. CASE Top(p).op = "heredoc_open"
    BY <1>1, <2>2 DEF Args, FramesOwn
  <2> QED
    BY <1>1, <2>1, <2>2 DEF TreeOp
<1>3. /\ lo \in 1 .. Len(line) /\ n \in 1 .. Len(line) /\ lo < n
      /\ line[lo].c = "w" /\ line[n].c = "w" /\ Stage(line, n) = Stage(line, lo)
  BY <1>1, <1>2, ArgumentStage
<1>4. ASSUME Holds(todo[p], PipeOp)  PROVE FALSE
  <2>1. /\ TokensOf(line, 1, Len(line), "|") # {}
        /\ Documented(line, Stage(line, lo))
    BY <1>1, <1>4 DEF Args, PipeNodes
  <2>2. PICK i \in 1 .. Len(line) :
          Stage(line, i) = Stage(line, lo) /\ TypeAssign(line[i]) = "HEREDOC"
    BY <2>1 DEF Documented
  <2>3. DOMAIN line = 1 .. Len(line)
    BY <1>1, RunningFrame, LineType, LenProperties
  <2>4. ~ WordWithHeredoc(line)
    OBVIOUS
  <2> HIDE DEF line, lo, n
  <2>5. /\ i \in DOMAIN line /\ lo \in DOMAIN line /\ n \in DOMAIN line /\ lo < n
        /\ Stage(line, lo) = Stage(line, i) /\ Stage(line, n) = Stage(line, i)
    BY <1>3, <2>2, <2>3
  <2> QED
    BY <1>3, <2>1, <2>2, <2>4, <2>5 DEF WordWithHeredoc
<1> QED
  BY <1>1, <1>2, <1>3, <1>4
(* Whatever a process does but to read a line or to open a pipe.           *)
LEMMA ArgsAdds ==
  ASSUME IInv, NEW p \in Pid, Step(p) \/ Types(p), st'[p] \in {"run", "stop"},
         Args(todo[p], mem[p]), ~ WordWithHeredoc(mem[p].line), ~ ReadLine(p), Adds(p)
  PROVE  mem'[p].line = mem[p].line /\ Args(todo'[p], mem'[p])
<1> DEFINE s == todo[p]
           m == mem[p]
           n == mem'[p]
           t == todo'[p]
<1>1. /\ st[p] = "run" /\ s \in Seq(Frame) /\ s # <<>> /\ Top(p) = s[1]
      /\ PipeBelow(s) => KeepsPipe(s[1], m.line)
  BY Stepping, RunningFrame
<1>2. /\ n.line = m.line
      /\ \/ n.arg = m.arg
         \/ n.arg = 0
         \/ /\ n.arg \in 1 .. Len(m.line) /\ s[1].op \in TreeOp /\ ~ Holds(s, PipeOp)
            /\ Single(m.line, s[1]) /\ Stage(m.line, s[1].lo) = Stage(m.line, n.arg)
  BY <1>1, ArgForms, ArgumentOutside DEF Sets
<1>3. s[1].op \in SideOp => ~ HoldsBelow(s, PipeOp)
  BY <1>1 DEF KeepsPipe, PipeBelow, HoldsBelow, SideOp
<1>4. PICK a \in Seq(Frame) :
        /\ t = a \o Tail(s)
        /\ \A i \in 1 .. Len(a) : Added(s[1], a[i], m.line)
        /\ s[1].op \in {"left", "right"} => Len(a) <= 1
  BY <1>1 DEF Adds
<1>5. Args(s, m)
  OBVIOUS
<1> HIDE DEF s, m, n, t
<1>6. Args(t, n)
  BY <1>1, <1>2, <1>3, <1>4, <1>5, ArgsPush
<1> QED
  BY <1>2, <1>6 DEF t, n, m

(* pipe_handler() adds its fork, and before it the here-documents.         *)
DocFrame(line) ==
  {f \in Frame :
     \/ f.op \in {"heredoc_left", "heredoc_left_end", "heredoc_right", "heredoc_right_end"}
     \/ f.op = "bst" /\ Single(line, f) /\ Documented(line, Stage(line, f.lo))}

LEMMA DocBst ==
  ASSUME NEW line \in Lines \cup {<<>>}, NEW lo \in Nat, NEW hi \in Nat,
         1 <= lo, hi <= Len(line), Kind(line, lo, hi) = "HEREDOC"
  PROVE  Bst(lo, hi) \in Seq(DocFrame(line))
<1> DEFINE g == On("bst", lo, hi, Nobody)
<1>1. ~ (lo > hi)
  BY DEF Kind
<1>2. g \in Frame /\ g.op = "bst" /\ g.lo = lo /\ g.hi = hi /\ Bst(lo, hi) = <<g>>
  BY <1>1 DEF Frame, On, FrameOp, Bst
<1> HIDE DEF g
<1>3. lo \in 1 .. hi /\ hi \in 1 .. Len(line) /\ Len(line) \in Nat
  <2>1. Len(line) \in Nat
    BY LineType
  <2> DEFINE n == Len(line)
  <2>2. n \in Nat /\ hi <= n
    BY <2>1
  <2> HIDE DEF n
  <2>3. lo \in 1 .. hi /\ hi \in 1 .. n
    BY <1>1, <2>2
  <2> QED  BY <2>1, <2>3 DEF n
<1>4. /\ Root(line, lo, hi) \in lo .. hi /\ TypeAssign(line[Root(line, lo, hi)]) = "HEREDOC"
      /\ TokensOf(line, lo, hi, "|") = {}
  <2>1. /\ Root(line, lo, hi) \in lo .. hi
        /\ Kind(line, lo, hi) = TypeAssign(line[Root(line, lo, hi)])
        /\ Kind(line, lo, hi) # "PIPE" => TokensOf(line, lo, hi, "|") = {}
    BY <1>3, RootInside, ZenonT(60)
  <2> QED  BY <2>1
<1>5. lo \in lo .. hi /\ lo >= 1 /\ Root(line, lo, hi) \in 1 .. Len(line)
  BY <1>3, <1>4
<1>6. Stage(line, Root(line, lo, hi)) = Stage(line, lo)
  BY <1>4, <1>5, SameStage
<1>7. g \in DocFrame(line)
  BY <1>2, <1>4, <1>5, <1>6 DEF DocFrame, Single, Documented
<1> QED
  BY <1>2, <1>7

LEMMA PipeHandlerAdds ==
  ASSUME IInv, NEW p \in Pid, PipeHandler(p)
  PROVE  \E a \in Seq(Frame) :
           /\ todo'[p] = a \o Tail(todo[p])
           /\ Len(a) >= 1 /\ a[Len(a)].op = "fork_left"
           /\ \A i \in 1 .. Len(a) : i # Len(a) => a[i] \in DocFrame(mem[p].line)
<1>1. st[p] = "run" /\ Top(p).op = "bst" /\ Top(p).op \in NodeOp
  BY DEF PipeHandler, At, NodeOp
<1> DEFINE line == mem[p].line
           before == RootAt(p) - 1
           after == RootAt(p) + 1
           D == DocFrame(line)
           f(op) == On(op, Top(p).lo, Top(p).hi, Nobody)
           left == <<f("heredoc_left")>> \o LeftBst(p) \o <<f("heredoc_left_end")>>
           right == <<f("heredoc_right")>> \o RightBst(p) \o <<f("heredoc_right_end")>>
           x == IF LeftKind(p) = "HEREDOC" THEN left ELSE <<>>
           y == IF RightKind(p) = "HEREDOC" THEN right ELSE <<>>
           u == x \o y
           v == <<f("fork_left")>>
           a == u \o v
<1>2. /\ Top(p).lo \in 1 .. Top(p).hi /\ Top(p).lo \in Nat /\ Top(p).hi \in Nat
      /\ RootAt(p) \in Top(p).lo .. Top(p).hi
      /\ line \in Lines \cup {<<>>} /\ Len(line) \in Nat /\ Top(p).hi \in 1 .. Len(line)
  BY <1>1, NodeParts, RunningFrame, LineType DEF Frame
<1>3. /\ before \in Nat /\ after \in Nat /\ 1 <= after /\ before <= Len(line)
      /\ 1 <= Top(p).lo /\ Top(p).hi <= Len(line)
  BY <1>2
<1>4. todo'[p] = a \o Tail(todo[p])
  BY DEF PipeHandler, Return, IInv, TypeOK
<1>5. /\ LeftKind(p) = "HEREDOC" => LeftBst(p) \in Seq(D)
      /\ RightKind(p) = "HEREDOC" => RightBst(p) \in Seq(D)
  <2>1. /\ LeftKind(p) = Kind(line, Top(p).lo, before) /\ LeftBst(p) = Bst(Top(p).lo, before)
        /\ RightKind(p) = Kind(line, after, Top(p).hi) /\ RightBst(p) = Bst(after, Top(p).hi)
    BY DEF LeftKind, LeftBst, RightKind, RightBst
  <2> HIDE DEF line, before, after
  <2> QED
    BY <1>2, <1>3, <2>1, DocBst
<1>6. /\ f("heredoc_left") \in D /\ f("heredoc_left_end") \in D
      /\ f("heredoc_right") \in D /\ f("heredoc_right_end") \in D
      /\ f("fork_left") \in Frame /\ f("fork_left").op = "fork_left"
  BY <1>2 DEF DocFrame, On, Frame, FrameOp
<1>7. D \subseteq Frame
  BY DEF DocFrame
<1> HIDE DEF line, before, after, f, D
<1>8. LeftKind(p) = "HEREDOC" => left \in Seq(D)
  <2> HAVE LeftKind(p) = "HEREDOC"
  <2> DEFINE b == <<f("heredoc_left")>>
             c == LeftBst(p)
             e == <<f("heredoc_left_end")>>
  <2>1. b \in Seq(D) /\ c \in Seq(D) /\ e \in Seq(D) /\ left = b \o c \o e
    BY <1>5, <1>6
  <2> HIDE DEF left, b, c, e
  <2> QED
    BY <2>1, ConcatProperties
<1>9. RightKind(p) = "HEREDOC" => right \in Seq(D)
  <2> HAVE RightKind(p) = "HEREDOC"
  <2> DEFINE b == <<f("heredoc_right")>>
             c == RightBst(p)
             e == <<f("heredoc_right_end")>>
  <2>1. b \in Seq(D) /\ c \in Seq(D) /\ e \in Seq(D) /\ right = b \o c \o e
    BY <1>5, <1>6
  <2> HIDE DEF right, b, c, e
  <2> QED
    BY <2>1, ConcatProperties
<1> HIDE DEF left, right
<1>10. x \in Seq(D) /\ y \in Seq(D)
  BY <1>8, <1>9, EmptySeq
<1> HIDE DEF x, y
<1>11. u \in Seq(D)
  BY <1>10, ConcatProperties
<1>12. v \in Seq(Frame) /\ Len(v) = 1 /\ v[1].op = "fork_left"
  BY <1>6
<1> HIDE DEF u, v
<1>13. u \in Seq(Frame) /\ Len(u) \in Nat /\ \A i \in 1 .. Len(u) : u[i] \in D
  BY <1>7, <1>11, SeqMonotonic, LenProperties, ElementOfSeq
<1>14. /\ a \in Seq(Frame) /\ Len(a) = Len(u) + 1
       /\ \A i \in 1 .. Len(u) + 1 : a[i] = IF i <= Len(u) THEN u[i] ELSE v[i - Len(u)]
  BY <1>12, <1>13, ConcatProperties
<1> HIDE DEF a
<1>15. Len(a) >= 1 /\ a[Len(a)].op = "fork_left"
  <2>1. /\ Len(u) + 1 \in 1 .. Len(u) + 1 /\ ~ (Len(u) + 1 <= Len(u))
        /\ (Len(u) + 1) - Len(u) = 1 /\ Len(u) + 1 >= 1
    BY <1>13
  <2> QED
    BY <1>12, <1>14, <2>1
<1>16. ASSUME NEW i \in 1 .. Len(a), i # Len(a)  PROVE a[i] \in D
  <2>1. i \in 1 .. Len(u) /\ i \in 1 .. Len(u) + 1 /\ i <= Len(u)
    BY <1>13, <1>14, <1>16
  <2> QED
    BY <1>13, <1>14, <2>1
<1> QED
  BY <1>4, <1>14, <1>15, <1>16 DEF D, line
LEMMA ArgsPipeHandler ==
  ASSUME IInv, NEW p \in Pid, Args(todo[p], mem[p]), PipeHandler(p)
  PROVE  mem'[p].line = mem[p].line /\ Args(todo'[p], mem'[p])
<1> DEFINE s == todo[p]
           m == mem[p]
           n == mem'[p]
           t == todo'[p]
           line == m.line
<1>1. /\ st[p] = "run" /\ s \in Seq(Frame) /\ s # <<>> /\ Top(p) = s[1]
      /\ s[1].op = "bst" /\ KindAt(p) = "PIPE" /\ 1 \in 1 .. Len(s) /\ Len(s) \in Nat
      /\ line \in Lines \cup {<<>>} /\ Len(line) \in Nat
  BY RunningFrame, LineType DEF PipeHandler, At
<1>2. n.line = line /\ n.arg = m.arg
  <2>1. mem \in [Pid -> Memory] /\ mem[p] \in Memory
    BY DEF IInv, TypeOK
  <2>2. PICK q : mem' = [mem EXCEPT ![p] = [mem[p] EXCEPT !.r = q, !.w = q]]
    BY <2>1 DEF PipeHandler
  <2> QED
    BY <2>1, <2>2 DEF Memory
<1>3. ~ Single(line, s[1]) /\ TokensOf(line, 1, Len(line), "|") # {}
  <2>1. /\ RootAt(p) \in Top(p).lo .. Top(p).hi /\ TypeAssign(RootToken(p)) = "PIPE"
        /\ Top(p).lo \in 1 .. Top(p).hi /\ Top(p).hi \in 1 .. Len(line)
        /\ Top(p).lo \in Nat
    BY <1>1, NodeParts, RunningFrame DEF NodeOp, Frame
  <2>2. line[RootAt(p)].c = "|"
    BY <2>1 DEF TypeAssign, RootToken
  <2>3. RootAt(p) \in 1 .. Len(line)
    BY <1>1, <2>1
  <2> QED
    BY <1>1, <2>1, <2>2, <2>3 DEF Single, TokensOf
<1>4. ~ HoldsBelow(s, PipeOp)
  BY <1>1, PipeIsOutermost DEF PipeBelow, HoldsBelow
<1>5. PICK a \in Seq(Frame) :
           /\ t = a \o Tail(s)
           /\ Len(a) >= 1 /\ a[Len(a)].op = "fork_left"
           /\ \A i \in 1 .. Len(a) : i # Len(a) => a[i] \in DocFrame(line)
  BY PipeHandlerAdds
<1>6. /\ Pending(s, m) /\ OneStage(s, line) /\ FramesOwn(s, line)
  BY DEF Args
<1> HIDE DEF s, t, n
<1>7. /\ ~ Holds(s, PipeOp) /\ m.arg = 0
      /\ \A i \in 2 .. Len(s) : /\ i \in 1 .. Len(s) /\ i # 1
                                /\ s[i].op \notin TreeOp /\ s[i].op \notin PipeOp
  <2>1. ~ Holds(s, PipeOp)
    BY <1>1, <1>4, HoldsTop DEF PipeOp
  <2>2. m.arg = 0
    BY <1>1, <1>3, <1>6 DEF Pending, TreeOp
  <2>3. \A i \in 2 .. Len(s) : i \in 1 .. Len(s) /\ i # 1
    BY <1>1
  <2>4. \A i \in 2 .. Len(s) : s[i].op \notin TreeOp
    BY <1>1, <1>3, <1>6, <2>1, <2>3 DEF OneStage, Alike, TreeOp
  <2> QED
    BY <1>4, <2>1, <2>2, <2>3, <2>4 DEF HoldsBelow
<1> DEFINE k(i) == i - Len(a) + 1
<1>8. /\ Len(a) \in 1 .. Len(t) /\ t[Len(a)] = a[Len(a)]
      /\ \A i \in 1 .. Len(t) :
           \/ i < Len(a) /\ t[i] \in DocFrame(line)
           \/ i = Len(a) /\ t[i].op = "fork_left"
           \/ i > Len(a) /\ k(i) \in 2 .. Len(s) /\ t[i] = s[k(i)]
  <2>1. /\ Len(a) \in Nat /\ Len(t) \in Nat
        /\ \A i \in 1 .. Len(a) : i \in 1 .. Len(t) /\ t[i] = a[i]
        /\ \A i \in 1 .. Len(t) :
             \/ i \in 1 .. Len(a) /\ t[i] = a[i]
             \/ i - Len(a) + 1 \in 2 .. Len(s) /\ t[i] = s[i - Len(a) + 1]
    BY <1>1, <1>5, Pushed, LenProperties
  <2>2. Len(a) \in 1 .. Len(a)
    BY <1>5, <2>1
  <2>3. ASSUME NEW i \in 1 .. Len(t)
        PROVE  \/ i < Len(a) /\ t[i] \in DocFrame(line)
               \/ i = Len(a) /\ t[i].op = "fork_left"
               \/ i > Len(a) /\ k(i) \in 2 .. Len(s) /\ t[i] = s[k(i)]
    <3>1. CASE i \in 1 .. Len(a) /\ t[i] = a[i]
      <4>1. i = Len(a) \/ (i < Len(a) /\ i # Len(a))
        BY <2>1, <3>1
      <4> QED
        BY <1>5, <3>1, <4>1
    <3>2. CASE k(i) \in 2 .. Len(s) /\ t[i] = s[k(i)]
      <4>1. i > Len(a)
        BY <1>1, <2>1, <3>2
      <4> QED
        BY <3>2, <4>1
    <3> QED
      BY <2>1, <3>1, <3>2
  <2> QED
    BY <2>1, <2>2, <2>3
<1>9. \A f \in DocFrame(line) :
        /\ f.op \in TreeOp => Single(line, f) /\ Documented(line, Stage(line, f.lo))
        /\ f.op \notin SideOp /\ f.op # "heredoc_open" /\ f.op \notin ProgramOp
  BY DEF DocFrame, TreeOp, SideOp, ProgramOp, ProgramKind
<1>l. line = m.line
  OBVIOUS
<1> HIDE DEF k, m, line
<1>10. Holds(t, PipeOp) /\ Holds(t, SideOp)
  BY <1>5, <1>8 DEF Holds, PipeOp, SideOp
<1>11. Pending(t, n) /\ OneStage(t, line)
  BY <1>2, <1>7, <1>10 DEF Pending, OneStage
<1>12. PipeNodes(t, line)
  <2>1. ASSUME NEW i \in 1 .. Len(t), t[i].op \in TreeOp
        PROVE  Single(line, t[i]) /\ Documented(line, Stage(line, t[i].lo))
    BY <1>7, <1>8, <1>9, <2>1 DEF TreeOp
  <2> QED
    BY <1>3, <1>10, <2>1 DEF PipeNodes
<1>13. SidesLast(t)
  <2> SUFFICES ASSUME NEW i \in 1 .. Len(t), NEW j \in 1 .. Len(t), i < j,
                      t[i].op \in SideOp, t[j].op \in TreeOp
               PROVE  FALSE
    BY DEF SidesLast
  <2>1. ~ (i < Len(a))
    BY <1>8, <1>9
  <2>2. j > Len(a)
    BY <1>8, <2>1
  <2>3. ~ (j < Len(a)) /\ j # Len(a)
    BY <1>8, <2>2
  <2> QED
    BY <1>7, <1>8, <2>3
<1>14. FramesOwn(t, line)
  <2>1. ASSUME NEW i \in 1 .. Len(t)
        PROVE  (t[i].op = "heredoc_open" => Single(line, t[i])) /\ WordOwn(t[i], line)
    <3>1. CASE t[i] \in DocFrame(line)
      BY <1>9, <3>1 DEF WordOwn
    <3>2. CASE t[i].op = "fork_left"
      BY <3>2 DEF WordOwn, ProgramOp, ProgramKind
    <3>3. CASE k(i) \in 2 .. Len(s) /\ t[i] = s[k(i)]
      BY <1>6, <1>7, <3>3 DEF FramesOwn
    <3> QED
      BY <1>8, <3>1, <3>2, <3>3
  <2> QED
    BY <2>1 DEF FramesOwn
<1>15. n.line = line /\ Args(t, n)
  BY <1>2, <1>11, <1>12, <1>13, <1>14 DEF Args
<1> QED
  BY <1>15 DEF t, n, line, m

(* A line begins with its root.                                            *)
LEMMA ArgsReadLine ==
  ASSUME IInv, NoLoop, Home, NEW p \in Pid, ReadLine(p)
  PROVE  Args(todo'[p], mem'[p])
<1>1. st[p] = "run" /\ Len(todo[p]) = 1 /\ todo[p][1].op = "prompt"
  BY ReadLinePushes
<1>2. p = Shell
  <2>1. 1 \in 1 .. Len(todo[p]) /\ p \in Living
    BY <1>1 DEF Living
  <2> QED
    BY <1>1, <2>1 DEF NoLoop, NoPrompt
<1>3. mem[p].arg = 0
  BY <1>1, <1>2 DEF Home, Living, Owned
<1>4. PICK line \in Lines :
        /\ mem' = [mem EXCEPT ![p].line = line]
        /\ todo' = [todo EXCEPT ![p] = Bst(1, Len(line)) \o <<Do("reset")>> \o @]
  BY DEF ReadLine
<1>5. mem'[p].arg = 0
  BY <1>3, <1>4 DEF IInv, TypeOK, Memory
<1> DEFINE b == Bst(1, Len(line))
           f == Do("reset")
           u == <<f>>
           v == b \o u
           s == todo[p]
           t == todo'[p]
           n == mem'[p]
<1>6. b \in Seq(Frame) /\ Len(b) \in Nat /\ Len(b) <= 1
  <2> DEFINE h == Len(line)
             g == On("bst", 1, h, Nobody)
  <2>1. h \in Nat
    BY LineType
  <2>2. g \in Frame /\ g.lo = 1 /\ g.hi = h /\ b = Bst(1, h)
    BY <2>1 DEF On, Frame, FrameOp
  <2> HIDE DEF g, h, b
  <2>3. 1 \in Nat /\ 1 >= g.lo /\ h <= g.hi
    BY <2>1, <2>2
  <2>4. Bst(1, h) \in Seq(Inside(g)) /\ Len(Bst(1, h)) <= 1
    BY <2>1, <2>2, <2>3, BstInside
  <2>5. Inside(g) \subseteq Frame
    BY DEF Inside
  <2> QED
    BY <2>2, <2>4, <2>5, SeqMonotonic, LenProperties
<1>7. f \in Frame
  BY DEF Do, On, Frame, FrameOp
<1>8. s \in Seq(Frame) /\ Len(s) = 1 /\ t = v \o s
  BY <1>1, <1>4 DEF IInv, TypeOK
<1> HIDE DEF b, f, s, t, n
<1>9. u \in Seq(Frame) /\ Len(u) = 1
  BY <1>7
<1>v. v = b \o u
  OBVIOUS
<1> HIDE DEF u, v
<1>10. v \in Seq(Frame) /\ Len(v) = Len(b) + 1
  BY <1>6, <1>9, <1>v, ConcatProperties
<1>11. Len(t) \in Nat /\ Len(t) = Len(b) + 2
  BY <1>6, <1>8, <1>10, ConcatProperties
<1>12. ShellStack(t) /\ OnlyOps(t, {"bst", "reset", "prompt"})
  BY ShellStackReadLine DEF t
<1>13. \A i \in 1 .. Len(t) : t[i].op = "bst" => i = 1
  <2>1. \A i \in 1 .. Len(t) : i = 1 \/ i = Len(t) - 1 \/ i = Len(t)
    BY <1>6, <1>11
  <2> QED
    BY <1>12, <2>1 DEF ShellStack
<1>14. \A i \in 1 .. Len(t) :
         t[i].op \notin PipeOp \cup ProgramOp \cup SideOp \cup {"heredoc_open"}
  BY <1>12 DEF OnlyOps, PipeOp, ProgramOp, ProgramKind, SideOp
<1>15. Pending(t, n)
  BY <1>5 DEF Pending, n
<1>16. OneStage(t, n.line) /\ PipeNodes(t, n.line) /\ SidesLast(t) /\ FramesOwn(t, n.line)
  BY <1>13, <1>14 DEF OneStage, PipeNodes, Holds, SidesLast, FramesOwn, WordOwn, TreeOp
<1>17. Args(t, n)
  BY <1>15, <1>16 DEF Args
<1> QED
  BY <1>17 DEF t, n

(* A child begins with the word of its parent.                             *)
LEMMA ArgsFork ==
  ASSUME IInv, NEW p \in Pid, NEW c \in FreePid, NEW a, NEW b, Forks(p, c, a, b),
         Args(todo[p], mem[p])
  PROVE  todo'[c] = b /\ mem'[c] = mem[p] /\ Args(b, mem[p])
<1> DEFINE s == todo[p]
           m == mem[p]
<1>1. /\ st[p] = "run" /\ todo'[c] = b /\ mem'[c] = m
      /\ Top(p) = s[1] /\ s \in Seq(Frame) /\ s # <<>> /\ 1 \in 1 .. Len(s)
  BY ChildHas, RunningFrame
<1>2. \A i \in 1 .. Len(b) :
        \/ b[i].op \in {"child", "exec", "_exit", "heredoc_child"}
        \/ b[i].op \in {"left", "right"} /\ s[1].op \in {"fork_left", "fork_right"}
  <2>1. Len(b) = 1 /\ b[1].op = "heredoc_child" => \A i \in 1 .. Len(b) : b[i].op = "heredoc_child"
    BY \A i \in 1 .. 1 : i = 1
  <2> QED
    BY <1>1, <2>1, ChildHas
<1>3. Pending(s, m) /\ PipeNodes(s, m.line)
  BY DEF Args
<1>4. \A i \in 1 .. Len(b) : WordOwn(b[i], m.line)
  <2>1. CASE ExecShape(p, c, a, b)
    <3>1. \A i \in 1 .. Len(b) : i = 1 \/ i = 2
      BY <2>1 DEF ExecShape
    <3>2. WordOwn(b[1], m.line)
      BY <2>1 DEF ExecShape, WordOwn, ProgramOp, ProgramKind
    <3>3. b[2].lo = s[1].lo /\ b[2].hi = m.arg /\ s[1].op = "bst"
      BY <1>1, <2>1 DEF ExecShape, On
    <3>4. m.arg # 0 => m.arg \in 1 .. Len(m.line) /\ Stage(m.line, s[1].lo) = Stage(m.line, m.arg)
      BY <1>1, <1>3, <3>3 DEF Pending, TreeOp
    <3>5. WordOwn(b[2], m.line)
      BY <3>3, <3>4 DEF WordOwn
    <3> QED
      BY <3>1, <3>2, <3>5
  <2>2. ASSUME NEW i \in 1 .. Len(b), NEW op \in {"left", "right"}, IsSide(b, p, op)
        PROVE  b[i].op \in {"child", "_exit", "left", "right"}
    <3>1. i = 1 \/ i = Len(b) \/ (Len(b) = 3 /\ i = 2)
      BY <2>2 DEF IsSide
    <3> QED
      BY <2>2, <3>1 DEF IsSide, On
  <2>3. CASE LeftShape(p, c, a, b) \/ RightShape(p, c, a, b)
    BY <2>2, <2>3 DEF LeftShape, RightShape, WordOwn, ProgramOp, ProgramKind
  <2>4. CASE HeredocShape(p, c, a, b)
    <3>1. \A i \in 1 .. Len(b) : i = 1
      BY <2>4 DEF HeredocShape
    <3> QED
      BY <2>4, <3>1 DEF HeredocShape, WordOwn, ProgramOp, ProgramKind
  <2> QED
    BY <2>1, <2>3, <2>4 DEF Forks
<1>5. Holds(b, PipeOp) => Holds(s, PipeOp) /\ Holds(b, SideOp)
  BY <1>1, <1>2 DEF Holds, PipeOp, SideOp
<1> HIDE DEF s, m
<1>6. \A i \in 1 .. Len(b) : b[i].op \notin TreeOp
  BY <1>2 DEF TreeOp
<1>7. Pending(b, m)
  BY <1>3, <1>5, <1>6 DEF Pending
<1>8. PipeNodes(b, m.line)
  BY <1>3, <1>5, <1>6 DEF PipeNodes
<1>9. OneStage(b, m.line) /\ SidesLast(b) /\ FramesOwn(b, m.line)
  BY <1>4, <1>6 DEF OneStage, SidesLast, FramesOwn, TreeOp
<1>10. Args(b, m)
  BY <1>7, <1>8, <1>9 DEF Args
<1> QED
  BY <1>1, <1>10 DEF m
(***************************************************************************)
(* Arguments is inductive.                                                 *)
(***************************************************************************)
LEMMA ArgsStep ==
  ASSUME IInv, NoLoop, Home, NEW p \in Pid, Step(p) \/ Types(p),
         st'[p] \in {"run", "stop"}, Arguments, ~ WordWithHeredoc(mem'[p].line)
  PROVE  Args(todo'[p], mem'[p])
<1>1. p \in Living
  BY Stepping DEF Living
<1>2. CASE ReadLine(p)
  BY <1>2, ArgsReadLine
<1>3. CASE ~ ReadLine(p)
  <2>1. mem'[p].line = mem[p].line
    BY <1>3, ArgForms
  <2>2. Args(todo[p], mem[p]) /\ ~ WordWithHeredoc(mem[p].line)
    BY <1>1, <2>1 DEF Arguments
  <2>3. CASE WaitStopped(p)
    BY <2>2, <2>3, WaitStoppedKeeps DEF Same
  <2>4. CASE HeredocLine(p)
    BY <2>2, <2>4 DEF HeredocLine
  <2>5. CASE PipeHandler(p)
    BY <2>2, <2>5, ArgsPipeHandler
  <2>6. CASE Adds(p)
    BY <1>3, <2>2, <2>6, ArgsAdds
  <2> QED
    BY <1>3, <2>2, <2>3, <2>4, <2>5, <2>6, FramesAdded
<1> QED
  BY <1>2, <1>3

LEMMA ArgumentsStep ==
  ASSUME IInv, NoLoop, Home, Arguments, NEW p \in Pid, Step(p) \/ Types(p)
  PROVE  Arguments'
<1> SUFFICES ASSUME NEW q \in Pid, st'[q] \in {"run", "stop"},
                    ~ WordWithHeredoc(mem'[q].line)
             PROVE  Args(todo'[q], mem'[q])
  BY DEF Arguments, Living
<1>1. st[p] = "run" /\ st \in [Pid -> {"none", "run", "stop", "zombie"}]
  BY Stepping DEF IInv, TypeOK
<1>2. CASE q = p
  BY <1>2, ArgsStep
<1>3. CASE q # p /\ st[q] # "none"
  BY <1>3, OthersKept DEF Same, Arguments, Living
<1>4. CASE st[q] = "none"
  <2>1. PICK a, b : Forks(p, q, a, b)
    BY <1>4, NewStack
  <2>2. q \in FreePid /\ mem'[q] = mem[p] /\ p \in Living
    <3>1. q \in Pid \ {Shell}
      BY <1>4, NewStack
    <3>2. q \in FreePid
      BY <1>4, <3>1 DEF FreePid
    <3> QED
      BY <1>1, <2>1, <3>2, ChildHas DEF Living
  <2>3. Args(todo[p], mem[p])
    BY <2>2 DEF Arguments
  <2> QED
    BY <2>1, <2>2, <2>3, ArgsFork
<1> QED
  BY <1>2, <1>3, <1>4

LEMMA ArgumentsInit == Init => Arguments
<1> SUFFICES ASSUME Init PROVE Arguments
  OBVIOUS
<1>1. Shell \in Pid /\ Living \subseteq {Shell}
  BY ProcessAssumption DEF Init, Living
<1> DEFINE f == Do("prompt")
           s == todo[Shell]
           m == mem[Shell]
<1>2. f.op = "prompt" /\ s = <<f>> /\ m.arg = 0
  BY <1>1 DEF Init, Do, On, Blank
<1> HIDE DEF f, s, m
<1>3. Len(s) = 1 /\ s[1] = f
  BY <1>2
<1>4. \A i \in 1 .. Len(s) : s[i].op = "prompt"
  BY <1>2, <1>3
<1>5. /\ Pending(s, m) /\ OneStage(s, m.line) /\ PipeNodes(s, m.line)
      /\ SidesLast(s) /\ FramesOwn(s, m.line)
  BY <1>2, <1>4 DEF Pending, OneStage, PipeNodes, Holds, SidesLast, FramesOwn, WordOwn,
     TreeOp, SideOp, PipeOp, ProgramOp, ProgramKind
<1>6. Args(s, m)
  BY <1>5 DEF Args
<1> QED
  BY <1>1, <1>6 DEF Arguments, s, m

LEMMA ArgumentsNext == IInv /\ NoLoop /\ Home /\ Arguments /\ [Next]_vars => Arguments'
<1> SUFFICES ASSUME IInv, NoLoop, Home, Arguments, [Next]_vars PROVE Arguments'
  OBVIOUS
<1>1. CASE CtrlC \/ CtrlBackslash \/ CtrlZ
  BY <1>1, SignalsKeep DEF Arguments, Living, Same
<1>2. CASE UNCHANGED vars
  BY <1>2 DEF vars, procs, Arguments, Living
<1> QED
  BY <1>1, <1>2, ArgumentsStep DEF Next, Over

(***************************************************************************)
(* The theorems.                                                           *)
(***************************************************************************)
(* Every reachable state satisfies Arguments: the invariant behind the     *)
(* theorem below, over those of the other modules.                         *)
THEOREM WordsOwn == Spec => [](IInv /\ NoLoop /\ Home /\ Arguments)
<1>1. (IInv /\ NoLoop /\ Home) /\ Arguments /\ [Next]_vars => Arguments'
  BY ArgumentsNext
<1> QED
  BY <1>1, ArgumentsInit, AtHome, PTL DEF Spec

(* A command only gets the argument words of its own stage, in every line  *)
(* where no here-document of a pipeline has two words in its stage.        *)
THEOREM ArgumentsKept == Spec => []ArgumentsOwnStage
<1>1. IInv /\ Arguments => ArgumentsOwnStage
  <2> SUFFICES ASSUME IInv, Arguments, NEW p \in Pid, IsProgram(p), Top(p).hi # 0,
                      ~ WordWithHeredoc(mem[p].line)
               PROVE  Stage(mem[p].line, Top(p).hi) = Stage(mem[p].line, Top(p).lo)
    BY DEF ArgumentsOwnStage
  <2>1. /\ p \in Living /\ Top(p).op \in ProgramOp /\ Top(p) = todo[p][1]
        /\ 1 \in 1 .. Len(todo[p])
    BY RunningFrame DEF IsProgram, Living, ProgramOp
  <2>2. WordOwn(Top(p), mem[p].line)
    BY <2>1 DEF Arguments, Args, FramesOwn
  <2> QED
    BY <2>1, <2>2 DEF WordOwn
<1> QED
  BY <1>1, WordsOwn, PTL

(***************************************************************************)
(* Nobody outlives his line, while there is room and no signal.            *)
(***************************************************************************)
(* ft_fork() and ft_pipe() succeed. *)
Enough == \A p \in Pid : ~ OutOfResources(p)

(* A process waits only with what the waiting needs above it. *)
WaitingOp == {"ignore", "wait", "close_pipe"}
WaitsOnTop(s) ==
  \A i \in 1 .. Len(s) : Awaits(s[i]) => \A j \in 1 .. i - 1 : s[j].op \in WaitingOp

NoneStopped == \A p \in Pid : st[p] # "stop"
NoOrphan == \A q \in Pid \ {Shell} : st[q] # "none" => par[q] \in Living
Rooted ==
  \A S \in SUBSET (Living \ {Shell}) : S # {} => \E q \in S : par[q] \notin S
SameLine == Shell \in Living => \A q \in Living : mem[q].line = mem[Shell].line
DocOp == {"heredoc_open"}
DocThere == \A p \in Living : Holds(todo[p], DocOp) => tmp # NoDoc
Company ==
  /\ NoneStopped /\ NoOrphan /\ Rooted /\ SameLine /\ DocThere
  /\ \A p \in Living : WaitsOnTop(todo[p])

LEMMA WaitsOnTopPush ==
  ASSUME NEW s \in Seq(Frame), s # <<>>, NEW a \in Seq(Frame), NEW t, t = a \o Tail(s),
         WaitsOnTop(s), WaitsOnTop(a), a # <<>> => s[1].op \notin WaitingOp
  PROVE  WaitsOnTop(t)
<1>1. /\ t \in Seq(Frame) /\ Len(a) \in Nat /\ Len(s) \in Nat /\ Len(s) >= 1
      /\ Len(t) = Len(a) + Len(s) - 1
      /\ \A i \in 1 .. Len(a) : i \in 1 .. Len(t) /\ t[i] = a[i]
      /\ \A i \in 1 .. Len(t) :
           \/ i \in 1 .. Len(a) /\ t[i] = a[i]
           \/ i - Len(a) + 1 \in 2 .. Len(s) /\ t[i] = s[i - Len(a) + 1]
  BY Pushed
<1> SUFFICES ASSUME NEW i \in 1 .. Len(t), Awaits(t[i]), NEW j \in 1 .. i - 1
             PROVE  t[j].op \in WaitingOp
  BY DEF WaitsOnTop
<1>2. CASE i \in 1 .. Len(a) /\ t[i] = a[i]
  <2>1. j \in 1 .. Len(a) /\ t[j] = a[j]
    BY <1>1, <1>2
  <2> QED
    BY <2>1, <1>2 DEF WaitsOnTop
<1>3. CASE i - Len(a) + 1 \in 2 .. Len(s) /\ t[i] = s[i - Len(a) + 1]
  <2> DEFINE k == i - Len(a) + 1
  <2>1. k \in 2 .. Len(s) /\ k \in 1 .. Len(s) /\ Awaits(s[k])
    BY <1>1, <1>3
  <2>2. \A l \in 1 .. k - 1 : s[l].op \in WaitingOp
    BY <2>1 DEF WaitsOnTop
  <2>3. s[1].op \in WaitingOp
    BY <2>1, <2>2
  <2>4. a = <<>> /\ Len(a) = 0
    BY <2>3
  <2>5. i = k - 1 /\ j \in 1 .. Len(t) /\ j \notin 1 .. Len(a) /\ j + 1 \in 1 .. k - 1
    BY <1>1, <2>1, <2>4
  <2>6. t[j] = s[j + 1]
    BY <1>1, <2>4, <2>5
  <2> QED
    BY <2>2, <2>5, <2>6
<1> QED
  BY <1>1, <1>2, <1>3

LEMMA UnawaitingOnTop ==
  ASSUME NEW a, Unawaiting(a)  PROVE WaitsOnTop(a)
BY DEF Unawaiting, WaitsOnTop

LEMMA OpsUnawaiting ==
  ASSUME NEW a, NEW O, OnlyOps(a, O), O \cap {"wait", "fork_right"} = {}
  PROVE  Unawaiting(a)
BY DEF OnlyOps, Unawaiting, Awaits

LEMMA ForksOnTop ==
  ASSUME IInv, NEW p \in Pid, NEW c \in FreePid, NEW a, NEW b, Forks(p, c, a, b)
  PROVE  WaitsOnTop(a) /\ WaitsOnTop(b)
<1>1. WaitsOnTop(a)
  <2>1. CASE ExecShape(p, c, a, b)
    BY <2>1 DEF ExecShape, IsAwait, WaitsOnTop, WaitingOp, Awaits
  <2>2. CASE LeftShape(p, c, a, b)
    BY <2>2 DEF LeftShape, WaitsOnTop
  <2>3. CASE RightShape(p, c, a, b)
    BY <2>3 DEF RightShape, WaitsOnTop, WaitingOp, Awaits
  <2>4. CASE HeredocShape(p, c, a, b)
    <3>1. a[4].op = "heredoc_open"
      BY <2>4 DEF HeredocShape, On
    <3> QED
      BY <2>4, <3>1 DEF HeredocShape, IsAwait, WaitsOnTop, WaitingOp, Awaits
  <2> QED
    BY <2>1, <2>2, <2>3, <2>4 DEF Forks
<1>2. Unawaiting(b)
  <2>1. CASE ExecShape(p, c, a, b)
    BY <2>1 DEF ExecShape, Unawaiting, Awaits, On
  <2>2. CASE LeftShape(p, c, a, b) \/ RightShape(p, c, a, b)
    BY <2>2, SideUnawaiting DEF LeftShape, RightShape, Forks
  <2>3. CASE HeredocShape(p, c, a, b)
    BY <2>3 DEF HeredocShape, Unawaiting, Awaits
  <2> QED
    BY <2>1, <2>2, <2>3 DEF Forks
<1> QED
  BY <1>1, <1>2, UnawaitingOnTop

LEMMA WaitsOnTopStep ==
  ASSUME IInv, NEW p \in Pid, Step(p) \/ Types(p), st'[p] \in {"run", "stop"},
         ~ WaitStopped(p), WaitsOnTop(todo[p])
  PROVE  WaitsOnTop(todo'[p])
<1>1. todo \in [Pid -> Seq(Frame)] /\ st[p] = "run"
  BY Stepping DEF IInv, TypeOK
<1>2. todo[p] \in Seq(Frame) /\ todo[p] # <<>> /\ Top(p) = todo[p][1]
  BY <1>1, RunningFrame
<1>3. ASSUME NEW a \in Seq(Frame), todo'[p] = a \o Tail(todo[p]), WaitsOnTop(a),
             a # <<>> => Top(p).op \notin WaitingOp
      PROVE  WaitsOnTop(todo'[p])
  BY <1>2, <1>3, WaitsOnTopPush
<1>4. ASSUME NEW a, Pushes(p, a), WaitsOnTop(a)  PROVE WaitsOnTop(todo'[p])
  <2>1. a \in Seq(Frame) /\ todo'[p] = a \o Tail(todo[p])
        /\ (a # <<>> => Top(p).op \in PushingOp)
    BY <1>4 DEF Pushes
  <2>2. a # <<>> => Top(p).op \notin WaitingOp
    BY <2>1 DEF PushingOp, WaitingOp, LastOp, ProgramOp, ProgramKind
  <2> QED
    BY <1>3, <1>4, <2>1, <2>2
<1>5. CASE Calls(p)
  <2>1. PICK a \in Seq(Frame) :
          /\ OnlyOps(a, CallOp) /\ todo' = Return(p, a)
          /\ a = <<>> \/ Top(p).op \in {"bst", "heredoc_open", "left", "right"}
    BY <1>5 DEF Calls
  <2>2. WaitsOnTop(a)
    BY <2>1, OpsUnawaiting, UnawaitingOnTop DEF CallOp
  <2>3. todo'[p] = a \o Tail(todo[p])
    BY <2>1, <1>1 DEF Return
  <2> QED
    BY <1>3, <2>1, <2>2, <2>3 DEF WaitingOp
<1>6. CASE Becomes(p)
  <2>1. PICK f \in Frame : /\ f.op \in LastOp \ {"prompt", "_exit", "heredoc_child"}
                           /\ todo' = Return(p, <<f>>)
    BY <1>6 DEF Becomes
  <2> DEFINE a == <<f>>
  <2>2. a \in Seq(Frame) /\ WaitsOnTop(a)
    BY DEF WaitsOnTop
  <2>3. todo'[p] = a \o Tail(todo[p])
    BY <2>1, <1>1 DEF Return
  <2> HIDE DEF a
  <2> QED
    BY <1>3, <1>6, <2>2, <2>3 DEF Becomes, WaitingOp, LastOp, ProgramOp, ProgramKind
<1>7. CASE WaitEnded(p)
  <2> DEFINE a == <<>>
  <2>1. todo'[p] = a \o Tail(todo[p]) /\ a \in Seq(Frame) /\ WaitsOnTop(a)
    BY <1>7, <1>1 DEF WaitEnded, Return, WaitsOnTop
  <2>2. a = <<>>
    OBVIOUS
  <2> HIDE DEF a
  <2> QED
    BY <1>3, <2>1, <2>2
<1>8. CASE ExecCmd(p) \/ ForkLeft(p) \/ ForkRight(p) \/ HeredocHandler(p)
  BY <1>4, <1>8, AnyForks, ForksPush, ForksOnTop
<1>9. CASE ReadLine(p)
  <2>1. OnlyOps(todo'[p], {"bst", "reset", "prompt"})
    BY <1>9, ShellStackReadLine
  <2> QED
    BY <2>1, OpsUnawaiting, UnawaitingOnTop
<1>10. CASE HeredocLine(p)
  BY <1>10 DEF HeredocLine
<1>11. CASE Exits(p)
  BY <1>11, ExitKeeps DEF Exits
<1> QED
  BY <1>5, <1>6, <1>7, <1>8, <1>9, <1>10, <1>11, StepForms

(***************************************************************************)
(* How a process ends.                                                     *)
(***************************************************************************)
(* The steps of p that end p, when it has what it asks for. *)
Ends(p) ==
  \/ CommandNotFound(p) \/ ChildExit(p) \/ OpenFails(p) \/ ProgramEnds(p) \/ EndOfFile(p)
  \/ BrokenPipe(p) \/ EndOfInput(p) \/ HeredocEnd(p) \/ TypedEnd(p)
  \/ ResetData(p) /\ mem[p].exit

LEMMA StaysAlive ==
  ASSUME IInv, NEW p \in Pid, Step(p) \/ Types(p), ~ Exits(p), ~ WaitStopped(p)
  PROVE  st'[p] = "run"
<1>1. st \in [Pid -> {"none", "run", "stop", "zombie"}] /\ st[p] = "run"
  BY Stepping DEF IInv, TypeOK
<1>2. WaitEnded(p) => st'[p] = "run"
  BY <1>1 DEF WaitEnded, Reapable
<1>3. ExecCmd(p) \/ ForkLeft(p) \/ ForkRight(p) \/ HeredocHandler(p) => st'[p] = "run"
  <2> SUFFICES ASSUME ExecCmd(p) \/ ForkLeft(p) \/ ForkRight(p) \/ HeredocHandler(p)
               PROVE  st'[p] = "run"
    OBVIOUS
  <2>1. PICK c \in FreePid : \E a, b : Forks(p, c, a, b)
    BY AnyForks
  <2>2. st' = [st EXCEPT ![c] = "run"]
    BY <2>1 DEF Forks
  <2> QED
    BY <1>1, <2>2
<1>4. Calls(p) \/ Becomes(p) \/ ReadLine(p) \/ HeredocLine(p) => st' = st
  BY DEF Calls, Becomes, ReadLine, HeredocLine, procs
<1> QED
  BY <1>1, <1>2, <1>3, <1>4, StepForms

LEMMA EndForms ==
  ASSUME IInv, NEW p \in Pid, Step(p) \/ Types(p), ~ OutOfResources(p), Exits(p)
  PROVE  Ends(p)
<1>1. st'[p] # "run" /\ st[p] = "run"
  BY ExitKeeps DEF Exits
<1>2. st \in [Pid -> {"none", "run", "stop", "zombie"}]
  BY DEF IInv, TypeOK
<1>3. st' # st
  BY <1>1
<1>4. /\ ~ SigintIgnore(p) /\ ~ SigintRestore(p) /\ ~ ChildRestoreSignals(p)
      /\ ~ ExecBuiltin(p) /\ ~ Execve(p) /\ ~ PipeSyntaxError(p) /\ ~ PipeHandler(p)
      /\ ~ PipeHeredoc(p) /\ ~ ClosePipe(p) /\ ~ LeftChild(p) /\ ~ RightChild(p)
      /\ ~ RedirectionError(p) /\ ~ RedirectionFails(p) /\ ~ RdinHandler(p)
      /\ ~ RdoutHandler(p) /\ ~ HeredocOpen(p) /\ ~ HeredocChild(p) /\ ~ ProgramReads(p)
      /\ ~ Writes(p) /\ ~ ReadLine(p) /\ ~ HeredocLine(p)
  BY <1>3 DEF SigintIgnore, SigintRestore, ChildRestoreSignals, ExecBuiltin, Execve,
     PipeSyntaxError, PipeHandler, PipeHeredoc, ClosePipe, LeftChild, RightChild,
     RedirectionError, RedirectionFails, RdinHandler, RdoutHandler, HeredocOpen,
     HeredocChild, ProgramReads, Writes, ReadLine, HeredocLine, procs
<1>5. ~ WaitEnded(p)
  BY <1>1, <1>2 DEF WaitEnded, Reapable
<1>6. ~ WaitStopped(p)
  <2> SUFFICES ASSUME WaitStopped(p)  PROVE FALSE
    OBVIOUS
  <2>1. PICK code \in Nat : Exit(p, code)
    BY DEF Exits
  <2>2. Top(p).ref \in Pid /\ Exit(Top(p).ref, Killed(SIGKILL)) /\ st[Top(p).ref] = "stop"
    BY RunningFrame DEF WaitStopped, At, Indexed
  <2>3. todo'[p] = <<>>
    BY <2>1 DEF Exit, End
  <2>4. todo'[p] = todo[p] /\ todo[p] # <<>>
    BY <1>1, <2>2, RunningFrame DEF Exit, End, IInv, TypeOK
  <2> QED
    BY <2>3, <2>4
<1>7. ~ ExecCmd(p) /\ ~ ForkLeft(p) /\ ~ ForkRight(p) /\ ~ HeredocHandler(p)
  <2> SUFFICES ASSUME ExecCmd(p) \/ ForkLeft(p) \/ ForkRight(p) \/ HeredocHandler(p)
               PROVE  FALSE
    OBVIOUS
  <2>1. PICK c \in FreePid : \E a, b : Forks(p, c, a, b)
    BY AnyForks
  <2>2. st' = [st EXCEPT ![c] = "run"]
    BY <2>1 DEF Forks
  <2> QED
    BY <1>1, <1>2, <2>2
<1>8. ResetData(p) => mem[p].exit
  BY <1>3 DEF ResetData, procs
<1> QED
  BY <1>4, <1>5, <1>6, <1>7, <1>8 DEF Step, Types, Ends

LEMMA EndTop ==
  ASSUME NEW p \in Pid, Ends(p)
  PROVE  Top(p).op \in LastOp \cup {"bst", "echo", "reset"}
BY DEF Ends, CommandNotFound, ChildExit, OpenFails, Openable, Redirects, ProgramEnds, Finished,
   EndOfFile, Reading, BrokenPipe, Writing, EndOfInput, HeredocEnd, TypedEnd, ResetData, At,
   LastOp, ProgramOp, ProgramKind

(* A process that ends waits for nobody: it has no child. *)
LEMMA EndsChildless ==
  ASSUME IInv, Kin, NEW p \in Pid, st[p] = "run", WaitsOnTop(todo[p]),
         Top(p).op \notin WaitingOp \cup {"fork_right"}
  PROVE  \A q \in Pid : par[q] = p => st[q] = "none"
<1>1. /\ todo[p] \in Seq(Frame) /\ Top(p) = todo[p][1] /\ Len(todo[p]) \in Nat
      /\ Len(todo[p]) >= 1 /\ p \in Living
  BY RunningFrame DEF Living
<1>2. ~ \E c : WaitsFor(todo[p], c)
  <2> SUFFICES ASSUME NEW i \in 1 .. Len(todo[p]), Awaits(todo[p][i])  PROVE FALSE
    BY DEF WaitsFor
  <2>1. i # 1
    BY <1>1 DEF Awaits, WaitingOp
  <2>2. 1 \in 1 .. i - 1
    BY <1>1, <2>1
  <2> QED
    BY <1>1, <2>2 DEF WaitsOnTop
<1> QED
  BY <1>1, <1>2 DEF Kin, Matched, IsChild

LEMMA ExitOf ==
  ASSUME NEW p \in Pid, NEW code, Exit(p, code)
  PROVE  LET zombie == par[p] \notin {p, Nobody}
         IN  /\ st' = [q \in Pid |->
                         IF q = p THEN (IF zombie THEN "zombie" ELSE "none")
                         ELSE IF par[q] = p /\ st[q] = "zombie" THEN "none" ELSE st[q]]
             /\ par' = [q \in Pid |-> IF par[q] = p THEN Nobody ELSE par[q]]
             /\ ws' = [q \in Pid |-> IF q = p /\ zombie THEN code
                                     ELSE IF par[q] = p THEN 0 ELSE ws[q]]
BY DEF Exit, End

(***************************************************************************)
(* The tree of the processes.                                              *)
(***************************************************************************)
Tree == NoneStopped /\ NoOrphan /\ Rooted

LEMMA NotStopping ==
  ASSUME IInv, NoneStopped, NEW p \in Pid, st[p] = "run"  PROVE ~ WaitStopped(p)
<1> SUFFICES ASSUME WaitStopped(p)  PROVE FALSE
  OBVIOUS
<1>1. Top(p).ref \in Pid /\ st[Top(p).ref] = "stop"
  BY RunningFrame DEF WaitStopped, At, Indexed
<1> QED
  BY <1>1 DEF NoneStopped

LEMMA TreeSame ==
  ASSUME Tree, UNCHANGED procs  PROVE Tree'
BY DEF Tree, NoneStopped, NoOrphan, Rooted, Living, procs

LEMMA TreeFork ==
  ASSUME IInv, Kin, Tree, NEW p \in Pid, st[p] = "run", NEW c \in FreePid,
         st' = [st EXCEPT ![c] = "run"], par' = [par EXCEPT ![c] = p]
  PROVE  Tree'
<1>1. /\ st \in [Pid -> {"none", "run", "stop", "zombie"}] /\ par \in [Pid -> Pid \cup {Nobody}]
      /\ c \in Pid /\ c # Shell /\ st[c] = "none" /\ c # p /\ Nobody \notin Pid
  BY ProcessAssumption DEF IInv, TypeOK, FreePid
<1>2. Living' = Living \cup {c} /\ p \in Living /\ c \notin Living
  BY <1>1 DEF Living
<1>3. \A q \in Living : par[q] # c
  BY <1>1, <1>2 DEF Kin, Family, Living
<1>4. NoneStopped' /\ NoOrphan'
  BY <1>1, <1>2 DEF Tree, NoneStopped, NoOrphan
<1>5. Rooted'
  <2> SUFFICES ASSUME NEW S \in SUBSET (Living' \ {Shell}), S # {}
               PROVE  \E q \in S : par'[q] \notin S
    BY DEF Rooted
  <2>1. CASE S \subseteq {c}
    BY <2>1, <1>1
  <2>2. CASE ~ (S \subseteq {c})
    <3> DEFINE T == S \ {c}
    <3>1. T \in SUBSET (Living \ {Shell}) /\ T # {}
      BY <2>2, <1>2
    <3>2. PICK q \in T : par[q] \notin T
      BY <3>1 DEF Tree, Rooted
    <3>3. par'[q] = par[q] /\ par[q] # c
      BY <1>1, <1>3, <3>1, <3>2
    <3> QED
      BY <3>2, <3>3
  <2> QED
    BY <2>1, <2>2
<1> QED
  BY <1>4, <1>5 DEF Tree

LEMMA TreeWaitEnded ==
  ASSUME IInv, Tree, NEW p \in Pid, WaitEnded(p)  PROVE Tree'
<1> DEFINE c == Top(p).ref
<1>1. /\ st \in [Pid -> {"none", "run", "stop", "zombie"}] /\ par \in [Pid -> Pid \cup {Nobody}]
      /\ c \in Pid /\ st[c] = "zombie"
  BY RunningFrame DEF WaitEnded, At, Reapable, Indexed, IInv, TypeOK
<1>2. st' = [st EXCEPT ![c] = "none"] /\ par' = [par EXCEPT ![c] = Nobody]
  BY DEF WaitEnded
<1> HIDE DEF c
<1>3. Living' = Living /\ \A q \in Living : q \in Pid /\ par'[q] = par[q]
  BY <1>1, <1>2 DEF Living
<1>4. NoneStopped'
  BY <1>1, <1>2 DEF Tree, NoneStopped
<1>5. NoOrphan'
  BY <1>1, <1>2, <1>3 DEF Tree, NoOrphan
<1>6. Rooted'
  BY <1>3 DEF Tree, Rooted
<1> QED
  BY <1>4, <1>5, <1>6 DEF Tree

LEMMA TreeExit ==
  ASSUME IInv, Tree, NEW p \in Pid, st[p] = "run", NEW code, Exit(p, code),
         \A q \in Pid : par[q] = p => st[q] = "none"
  PROVE  Tree'
<1>1. /\ st \in [Pid -> {"none", "run", "stop", "zombie"}] /\ par \in [Pid -> Pid \cup {Nobody}]
  BY DEF IInv, TypeOK
<1>2. /\ \A q \in Pid \ {p} : st'[q] = st[q]
      /\ st'[p] \in {"none", "zombie"} /\ (st'[p] = "zombie" => par[p] \notin {p, Nobody})
      /\ \A q \in Pid : par'[q] = IF par[q] = p THEN Nobody ELSE par[q]
  BY ExitOf
<1>3. Living' = Living \ {p}
  BY <1>1, <1>2 DEF Living
<1>4. \A q \in Pid : st[q] # "none" => par[q] # p /\ par'[q] = par[q]
  BY <1>2
<1>5. NoneStopped'
  BY <1>1, <1>2 DEF Tree, NoneStopped
<1>6. NoOrphan'
  BY <1>2, <1>3, <1>4 DEF Tree, NoOrphan
<1>7. Rooted'
  <2> SUFFICES ASSUME NEW S \in SUBSET (Living' \ {Shell}), S # {}
               PROVE  \E q \in S : par'[q] \notin S
    BY DEF Rooted
  <2>1. S \in SUBSET (Living \ {Shell})
    BY <1>3
  <2>2. PICK q \in S : par[q] \notin S
    BY <2>1 DEF Tree, Rooted
  <2>3. par'[q] = par[q]
    BY <1>4, <2>1, <2>2 DEF Living
  <2> QED
    BY <2>2, <2>3
<1> QED
  BY <1>5, <1>6, <1>7 DEF Tree

LEMMA TreeStep ==
  ASSUME IInv, Kin, Company, NEW p \in Pid, Step(p) \/ Types(p), ~ OutOfResources(p)
  PROVE  Tree'
<1>1. st[p] = "run" /\ p \in Living /\ Tree /\ ~ WaitStopped(p)
  BY Stepping, NotStopping DEF Company, Tree, Living
<1>2. CASE Calls(p) \/ Becomes(p) \/ ReadLine(p) \/ HeredocLine(p)
  <2>1. UNCHANGED procs
    BY <1>2 DEF Calls, Becomes, ReadLine, HeredocLine
  <2> QED
    BY <1>1, <2>1, TreeSame
<1>3. CASE WaitEnded(p)
  BY <1>1, <1>3, TreeWaitEnded
<1>4. CASE ExecCmd(p) \/ ForkLeft(p) \/ ForkRight(p) \/ HeredocHandler(p)
  <2>1. PICK c \in FreePid : \E a, b : Forks(p, c, a, b)
    BY <1>4, AnyForks
  <2>2. st' = [st EXCEPT ![c] = "run"] /\ par' = [par EXCEPT ![c] = p]
    BY <2>1 DEF Forks
  <2> QED
    BY <1>1, <2>2, TreeFork
<1>5. CASE Exits(p)
  <2>1. Top(p).op \notin WaitingOp \cup {"fork_right"}
    BY <1>5, EndForms, EndTop DEF WaitingOp, LastOp, ProgramOp, ProgramKind
  <2>2. \A q \in Pid : par[q] = p => st[q] = "none"
    BY <1>1, <2>1, EndsChildless DEF Company
  <2>3. PICK code : Exit(p, code)
    BY <1>5 DEF Exits
  <2> QED
    BY <1>1, <2>2, <2>3, TreeExit
<1> QED
  BY <1>1, <1>2, <1>3, <1>4, <1>5, StepForms

(* When nothing above the shell's last frames waits, the shell is alone.   *)
LEMMA Alone ==
  ASSUME IInv, Kin, Company, st[Shell] = "run", Top(Shell).op \in {"prompt", "reset"}
  PROVE  \A q \in Pid \ {Shell} : st[q] = "none"
<1>1. Shell \in Pid /\ Shell \in Living /\ WaitsOnTop(todo[Shell])
  BY ProcessAssumption DEF Company, Living
<1>2. \A q \in Pid : par[q] = Shell => st[q] = "none"
  BY <1>1, EndsChildless DEF WaitingOp
<1>3. Living \ {Shell} = {}
  <2> SUFFICES ASSUME Living \ {Shell} # {}  PROVE FALSE
    OBVIOUS
  <2>1. PICK q \in Living \ {Shell} : par[q] \notin Living \ {Shell}
    BY DEF Company, Rooted
  <2>2. q \in Pid /\ st[q] # "none" /\ par[q] \in Living
    BY <2>1 DEF Living, Company, NoOrphan
  <2> QED
    BY <1>2, <2>1, <2>2
<1> QED
  BY <1>2, <1>3 DEF Company, NoOrphan

LEMMA AtPromptTop ==
  ASSUME IInv, NoLoop, NEW p \in Pid, st[p] = "run", Top(p).op \in {"prompt", "reset"}
  PROVE  p = Shell
<1>1. /\ todo[p] \in Seq(Frame) /\ Top(p) = todo[p][1] /\ Len(todo[p]) >= 1 /\ p \in Living
      /\ Len(todo[p]) \in Nat
  BY RunningFrame DEF Living
<1>2. 1 \in 1 .. Len(todo[p])
  BY <1>1
<1> QED
  BY <1>1, <1>2 DEF NoLoop, NoPrompt

(***************************************************************************)
(* The line and the here-document of a process.                            *)
(***************************************************************************)
LEMMA LivedOn ==
  ASSUME IInv, NEW p \in Pid, Step(p) \/ Types(p), NEW q \in Living'
  PROVE  \/ q \in Living /\ (q # p => Same(q))
         \/ st[q] = "none" /\ q # Shell /\ \E a, b : Forks(p, q, a, b)
<1>1. /\ q \in Pid /\ st'[q] \in {"run", "stop"} /\ st[p] = "run"
  BY Stepping DEF Living
<1>2. CASE st[q] = "none"
  BY <1>1, <1>2, NewStack
<1>3. CASE st[q] # "none" /\ q # p
  BY <1>1, <1>3, OthersKept DEF Living
<1>4. CASE q = p
  BY <1>1, <1>4 DEF Living
<1> QED
  BY <1>2, <1>3, <1>4

LEMMA SameLineStep ==
  ASSUME IInv, Kin, NoLoop, Company, NEW p \in Pid, Step(p) \/ Types(p)
  PROVE  SameLine'
<1> SUFFICES ASSUME Shell \in Living', NEW q \in Living'
             PROVE  mem'[q].line = mem'[Shell].line
  BY DEF SameLine
<1>1. Shell \in Living /\ p \in Living /\ st[p] = "run"
  BY LivedOn, Stepping DEF Living
<1>2. CASE ReadLine(p)
  <2>1. Top(p).op = "prompt" /\ st' = st
    BY <1>2 DEF ReadLine, At, procs
  <2>2. p = Shell
    BY <1>1, <2>1, AtPromptTop
  <2>3. \A r \in Pid \ {Shell} : st[r] = "none"
    BY <1>1, <2>1, <2>2, Alone
  <2>4. q = Shell
    BY <2>1, <2>3 DEF Living
  <2> QED
    BY <2>4
<1>3. CASE ~ ReadLine(p)
  <2>1. ASSUME NEW r \in Living'  PROVE mem'[r].line = mem[Shell].line
    <3>1. CASE r \in Living /\ r # p
      BY <3>1, <1>1, LivedOn, <2>1 DEF Same, Company, SameLine, Living
    <3>2. CASE r = p
      <4>1. st'[p] \in {"run", "stop"}
        BY <3>2, <2>1 DEF Living
      <4>2. mem'[p].line = mem[p].line
        BY <4>1, <1>3, ArgForms
      <4> QED
        BY <4>2, <3>2, <1>1 DEF Company, SameLine
    <3>3. CASE r \notin Living
      <4>1. PICK a, b : Forks(p, r, a, b)
        BY <3>3, <2>1, LivedOn
      <4>2. mem' = [mem EXCEPT ![r] = mem[p]] /\ mem \in [Pid -> Memory] /\ r \in Pid
        BY <4>1, <2>1 DEF Forks, IInv, TypeOK, Living
      <4> QED
        BY <4>2, <1>1 DEF Company, SameLine
    <3> QED
      BY <3>1, <3>2, <3>3
  <2> QED
    BY <2>1
<1> QED
  BY <1>2, <1>3

LEMMA TmpForms ==
  ASSUME IInv, NEW p \in Pid, Step(p) \/ Types(p), ~ OutOfResources(p)
  PROVE  tmp' = tmp \/ ResetData(p) \/ (HeredocHandler(p) /\ tmp' \in Doc)
<1>1. ASSUME \/ WaitEnded(p) \/ WaitStopped(p) \/ SigintIgnore(p) \/ SigintRestore(p)
             \/ ChildRestoreSignals(p) \/ ExecBuiltin(p) \/ ExecCmd(p) \/ Execve(p)
             \/ CommandNotFound(p) \/ PipeSyntaxError(p) \/ PipeHandler(p)
             \/ PipeHeredoc(p) \/ ForkLeft(p) \/ ForkRight(p) \/ ClosePipe(p) \/ ReadLine(p)
      PROVE  tmp' = tmp
  BY <1>1 DEF WaitEnded, WaitStopped, SigintIgnore, SigintRestore, ChildRestoreSignals,
     ExecBuiltin, ExecCmd, Execve, CommandNotFound, PipeSyntaxError, PipeHandler,
     PipeHeredoc, ForkLeft, ForkRight, ClosePipe, ReadLine, disk
<1>2. ASSUME \/ LeftChild(p) \/ RightChild(p) \/ ChildExit(p) \/ RedirectionError(p)
             \/ RedirectionFails(p) \/ OpenFails(p) \/ RdinHandler(p) \/ RdoutHandler(p)
             \/ HeredocOpen(p) \/ HeredocChild(p)
             \/ ProgramEnds(p) \/ ProgramReads(p) \/ EndOfFile(p) \/ Writes(p)
             \/ BrokenPipe(p) \/ EndOfInput(p) \/ HeredocLine(p) \/ HeredocEnd(p)
             \/ TypedEnd(p)
      PROVE  tmp' = tmp
  BY <1>2 DEF LeftChild, RightChild, ChildExit, RedirectionError, RedirectionFails,
     OpenFails, RdinHandler, RdoutHandler, HeredocOpen, HeredocChild, ProgramEnds,
     ProgramReads, EndOfFile, Writes, BrokenPipe, EndOfInput, HeredocLine, HeredocEnd,
     TypedEnd, disk
<1>3. HeredocHandler(p) => tmp' \in Doc
  BY DEF HeredocHandler, FreeDoc
<1> QED
  BY <1>1, <1>2, <1>3 DEF Step, Types

(* Only heredoc_handler() leaves the rest of itself to be done. *)
LEMMA DocPushed ==
  ASSUME IInv, NEW p \in Pid, Step(p) \/ Types(p), st'[p] \in {"run", "stop"},
         ~ WaitStopped(p), ~ HeredocHandler(p), Holds(todo'[p], DocOp)
  PROVE  Holds(todo[p], DocOp)
<1>1. /\ todo \in [Pid -> Seq(Frame)] /\ st[p] = "run"
      /\ todo[p] \in Seq(Frame) /\ todo[p] # <<>>
  BY Stepping, RunningFrame DEF IInv, TypeOK
<1>2. ASSUME NEW a \in Seq(Frame), todo'[p] = a \o Tail(todo[p]), ~ Holds(a, DocOp)
      PROVE  Holds(todo[p], DocOp)
  BY <1>1, <1>2, HoldsPush, HoldsTop
<1>3. ASSUME NEW a \in Seq(Frame), todo' = Return(p, a), NEW O, OnlyOps(a, O),
             "heredoc_open" \notin O
      PROVE  Holds(todo[p], DocOp)
  <2>1. todo'[p] = a \o Tail(todo[p]) /\ ~ Holds(a, DocOp)
    BY <1>1, <1>3 DEF Return, OnlyOps, Holds, DocOp
  <2> QED
    BY <1>2, <2>1
<1>5. CASE Calls(p)
  <2>1. PICK a \in Seq(Frame) : OnlyOps(a, CallOp) /\ todo' = Return(p, a)
    BY <1>5 DEF Calls
  <2>2. "heredoc_open" \notin CallOp
    BY DEF CallOp
  <2> QED
    BY <1>3, <2>1, <2>2
<1>6. CASE Becomes(p)
  <2>1. PICK f \in Frame : f.op \in LastOp /\ todo' = Return(p, <<f>>)
    BY <1>6 DEF Becomes
  <2>2. "heredoc_open" \notin LastOp
    BY DEF LastOp, ProgramOp, ProgramKind
  <2> DEFINE a == <<f>>
  <2>3. a \in Seq(Frame) /\ OnlyOps(a, LastOp) /\ todo' = Return(p, a)
    BY <2>1 DEF OnlyOps
  <2> HIDE DEF a
  <2> QED
    BY <1>3, <2>2, <2>3
<1>7. CASE WaitEnded(p)
  <2> DEFINE a == <<>>
  <2>1. a \in Seq(Frame) /\ OnlyOps(a, CallOp) /\ todo' = Return(p, a)
    BY <1>7 DEF OnlyOps, WaitEnded
  <2>2. "heredoc_open" \notin CallOp
    BY DEF CallOp
  <2> HIDE DEF a
  <2> QED
    BY <1>3, <2>1, <2>2
<1>8. CASE ExecCmd(p) \/ ForkLeft(p) \/ ForkRight(p)
  <2>1. PICK c \in FreePid : \E a, b : Forks(p, c, a, b)
    BY <1>8, AnyForks
  <2>2. PICK a, b : Forks(p, c, a, b)
    BY <2>1
  <2>3. a \in Seq(Frame) /\ todo'[p] = a \o Tail(todo[p])
    BY <2>2, ForksPush DEF Pushes
  <2>4. ExecShape(p, c, a, b) \/ LeftShape(p, c, a, b) \/ RightShape(p, c, a, b)
    BY <2>2 DEF Forks
  <2>5. ~ Holds(a, DocOp)
    <3>1. CASE ExecShape(p, c, a, b)
      BY <3>1 DEF ExecShape, IsAwait, Holds, DocOp
    <3>2. CASE LeftShape(p, c, a, b)
      BY <3>2 DEF LeftShape, Holds, DocOp, On
    <3>3. CASE RightShape(p, c, a, b)
      BY <3>3 DEF RightShape, Holds, DocOp
    <3> QED
      BY <3>1, <3>2, <3>3, <2>4
  <2> QED
    BY <1>2, <2>3, <2>5
<1>9. CASE ReadLine(p)
  <2>1. OnlyOps(todo'[p], {"bst", "reset", "prompt"})
    BY <1>9, ShellStackReadLine
  <2> QED
    BY <2>1 DEF OnlyOps, Holds, DocOp
<1>10. CASE HeredocLine(p)
  BY <1>10 DEF HeredocLine
<1>11. CASE Exits(p)
  BY <1>11, ExitKeeps DEF Exits
<1> QED
  BY <1>5, <1>6, <1>7, <1>8, <1>9, <1>10, <1>11, StepForms

LEMMA ChildHoldsNoDoc ==
  ASSUME IInv, NEW p \in Pid, NEW c \in Pid, NEW a, NEW b, Forks(p, c, a, b)
  PROVE  ~ Holds(todo'[c], DocOp)
<1>1. todo'[c] = b
  BY DEF Forks, Return, IInv, TypeOK
<1>2. CASE ExecShape(p, c, a, b)
  BY <1>1, <1>2 DEF ExecShape, Holds, DocOp, On
<1>3. CASE LeftShape(p, c, a, b) \/ RightShape(p, c, a, b)
  <2>1. PICK op \in {"left", "right"} : IsSide(b, p, op)
    BY <1>3 DEF LeftShape, RightShape
  <2>2. On(op, Top(p).lo, Top(p).hi, Nobody).op = op
    BY DEF On
  <2> QED
    BY <1>1, <2>1, <2>2 DEF IsSide, Holds, DocOp
<1>4. CASE HeredocShape(p, c, a, b)
  BY <1>1, <1>4 DEF HeredocShape, Holds, DocOp
<1> QED
  BY <1>2, <1>3, <1>4 DEF Forks

LEMMA UserKept ==
  ASSUME NEW p \in Pid, Step(p) \/ Types(p)  PROVE nsig' = nsig
<1>1. ASSUME \/ WaitEnded(p) \/ WaitStopped(p) \/ SigintIgnore(p) \/ SigintRestore(p)
             \/ ChildRestoreSignals(p) \/ ExecBuiltin(p) \/ ExecCmd(p) \/ Execve(p)
             \/ CommandNotFound(p) \/ PipeSyntaxError(p) \/ PipeHandler(p) \/ ResetData(p)
             \/ PipeHeredoc(p) \/ ForkLeft(p) \/ ForkRight(p) \/ ClosePipe(p) \/ ReadLine(p)
      PROVE  nsig' = nsig
  BY <1>1 DEF WaitEnded, WaitStopped, SigintIgnore, SigintRestore, ChildRestoreSignals,
     ExecBuiltin, ExecCmd, Execve, CommandNotFound, PipeSyntaxError, PipeHandler, ResetData,
     PipeHeredoc, ForkLeft, ForkRight, ClosePipe, ReadLine, user
<1>2. ASSUME \/ LeftChild(p) \/ RightChild(p) \/ ChildExit(p) \/ RedirectionError(p)
             \/ RedirectionFails(p) \/ OpenFails(p) \/ RdinHandler(p) \/ RdoutHandler(p)
             \/ HeredocHandler(p) \/ HeredocOpen(p) \/ HeredocChild(p) \/ OutOfResources(p)
             \/ ProgramEnds(p) \/ ProgramReads(p) \/ EndOfFile(p) \/ Writes(p)
             \/ BrokenPipe(p) \/ EndOfInput(p) \/ HeredocLine(p) \/ HeredocEnd(p)
             \/ TypedEnd(p)
      PROVE  nsig' = nsig
  BY <1>2 DEF LeftChild, RightChild, ChildExit, RedirectionError, RedirectionFails,
     OpenFails, RdinHandler, RdoutHandler, HeredocHandler, HeredocOpen, HeredocChild,
     OutOfResources, ProgramEnds, ProgramReads, EndOfFile, Writes, BrokenPipe, EndOfInput,
     HeredocLine, HeredocEnd, TypedEnd, user
<1> QED
  BY <1>1, <1>2 DEF Step, Types

LEMMA DocThereStep ==
  ASSUME IInv, Kin, NoLoop, Home, Company, NEW p \in Pid, Step(p) \/ Types(p),
         ~ OutOfResources(p)
  PROVE  DocThere'
<1> SUFFICES ASSUME NEW q \in Living', Holds(todo'[q], DocOp)  PROVE tmp' # NoDoc
  BY DEF DocThere
<1>1. st[p] = "run" /\ p \in Living /\ ~ WaitStopped(p) /\ NoDoc \notin Doc
  BY Stepping, NotStopping, ObjectAssumption DEF Company, Living
<1>2. CASE HeredocHandler(p)
  <2>1. ~ ResetData(p)
    BY <1>2 DEF HeredocHandler, Openable, Redirects, ResetData, At
  <2>2. tmp' \in Doc
    BY <1>2 DEF HeredocHandler, FreeDoc
  <2> QED
    BY <1>1, <2>2
<1>3. CASE ~ HeredocHandler(p)
  <2>1. q \in Living /\ Holds(todo[q], DocOp)
    <3>1. q \in Living
      <4>1. CASE q \notin Living
        <5>1. PICK a, b : Forks(p, q, a, b)
          BY <4>1, LivedOn
        <5>2. q \in Pid
          BY DEF Living
        <5> QED
          BY <5>1, <5>2, ChildHoldsNoDoc
      <4> QED
        BY <4>1
    <3>2. CASE q = p
      BY <1>1, <1>3, <3>1, <3>2, DocPushed DEF Living
    <3>3. CASE q # p
      BY <3>1, <3>3, LivedOn DEF Same, Living
    <3> QED
      BY <3>1, <3>2, <3>3
  <2>2. CASE ResetData(p)
    <3>1. Top(p).op = "reset"
      BY <2>2 DEF ResetData, At
    <3>2. p = Shell
      BY <1>1, <3>1, AtPromptTop
    <3>3. q = Shell
      BY <1>1, <3>1, <3>2, <2>1, Alone DEF Living
    <3>4. /\ todo[Shell] \in Seq(Frame) /\ ShellStack(todo[Shell]) /\ Len(todo[Shell]) \in Nat
          /\ Len(todo[Shell]) >= 1 /\ todo[Shell][1].op = "reset"
      BY <1>1, <3>1, <3>2, RunningFrame DEF Home
    <3>5. Len(todo[Shell]) = 2 /\ todo[Shell][2].op = "prompt"
      <4> DEFINE s == todo[Shell]
      <4>1. /\ Len(s) \in Nat /\ s[1].op = "reset" /\ s[Len(s)].op = "prompt" /\ 1 \in 1 .. Len(s)
            /\ \A i \in 1 .. Len(s) : s[i].op = "reset" <=> i = Len(s) - 1
        BY <3>4 DEF ShellStack
      <4> HIDE DEF s
      <4>2. 1 = Len(s) - 1
        BY <4>1
      <4>3. Len(s) = 2
        BY <4>1, <4>2
      <4>4. s[2].op = "prompt"
        BY <4>1, <4>3
      <4> QED
        BY <4>3, <4>4 DEF s
    <3> QED
      <4>1. \A i \in 1 .. 2 : i = 1 \/ i = 2
        OBVIOUS
      <4> QED
        BY <2>1, <3>3, <3>4, <3>5, <4>1 DEF Holds, DocOp
  <2> QED
    BY <1>3, <2>1, <2>2, TmpForms DEF Company, DocThere
<1> QED
  BY <1>2, <1>3

LEMMA CompanyStep ==
  ASSUME IInv, Kin, NoLoop, Home, Company, NEW p \in Pid, Step(p) \/ Types(p),
         ~ OutOfResources(p)
  PROVE  Company'
<1>1. Tree' /\ SameLine' /\ DocThere'
  BY TreeStep, SameLineStep, DocThereStep
<1>2. ASSUME NEW q \in Living'  PROVE WaitsOnTop(todo'[q])
  <2>1. CASE q \in Living /\ q # p
    BY <1>2, <2>1, LivedOn DEF Same, Company, Living
  <2>2. CASE q = p
    <3>1. st[p] = "run" /\ p \in Living /\ st'[p] \in {"run", "stop"}
      BY <1>2, <2>2, Stepping DEF Living
    <3> QED
      BY <3>1, <2>2, NotStopping, WaitsOnTopStep DEF Company
  <2>3. CASE q \notin Living
    <3>1. st[q] = "none" /\ \E a, b : Forks(p, q, a, b)
      BY <1>2, <2>3, LivedOn
    <3>2. PICK a, b : Forks(p, q, a, b)
      BY <3>1
    <3>3. q \in FreePid
      <4>1. q # Shell /\ q \in Pid
        BY <1>2, <2>3, LivedOn DEF Living
      <4> QED
        BY <4>1, <3>1 DEF FreePid
    <3>4. todo'[q] = b
      BY <3>2, <3>3 DEF Forks, Return, IInv, TypeOK, FreePid
    <3> QED
      BY <3>2, <3>3, <3>4, ForksOnTop
  <2> QED
    BY <2>1, <2>2, <2>3
<1> QED
  BY <1>1, <1>2 DEF Company, Tree

LEMMA CompanyInit == Init => Company
<1> SUFFICES ASSUME Init  PROVE Company
  OBVIOUS
<1>1. Living = {Shell} /\ Shell \in Pid /\ todo[Shell] = <<Do("prompt")>>
  BY ProcessAssumption DEF Init, Living
<1>2. NoneStopped /\ NoOrphan /\ Rooted /\ SameLine
  BY <1>1 DEF Init, NoneStopped, NoOrphan, Rooted, SameLine
<1> DEFINE f == Do("prompt")
<1>3. f.op = "prompt"
  BY DEF Do, On
<1>4. todo[Shell] = <<f>> /\ Len(todo[Shell]) = 1 /\ todo[Shell][1] = f
  BY <1>1
<1> HIDE DEF f
<1>5. ~ Holds(todo[Shell], DocOp) /\ WaitsOnTop(todo[Shell])
  BY <1>3, <1>4 DEF Holds, DocOp, WaitsOnTop
<1> QED
  BY <1>1, <1>2, <1>5 DEF Company, DocThere

LEMMA CompanySame ==
  ASSUME Company, UNCHANGED vars  PROVE Company'
<1>1. st' = st /\ par' = par /\ todo' = todo /\ mem' = mem /\ tmp' = tmp
  BY DEF vars, procs, disk
<1>2. Living' = Living
  BY <1>1 DEF Living
<1> QED
  BY <1>1, <1>2 DEF Company, NoneStopped, NoOrphan, Rooted, SameLine, DocThere

Accompanied == nsig = 0 => Company
LEMMA AccompaniedNext ==
  IInv /\ Kin /\ NoLoop /\ Home /\ Accompanied /\ [Next]_vars /\ [Enough]_vars => Accompanied'
<1> SUFFICES ASSUME IInv, Kin, NoLoop, Home, Accompanied, [Next]_vars, [Enough]_vars, nsig' = 0
             PROVE  Company'
  BY DEF Accompanied
<1>1. CASE UNCHANGED vars
  <2>1. nsig = 0
    BY <1>1 DEF vars, user
  <2> QED
    BY <1>1, <2>1, CompanySame DEF Accompanied
<1>2. ASSUME NEW p \in Pid, Step(p) \/ Types(p), Enough  PROVE Company'
  <2>1. nsig' = nsig
    BY <1>2, UserKept
  <2>2. ~ OutOfResources(p)
    BY <1>2 DEF Enough
  <2> QED
    BY <1>2, <2>1, <2>2, CompanyStep DEF Accompanied
<1>3. CASE CtrlC \/ CtrlBackslash \/ CtrlZ
  <2>1. nsig \in Nat /\ nsig' = nsig + 1
    BY <1>3 DEF CtrlC, CtrlBackslash, CtrlZ, IInv, TypeOK
  <2> QED
    BY <2>1
<1> QED
  BY <1>1, <1>2, <1>3 DEF Next, Over

(***************************************************************************)
(* The shape of a line that asks for one command in each stage.            *)
(***************************************************************************)
LEMMA StageType ==
  ASSUME NEW line, NEW i \in Nat
  PROVE  /\ IsFiniteSet(TokensOf(line, 1, i - 1, "|")) /\ Stage(line, i) \in Nat
         /\ \A j \in 1 .. i : Stage(line, j) <= Stage(line, i)
<1>1. \A n \in Int : IsFiniteSet(TokensOf(line, 1, n, "|"))
  <2>1. \A n \in Int : IsFiniteSet(1 .. n)
    BY FS_Interval
  <2>2. \A n \in Int : TokensOf(line, 1, n, "|") \subseteq 1 .. n
    BY DEF TokensOf
  <2> QED
    BY <2>1, <2>2, FS_Subset
<1>2. ASSUME NEW j \in 1 .. i  PROVE Stage(line, j) <= Stage(line, i)
  <2>1. TokensOf(line, 1, j - 1, "|") \subseteq TokensOf(line, 1, i - 1, "|")
    BY DEF TokensOf
  <2> QED
    BY <1>1, <2>1, FS_Subset DEF Stage
<1> QED
  BY <1>1, <1>2, FS_CardinalityType DEF Stage

LEMMA StageNext ==
  ASSUME NEW line, NEW i \in Nat, i >= 1, line[i].c = "|"
  PROVE  Stage(line, i + 1) = Stage(line, i) + 1
<1>1. TokensOf(line, 1, i, "|") = TokensOf(line, 1, i - 1, "|") \cup {i}
  BY DEF TokensOf
<1>2. i \notin TokensOf(line, 1, i - 1, "|")
  BY DEF TokensOf
<1>3. (i + 1) - 1 = i
  OBVIOUS
<1> QED
  BY <1>1, <1>2, <1>3, StageType, FS_AddElement DEF Stage

(* The command of the last stage. *)
Last(line) == CHOOSE i \in Commands(line, LastStage(line)) : TRUE

(* What that means of the tokens: no pipe after L, none without a token    *)
(* before it, every other word in an earlier stage than L.                 *)
Shaped(line, L) ==
  /\ L \in 1 .. Len(line) /\ line[L].c = "w"
  /\ \A i \in 1 .. Len(line) :
       /\ line[i].c = "|" => i < L /\ i > 1 /\ line[i - 1].c # "|" /\ line[i].n <= 1
       /\ line[i].c = "w" /\ i # L => i < L /\ \E j \in i .. L : line[j].c = "|"
       /\ line[i].c \in {"<", ">"} => line[i].n <= 2 /\ line[i].w # NoWord

LEMMA LineShaped ==
  ASSUME NEW line \in Lines \cup {<<>>}, WellFormed(line)
  PROVE  Shaped(line, Last(line))
<1> DEFINE K == LastStage(line)
           N == Len(line)
           S(i) == Stage(line, i)
<1>1. /\ N \in Nat /\ DOMAIN line = 1 .. N
      /\ \A i \in 1 .. N : line[i].c \in OpChar /\ line[i].n \in Nat
  BY LineType, LenProperties
<1>2. S(N + 1) = K
  BY <1>1 DEF Stage, LastStage
<1>3. /\ \A i \in 1 .. N + 1 : S(i) \in Nat /\ S(i) <= K
      /\ \A i, j \in 1 .. N + 1 : i <= j => S(i) <= S(j)
      /\ \A i \in 1 .. N : line[i].c = "|" => S(i + 1) = S(i) + 1
  <2>1. ASSUME NEW i \in 1 .. N + 1
        PROVE  S(i) \in Nat /\ S(i) <= S(N + 1) /\ \A j \in 1 .. i : S(j) <= S(i)
    <3>1. i \in Nat /\ N + 1 \in Nat /\ i \in 1 .. N + 1
      BY <1>1
    <3> QED
      BY <3>1, StageType
  <2>2. \A i \in 1 .. N : line[i].c = "|" => S(i + 1) = S(i) + 1
    BY <1>1, StageNext
  <2>3. \A i, j \in 1 .. N + 1 : i <= j => i \in 1 .. j
    BY <1>1
  <2> HIDE DEF S, K, N
  <2> QED
    BY <2>1, <2>2, <2>3, <1>2
<1>4. \A k \in 0 .. K : Cardinality(Commands(line, k)) = 1
  BY DEF WellFormed
<1>5. K \in Nat
  BY <1>1, <1>2, <1>3
<1>6. \A k : Commands(line, k) = {i \in 1 .. N : S(i) = k /\ line[i].c = "w"}
  BY <1>1 DEF Commands, InStage
<1>7. ASSUME NEW k \in 0 .. K
      PROVE  /\ \E i \in 1 .. N : S(i) = k /\ line[i].c = "w"
             /\ \A i, j \in Commands(line, k) : i = j
  <2>1. IsFiniteSet(Commands(line, k))
    <3>1. Commands(line, k) \subseteq 1 .. N /\ IsFiniteSet(1 .. N)
      BY <1>1, <1>6, FS_Interval
    <3> QED
      BY <3>1, FS_Subset
  <2>2. PICK x : Commands(line, k) = {x}
    BY <1>4, <1>7, <2>1, FS_Singleton
  <2> QED
    BY <1>6, <2>2
<1>8. Last(line) \in Commands(line, K)
  <2>1. K \in 0 .. K
    BY <1>5
  <2>2. \E i : i \in Commands(line, K)
    <3>1. \E i \in 1 .. N : S(i) = K /\ line[i].c = "w"
      BY <2>1, <1>7
    <3> QED
      BY <3>1, <1>6
  <2> QED
    BY <2>2 DEF Last
<1> DEFINE L == Last(line)
<1>9. L \in 1 .. N /\ line[L].c = "w" /\ S(L) = K
  BY <1>6, <1>8
<1>10. \A i \in 1 .. N : line[i].c = "w" /\ i # L => S(i) # K
  <2>1. K \in 0 .. K
    BY <1>5
  <2>2. \A i, j \in Commands(line, K) : i = j
    BY <2>1, <1>7
  <2> QED
    BY <2>2, <1>6, <1>8
<1> HIDE DEF K, N, S, L
<1>11. ASSUME NEW i \in 1 .. N, line[i].c = "|"
       PROVE  i < L /\ i > 1 /\ line[i - 1].c # "|"
  <2>1. i < L
    <3> SUFFICES ASSUME L <= i  PROVE FALSE
      BY <1>1, <1>9
    <3>1. S(L) <= S(i) /\ S(i + 1) = S(i) + 1 /\ S(i + 1) <= K /\ S(i) \in Nat
      BY <1>1, <1>3, <1>9, <1>11
    <3> QED
      BY <3>1, <1>5, <1>9
  <2>2. PICK j \in 1 .. N : S(j) = S(i) /\ line[j].c = "w"
    BY <1>1, <1>3, <1>7, <1>5
  <2>3. j < i
    <3> SUFFICES ASSUME i <= j  PROVE FALSE
      BY <1>1
    <3>1. i + 1 <= j
      BY <1>1, <2>2, <1>11
    <3>2. S(i + 1) <= S(j) /\ S(i + 1) = S(i) + 1 /\ S(i) \in Nat
      BY <1>1, <1>3, <3>1, <1>11
    <3> QED
      BY <2>2, <3>2
  <2>4. line[i - 1].c # "|"
    <3> SUFFICES ASSUME line[i - 1].c = "|"  PROVE FALSE
      OBVIOUS
    <3>1. i - 1 \in 1 .. N /\ j <= i - 1 /\ (i - 1) + 1 = i
      BY <1>1, <2>3
    <3>2. S(i) = S(i - 1) + 1 /\ S(j) <= S(i - 1) /\ S(i - 1) \in Nat
      BY <1>1, <1>3, <3>1
    <3> QED
      BY <2>2, <3>2
  <2> QED
    BY <1>1, <2>1, <2>3, <2>4
<1>12. ASSUME NEW i \in 1 .. N, line[i].c = "w", i # L
       PROVE  i < L /\ \E j \in i .. L : line[j].c = "|"
  <2>1. S(i) # K
    BY <1>10, <1>12
  <2>2. i < L
    <3> SUFFICES ASSUME L <= i  PROVE FALSE
      BY <1>1, <1>9
    <3>1. S(L) <= S(i) /\ S(i) <= K /\ S(i) \in Nat
      BY <1>1, <1>3, <1>9
    <3> QED
      BY <3>1, <2>1, <1>5, <1>9
  <2>3. TokensOf(line, i, L, "|") # {}
    <3> SUFFICES ASSUME TokensOf(line, i, L, "|") = {}  PROVE FALSE
      OBVIOUS
    <3>1. Stage(line, i) = Stage(line, L)
      BY <1>1, <1>9, <2>2, SameStage
    <3> QED
      BY <3>1, <2>1, <1>9 DEF S
  <2> QED
    BY <2>2, <2>3 DEF TokensOf
<1>13. \A i \in 1 .. N : /\ line[i].c = "|" => line[i].n <= 1
                         /\ line[i].c \in {"<", ">"} => line[i].n <= 2 /\ line[i].w # NoWord
  BY <1>1 DEF WellFormed
<1> QED
  BY <1>9, <1>11, <1>12, <1>13 DEF Shaped, N, L

LEMMA StatusCases ==
  ASSUME NEW w
  PROVE  /\ Prog[w].k \in {"status", "builtin"} => StatusOf(w) = Prog[w].n
         /\ Prog[w].k = "none" => StatusOf(w) = 127
         /\ Prog[w].k \notin {"status", "builtin", "none"} => StatusOf(w) = 0
<1> DEFINE k == Prog[w].k
<1> HIDE DEF k
<1>1. CASE k \in {"status", "builtin"}
  <2>1. StatusOf(w) = Prog[w].n
    BY <1>1 DEF StatusOf, k
  <2> QED
    BY <2>1, <1>1 DEF k
<1>2. CASE k = "none"
  <2>1. StatusOf(w) = 127
    BY <1>2 DEF StatusOf, k
  <2> QED
    BY <2>1, <1>2 DEF k
<1>3. CASE k \notin {"status", "builtin", "none"}
  <2>1. StatusOf(w) = 0
    BY <1>3 DEF StatusOf, k
  <2> QED
    BY <2>1, <1>3 DEF k
<1> QED
  BY <1>1, <1>2, <1>3

(***************************************************************************)
(* Who owes the shell the status of its line.                              *)
(***************************************************************************)
(* The status the line should have, and the lines it is said of. *)
Due(line) == StatusOf(line[Last(line)].w)
Fine(line) ==
  WellFormed(line) /\ Opens(line) /\ Prog[CommandOf(line, LastStage(line))].k # "exit"

(* The subtree of a frame has the last command, and begins with a stage    *)
(* when it has several; it only has redirections of the output.            *)
Starts(line, lo) == lo = 1 \/ line[lo - 1].c = "|"
Carries(line, f) ==
  Last(line) \in f.lo .. f.hi /\ (TokensOf(line, f.lo, f.hi, "|") = {} \/ Starts(line, f.lo))
OnlyOut(line, f) == \A i \in f.lo .. f.hi : line[i].c = ">"
RightOf(line, f) == Kind(line, Root(line, f.lo, f.hi) + 1, f.hi)

(* The frame leaves g_exit_status as it is. *)
ForkingOp == {"fork_left", "fork_right"}
Neutral(f, line) ==
  \/ f.op \in {"prompt", "reset", "_exit", "close_pipe", "child", "heredoc_right_end"}
  \/ f.op \in ForkingOp /\ RightOf(line, f) = "HEREDOC"
  \/ f.op = "bst" /\ OnlyOut(line, f)
Rest(s, m, i) == \A j \in i + 1 .. Len(s) : Neutral(s[j], m.line)

(* What the frame at i leaves in g_exit_status is the status due: it runs  *)
(* the last command, or its subtree ... *)
Runs(line, f) ==
  /\ f.op \in ProgramOp /\ f.lo = Last(line)
  /\ LET k == Prog[line[f.lo].w].k IN f.op \in {"exec", k} \/ (f.op = "put" /\ k = "copy")
Earns(f, line) ==
  \/ f.op = "bst" /\ Carries(line, f)
  \/ f.op = "echo" /\ Due(line) = 0
  \/ /\ f.op \in ForkingOp \cup {"right"} /\ Carries(line, f)
     /\ Kind(line, f.lo, f.hi) = "PIPE" /\ RightOf(line, f) # "HEREDOC"
  \/ Runs(line, f)

(* ... it translates the status of a process of Y, that ends with it ... *)
Reports(s, m, i, Y) ==
  /\ s[i].op = "restore"
  /\ i = 1 => ExitStatus(m.g) = Due(m.line)
  /\ i > 1 => s[i - 1].op = "wait" /\ s[i - 1].ref \in Y

(* ... or it goes on after a here-document that one of W writes. *)
Continues(s, m, i, W) ==
  /\ s[i].op = "heredoc_open" /\ Carries(m.line, s[i])
  /\ Kind(m.line, s[i].lo, s[i].hi) = "HEREDOC"
  /\ i = 1 => m.g = 0
  /\ i > 1 => s[i - 1].op = "restore"
  /\ i = 2 => ExitStatus(m.g) = 0
  /\ i > 2 => s[i - 2].op = "wait" /\ s[i - 2].ref \in W
Delivers(s, m, i, Y, W) == Earns(s[i], m.line) \/ Reports(s, m, i, Y) \/ Continues(s, m, i, W)
Pays(s, m, Y, W) ==
  \/ m.g = Due(m.line) /\ Rest(s, m, 0)
  \/ \E i \in 1 .. Len(s) : Delivers(s, m, i, Y, W) /\ Rest(s, m, i)

(* The frames that a step pushes pay, and what was below them is neutral. *)
LEMMA PaysTop ==
  ASSUME NEW s \in Seq(Frame), s # <<>>, NEW a \in Seq(Frame), NEW t, t = a \o Tail(s),
         NEW m, NEW n, n.line = m.line, Rest(s, m, 1), NEW Y, NEW W, Pays(a, n, Y, W)
  PROVE  Pays(t, n, Y, W)
<1>1. /\ t \in Seq(Frame) /\ Len(a) \in Nat /\ Len(s) \in Nat /\ Len(s) >= 1
      /\ Len(t) = Len(a) + Len(s) - 1
      /\ \A i \in 1 .. Len(a) : i \in 1 .. Len(t) /\ t[i] = a[i]
      /\ \A i \in 1 .. Len(t) :
           \/ i \in 1 .. Len(a) /\ t[i] = a[i]
           \/ i - Len(a) + 1 \in 2 .. Len(s) /\ t[i] = s[i - Len(a) + 1]
  BY Pushed
<1>2. ASSUME NEW i \in Nat, Rest(a, n, i)  PROVE Rest(t, n, i)
  <2> SUFFICES ASSUME NEW j \in i + 1 .. Len(t)  PROVE Neutral(t[j], n.line)
    BY DEF Rest
  <2>1. CASE j \in 1 .. Len(a) /\ t[j] = a[j]
    BY <1>1, <1>2, <2>1 DEF Rest
  <2>2. CASE j - Len(a) + 1 \in 2 .. Len(s) /\ t[j] = s[j - Len(a) + 1]
    BY <2>2 DEF Rest
  <2> QED
    BY <1>1, <2>1, <2>2
<1>3. CASE n.g = Due(n.line) /\ Rest(a, n, 0)
  BY <1>2, <1>3 DEF Pays
<1>4. CASE \E i \in 1 .. Len(a) : Delivers(a, n, i, Y, W) /\ Rest(a, n, i)
  <2>1. PICK i \in 1 .. Len(a) : Delivers(a, n, i, Y, W) /\ Rest(a, n, i)
    BY <1>4
  <2>2. i \in 1 .. Len(t) /\ i \in Nat /\ t[i] = a[i]
    BY <1>1, <2>1
  <2>3. i > 1 => t[i - 1] = a[i - 1]
    BY <1>1, <2>1
  <2>4. i > 2 => t[i - 2] = a[i - 2]
    BY <1>1, <2>1
  <2>5. Delivers(t, n, i, Y, W)
    <3>1. Earns(a[i], n.line) => Earns(t[i], n.line)
      BY <2>2
    <3>2. Reports(a, n, i, Y) => Reports(t, n, i, Y)
      BY <2>2, <2>3 DEF Reports
    <3>3. Continues(a, n, i, W) => Continues(t, n, i, W)
      BY <2>2, <2>3, <2>4 DEF Continues
    <3> QED
      BY <2>1, <3>1, <3>2, <3>3 DEF Delivers
  <2> QED
    BY <1>2, <2>1, <2>2, <2>5 DEF Pays
<1> QED
  BY <1>3, <1>4 DEF Pays

(* A frame below the top pays as before, once the top has done its part. *)
Finishes(s, m, n, a, Y, W) ==
  /\ s[1].op \in {"wait", "restore"} => a = <<>>
  /\ s[1].op = "restore" => n.g = ExitStatus(m.g)
  /\ s[1].op = "wait" =>
       /\ s[1].ref \in Y => ExitStatus(n.g) = Due(n.line)
       /\ s[1].ref \in W => ExitStatus(n.g) = 0
Heirs(s, Y, Z) ==
  \A k \in 2 .. Len(s) : s[k].op = "wait" /\ s[k].ref \in Y => s[k].ref \in Z

LEMMA PaysBelow ==
  ASSUME NEW s \in Seq(Frame), s # <<>>, NEW a \in Seq(Frame), NEW t, t = a \o Tail(s),
         NEW m, NEW n, n.line = m.line, NEW i \in 2 .. Len(s), Rest(s, m, i),
         NEW Y, NEW W, NEW Y2, NEW W2, Delivers(s, m, i, Y, W), Finishes(s, m, n, a, Y, W),
         Heirs(s, Y, Y2), Heirs(s, W, W2)
  PROVE  Pays(t, n, Y2, W2)
<1>1. /\ t \in Seq(Frame) /\ Len(a) \in Nat /\ Len(s) \in Nat /\ Len(s) >= 1
      /\ Len(t) = Len(a) + Len(s) - 1
      /\ \A k \in 2 .. Len(s) : Len(a) + k - 1 \in 1 .. Len(t) /\ t[Len(a) + k - 1] = s[k]
  BY Pushed
<1> DEFINE j == Len(a) + i - 1
<1>2. j \in 1 .. Len(t) /\ j \in Nat /\ t[j] = s[i] /\ i - 1 <= j
  BY <1>1
<1>3. Rest(t, n, j)
  <2> SUFFICES ASSUME NEW l \in j + 1 .. Len(t)  PROVE Neutral(t[l], n.line)
    BY DEF Rest
  <2> DEFINE k == l - Len(a) + 1
  <2>1. k \in i + 1 .. Len(s) /\ k \in 2 .. Len(s) /\ Len(a) + k - 1 = l
    BY <1>1
  <2>2. t[l] = s[k]
    BY <1>1, <2>1
  <2> QED
    BY <2>1, <2>2 DEF Rest
<1>4. i > 2 => t[j - 1] = s[i - 1] /\ j > 1
  <2> SUFFICES ASSUME i > 2  PROVE t[j - 1] = s[i - 1] /\ j > 1
    OBVIOUS
  <2>1. i - 1 \in 2 .. Len(s) /\ Len(a) + (i - 1) - 1 = j - 1 /\ j > 1
    BY <1>1
  <2> QED
    BY <1>1, <2>1
<1>5. i > 3 => t[j - 2] = s[i - 2] /\ j > 2
  <2> SUFFICES ASSUME i > 3  PROVE t[j - 2] = s[i - 2] /\ j > 2
    OBVIOUS
  <2>1. i - 2 \in 2 .. Len(s) /\ Len(a) + (i - 2) - 1 = j - 2 /\ j > 2
    BY <1>1
  <2> QED
    BY <1>1, <2>1
<1>6. a = <<>> => j = i - 1
  BY <1>1
<1>10. i \in Nat
  BY <1>1
<1> HIDE DEF j
<1>7. Reports(s, m, i, Y) => Reports(t, n, j, Y2)
  <2> SUFFICES ASSUME Reports(s, m, i, Y)  PROVE Reports(t, n, j, Y2)
    OBVIOUS
  <2>1. s[i].op = "restore" /\ s[i - 1].op = "wait" /\ s[i - 1].ref \in Y
    BY DEF Reports
  <2>2. CASE i = 2
    <3>1. j = 1 /\ ExitStatus(n.g) = Due(n.line)
      BY <1>6, <2>1, <2>2 DEF Finishes
    <3> QED
      BY <1>2, <2>1, <3>1 DEF Reports
  <2>3. CASE i > 2
    <3>1. s[i - 1].ref \in Y2
      BY <2>1, <2>3, <1>1 DEF Heirs
    <3> QED
      BY <1>2, <1>4, <2>1, <2>3, <3>1 DEF Reports
  <2> QED
    BY <2>2, <2>3
<1>8. Continues(s, m, i, W) => Continues(t, n, j, W2)
  <2> SUFFICES ASSUME Continues(s, m, i, W)  PROVE Continues(t, n, j, W2)
    OBVIOUS
  <2>1. /\ s[i].op = "heredoc_open" /\ Carries(m.line, s[i])
        /\ Kind(m.line, s[i].lo, s[i].hi) = "HEREDOC" /\ s[i - 1].op = "restore"
        /\ i = 2 => ExitStatus(m.g) = 0
        /\ i > 2 => s[i - 2].op = "wait" /\ s[i - 2].ref \in W
    BY DEF Continues
  <2>2. CASE i = 2
    <3>1. j = 1 /\ n.g = 0
      BY <1>6, <2>1, <2>2 DEF Finishes
    <3> QED
      BY <1>2, <2>1, <3>1 DEF Continues
  <2>3. CASE i = 3
    <3>1. j = 2 /\ ExitStatus(n.g) = 0
      BY <1>6, <2>1, <2>3 DEF Finishes
    <3> QED
      BY <1>2, <1>4, <2>1, <2>3, <3>1 DEF Continues
  <2>4. CASE i > 3
    <3>1. i - 2 \in 2 .. Len(s) /\ s[i - 2].op = "wait" /\ s[i - 2].ref \in W
      BY <2>1, <2>4, <1>1
    <3>2. s[i - 2].ref \in W2
      BY <3>1 DEF Heirs
    <3>3. /\ j > 2 /\ t[j - 1] = s[i - 1] /\ t[j - 2] = s[i - 2]
      <4>1. i > 2 /\ i > 3
        BY <1>10, <2>4
      <4> QED
        BY <4>1, <1>4, <1>5
    <3>4. t[j].op = "heredoc_open" /\ Carries(n.line, t[j])
          /\ Kind(n.line, t[j].lo, t[j].hi) = "HEREDOC"
      BY <1>2, <2>1
    <3> QED
      <4>1. j > 1 /\ j # 1 /\ j # 2
        BY <1>2, <3>3
      <4>2. t[j - 1].op = "restore" /\ t[j - 2].op = "wait" /\ t[j - 2].ref \in W2
        BY <2>1, <3>1, <3>2, <3>3
      <4> QED
        BY <3>3, <3>4, <4>1, <4>2 DEF Continues
  <2> QED
    BY <2>2, <2>3, <2>4
<1>9. Delivers(t, n, j, Y2, W2)
  BY <1>2, <1>7, <1>8 DEF Delivers
<1> QED
  BY <1>2, <1>3, <1>9 DEF Pays

(* A process that does nothing pays as long as those it waits for do. *)
LEMMA PaysKept ==
  ASSUME NEW s \in Seq(Frame), NEW m, NEW Y, NEW W, NEW Y2, NEW W2, Pays(s, m, Y, W),
         \A k \in 1 .. Len(s) : s[k].op = "wait" =>
           (s[k].ref \in Y => s[k].ref \in Y2) /\ (s[k].ref \in W => s[k].ref \in W2)
  PROVE  Pays(s, m, Y2, W2)
<1>1. Len(s) \in Nat
  BY LenProperties
<1>2. CASE m.g = Due(m.line) /\ Rest(s, m, 0)
  BY <1>2 DEF Pays
<1>3. CASE \E i \in 1 .. Len(s) : Delivers(s, m, i, Y, W) /\ Rest(s, m, i)
  <2>1. PICK i \in 1 .. Len(s) : Delivers(s, m, i, Y, W) /\ Rest(s, m, i)
    BY <1>3
  <2>2. Reports(s, m, i, Y) => Reports(s, m, i, Y2)
    <3>1. i > 1 => i - 1 \in 1 .. Len(s)
      BY <1>1
    <3> QED
      BY <3>1 DEF Reports
  <2>3. Continues(s, m, i, W) => Continues(s, m, i, W2)
    <3>1. i > 2 => i - 2 \in 1 .. Len(s)
      BY <1>1
    <3> QED
      BY <3>1 DEF Continues
  <2> QED
    BY <2>1, <2>2, <2>3 DEF Delivers, Pays
<1> QED
  BY <1>2, <1>3 DEF Pays

(***************************************************************************)
(* Which side of a node has the last command.                              *)
(***************************************************************************)
LEMMA MinIsLeast ==
  ASSUME NEW S \in SUBSET Nat, S # {}
  PROVE  Min(S) \in S /\ \A y \in S : Min(S) <= y
<1> DEFINE Less == {ss \in Nat \X Nat : ss[1] < ss[2]}
<1>1. IsWellFoundedOn(Less, Nat)
  BY NatLessThanWellFounded DEF OpToRel
<1>2. \E x \in S : \A y \in S : <<y, x>> \notin Less
  <2> HIDE DEF Less
  <2> QED  BY <1>1, WFMin
<1>3. PICK x \in S : \A y \in S : ~ (y < x)
  BY <1>2
<1> QED
  BY <1>3, \A y \in S : x =< y DEF Min

RedirKind == {"RDIN", "HEREDOC", "RDOUT", "RDAPP"}

(* What the kind of a subtree says of its tokens. *)
RootFacts(line, lo, hi, r, k) ==
  /\ r \in lo .. hi
  /\ k \in RedirKind \cup {"PIPE", "COMMAND"}
  /\ k = "PIPE" => line[r].c = "|"
  /\ k # "PIPE" => \A i \in lo .. hi : line[i].c # "|"
  /\ k \in {"RDIN", "HEREDOC"} => line[r].c = "<"
  /\ k \in {"RDOUT", "RDAPP"} => line[r].c = ">"
  /\ k \in RedirKind => \A i \in lo .. r - 1 : line[i].c # "<"
  /\ k = "COMMAND" => r = lo /\ \A i \in lo .. hi : line[i].c = "w"

LEMMA RootTokens ==
  ASSUME NEW line \in Lines \cup {<<>>}, NEW lo \in Nat, NEW hi \in 1 .. Len(line),
         lo \in 1 .. hi
  PROVE  RootFacts(line, lo, hi, Root(line, lo, hi), Kind(line, lo, hi))
<1> DEFINE at(c) == TokensOf(line, lo, hi, c)
           r == Root(line, lo, hi)
           k == Kind(line, lo, hi)
<1>1. \A c : at(c) # {} => Min(at(c)) \in at(c) /\ \A y \in at(c) : Min(at(c)) <= y
  <2>1. \A c : at(c) \in SUBSET Nat
    BY DEF TokensOf
  <2> QED
    BY <2>1, MinIsLeast
<1>2. \A i \in lo .. hi : line[i].c \in OpChar
  BY LineType
<1>3. \A c : at(c) = {i \in lo .. hi : line[i].c = c}
  BY DEF TokensOf
<1>4. k = TypeAssign(line[r]) /\ r \in lo .. hi
  BY RootInside
<1>5. r = IF at("|") # {} THEN Min(at("|"))
          ELSE IF at("<") # {} THEN Min(at("<"))
          ELSE IF at(">") # {} THEN Min(at(">"))
          ELSE lo
  BY DEF Root
<1> HIDE DEF at, r, k
<1>6. CASE at("|") # {}
  <2>1. r \in at("|")
    BY <1>1, <1>5, <1>6
  <2>2. line[r].c = "|"
    BY <2>1, <1>3
  <2>3. k = "PIPE"
    BY <2>2, <1>4 DEF TypeAssign
  <2> QED
    BY <1>4, <2>2, <2>3 DEF RootFacts, RedirKind, r, k
<1>7. CASE at("|") = {} /\ at("<") # {}
  <2>1. r \in at("<") /\ \A y \in at("<") : r <= y
    BY <1>1, <1>5, <1>7
  <2>2. line[r].c = "<"
    BY <2>1, <1>3
  <2>3. k \in {"RDIN", "HEREDOC"}
    BY <2>2, <1>4 DEF TypeAssign
  <2>4. \A i \in lo .. r - 1 : line[i].c # "<"
    BY <2>1, <1>3, <1>4
  <2>5. \A i \in lo .. hi : line[i].c # "|"
    BY <1>7, <1>3
  <2> QED
    BY <1>4, <2>2, <2>3, <2>4, <2>5 DEF RootFacts, RedirKind, r, k
<1>8. CASE at("|") = {} /\ at("<") = {} /\ at(">") # {}
  <2>1. r \in at(">")
    BY <1>1, <1>5, <1>8
  <2>2. line[r].c = ">"
    BY <2>1, <1>3
  <2>3. k \in {"RDOUT", "RDAPP"}
    BY <2>2, <1>4 DEF TypeAssign
  <2>4. \A i \in lo .. r - 1 : line[i].c # "<"
    <3>1. \A i \in lo .. hi : line[i].c # "<"
      BY <1>3, <1>8
    <3> QED
      BY <3>1, <1>4
  <2>5. \A i \in lo .. hi : line[i].c # "|"
    BY <1>8, <1>3
  <2> QED
    BY <1>4, <2>2, <2>3, <2>4, <2>5 DEF RootFacts, RedirKind, r, k
<1>9. CASE at("|") = {} /\ at("<") = {} /\ at(">") = {}
  <2>1. r = lo
    BY <1>5, <1>9
  <2>2. \A i \in lo .. hi : line[i].c = "w"
    BY <1>2, <1>3, <1>9 DEF OpChar
  <2>3. k = "COMMAND"
    BY <2>1, <2>2, <1>4 DEF TypeAssign
  <2> QED
    BY <1>4, <2>1, <2>2, <2>3 DEF RootFacts, RedirKind, r, k
<1> QED
  BY <1>6, <1>7, <1>8, <1>9

(* The only word of its stage. *)
LEMMA OneWord ==
  ASSUME NEW line, Len(line) \in Nat, NEW L, Shaped(line, L), NEW lo \in Nat, NEW hi \in 1 .. Len(line),
         lo >= 1, L \in lo .. hi, \A i \in lo .. hi : line[i].c # "|",
         NEW i \in lo .. hi, line[i].c = "w"
  PROVE  i = L
<1> SUFFICES ASSUME i # L  PROVE FALSE
  OBVIOUS
<1>1. i \in 1 .. Len(line)
  OBVIOUS
<1>2. PICK j \in i .. L : line[j].c = "|"
  BY <1>1 DEF Shaped
<1>3. j \in lo .. hi
  OBVIOUS
<1> QED
  BY <1>2, <1>3

LEMMA BstFrame ==
  ASSUME NEW lo \in Nat, NEW hi \in Nat
  PROVE  /\ Bst(lo, hi) \in Seq(Frame)
         /\ lo > hi => Bst(lo, hi) = <<>>
         /\ lo <= hi => \E f \in Frame : /\ Bst(lo, hi) = <<f>> /\ f.op = "bst"
                                         /\ f.lo = lo /\ f.hi = hi
<1> DEFINE f == On("bst", lo, hi, Nobody)
<1>1. f \in Frame /\ f.op = "bst" /\ f.lo = lo /\ f.hi = hi
  BY DEF On, Frame, FrameOp
<1>2. Bst(lo, hi) = IF lo > hi THEN <<>> ELSE <<f>>
  BY DEF Bst
<1> HIDE DEF f
<1> QED
  BY <1>1, <1>2

LEMMA BstOne ==
  \A lo, hi \in Nat :
    lo <= hi => \E f \in Frame : Bst(lo, hi) = <<f>> /\ f.op = "bst" /\ f.lo = lo /\ f.hi = hi
<1> SUFFICES ASSUME NEW lo \in Nat, NEW hi \in Nat, lo <= hi
             PROVE  \E f \in Frame : Bst(lo, hi) = <<f>> /\ f.op = "bst" /\ f.lo = lo /\ f.hi = hi
  OBVIOUS
<1> QED
  BY BstFrame

LEMMA EarnsFirst ==
  ASSUME NEW g \in Frame, NEW y \in Seq(Frame), NEW n, NEW Y, NEW W, Earns(g, n.line),
         Rest(y, n, 0)
  PROVE  Pays(<<g>> \o y, n, Y, W)
<1> DEFINE a == <<g>> \o y
<1>1. /\ Len(y) \in Nat /\ Len(a) = Len(y) + 1 /\ a[1] = g
      /\ \A i \in 2 .. Len(a) : a[i] = y[i - 1]
  OBVIOUS
<1> HIDE DEF a
<1>2. 1 \in 1 .. Len(a) /\ Delivers(a, n, 1, Y, W)
  BY <1>1 DEF Delivers
<1>3. Rest(a, n, 1)
  <2> SUFFICES ASSUME NEW j \in 2 .. Len(a)  PROVE Neutral(a[j], n.line)
    BY DEF Rest
  <2>1. j - 1 \in 0 + 1 .. Len(y) /\ a[j] = y[j - 1]
    BY <1>1
  <2> QED
    BY <2>1 DEF Rest
<1>4. Pays(a, n, Y, W)
  BY <1>2, <1>3 DEF Pays
<1> QED
  BY <1>4 DEF a

LEMMA EarnsLast ==
  ASSUME NEW x \in Seq(Frame), NEW g \in Frame, NEW n, NEW Y, NEW W, Earns(g, n.line)
  PROVE  Pays(x \o <<g>>, n, Y, W)
<1> DEFINE a == x \o <<g>>
<1>1. Len(x) \in Nat /\ Len(a) = Len(x) + 1 /\ a[Len(a)] = g
  OBVIOUS
<1> HIDE DEF a
<1>2. Len(a) \in 1 .. Len(a) /\ Delivers(a, n, Len(a), Y, W) /\ Rest(a, n, Len(a))
  BY <1>1 DEF Delivers, Rest
<1>3. Pays(a, n, Y, W)
  BY <1>2 DEF Pays
<1> QED
  BY <1>3 DEF a

(* tree_transversal() of a redirection pays: the side of the last command  *)
(* is run, and nothing but redirections of the output after it.            *)
LEMMA TraversalPays ==
  ASSUME IInv, NEW p \in Pid, st[p] = "run", Top(p).op \in {"bst", "heredoc_open"},
         KindAt(p) \in RedirKind, NEW n, n.line = mem[p].line,
         NEW L, L = Last(n.line), Shaped(n.line, L), L \in Top(p).lo .. Top(p).hi,
         NEW Y, NEW W
  PROVE  Pays(TreeTransversal(p), n, Y, W)
<1> DEFINE line == mem[p].line
           lo == Top(p).lo
           hi == Top(p).hi
           r == RootAt(p)
<1>1. /\ line \in Lines \cup {<<>>} /\ lo \in Nat /\ hi \in Nat /\ lo \in 1 .. hi
      /\ hi \in 1 .. Len(line) /\ RootFacts(line, lo, hi, r, KindAt(p))
      /\ Len(line) \in Nat /\ \A i \in 1 .. Len(line) : line[i].c \in OpChar
  <2>1. Top(p).op \in NodeOp
    BY DEF NodeOp
  <2>2. lo \in 1 .. hi /\ hi \in 1 .. Len(line) /\ line \in Lines \cup {<<>>}
    BY <2>1, NodeParts, RunningFrame
  <2>3. Len(line) \in Nat /\ \A i \in 1 .. Len(line) : line[i].c \in OpChar
    BY <2>2, LineType
  <2>4. lo \in Nat /\ hi \in Nat
    BY <2>2, <2>3
  <2>5. RootFacts(line, lo, hi, Root(line, lo, hi), Kind(line, lo, hi))
    BY <2>2, <2>4, RootTokens
  <2> QED
    BY <2>2, <2>3, <2>4, <2>5 DEF RootAt, KindAt
<1>2. /\ r \in lo .. hi /\ \A i \in lo .. hi : line[i].c # "|"
      /\ \A i \in lo .. r - 1 : line[i].c # "<"
      /\ line[r].c # "w"
  BY <1>1 DEF RootFacts, RedirKind
<1>3. LeftBst(p) = Bst(lo, r - 1) /\ RightBst(p) = Bst(r + 1, hi)
  BY DEF LeftBst, RightBst
<1>4. IsArgument(p) => lo <= r - 1 /\ Kind(line, lo, r - 1) = "COMMAND"
  <2>1. IsArgument(p) => Kind(line, lo, r - 1) = "COMMAND"
    BY DEF IsArgument, LeftKind
  <2>2. lo > r - 1 => Kind(line, lo, r - 1) = "NULL"
    BY DEF Kind
  <2> QED
    BY <1>1, <1>2, <2>1, <2>2
<1>5. n.line = line /\ Shaped(line, L) /\ L \in lo .. hi /\ L = Last(line)
  OBVIOUS
<1>6. TreeTransversal(p) = (IF IsArgument(p) THEN <<>> ELSE RightBst(p)) \o LeftBst(p)
  BY DEF TreeTransversal
<1> HIDE DEF line, lo, hi, r
<1>7. \A i \in lo .. hi : line[i].c = "w" => i = L
  BY <1>1, <1>2, <1>5, OneWord
<1>8. L # r /\ L \in Nat /\ r \in Nat /\ r + 1 \in Nat /\ r - 1 \in Nat
  BY <1>1, <1>2, <1>5 DEF Shaped
<1>9. ASSUME NEW f, f.op = "bst", L \in f.lo .. f.hi, f.lo \in lo .. hi, f.hi \in lo .. hi
      PROVE  Earns(f, n.line)
  <2>1. TokensOf(line, f.lo, f.hi, "|") = {}
    BY <1>1, <1>2, <1>9 DEF TokensOf
  <2> QED
    BY <2>1, <1>5, <1>9 DEF Earns, Carries
<1>10. CASE L > r
  <2>1. ~ IsArgument(p)
    <3> SUFFICES ASSUME IsArgument(p)  PROVE FALSE
      OBVIOUS
    <3>1. /\ lo \in 1 .. r - 1 /\ r - 1 \in 1 .. Len(line) /\ Kind(line, lo, r - 1) = "COMMAND"
      BY <1>1, <1>2, <1>4
    <3>2. RootFacts(line, lo, r - 1, Root(line, lo, r - 1), "COMMAND")
      BY <1>1, <3>1, RootTokens
    <3>3. line[lo].c = "w"
      BY <3>1, <3>2 DEF RootFacts
    <3>4. lo \in lo .. hi /\ lo < L
      BY <1>1, <1>8, <1>10, <3>1
    <3>5. lo = L
      BY <1>7, <3>3, <3>4
    <3> QED
      BY <3>4, <3>5, <1>8
  <2>2. PICK g \in Frame : RightBst(p) = <<g>> /\ g.op = "bst" /\ g.lo = r + 1 /\ g.hi = hi
    <3>1. hi \in Nat /\ r + 1 \in Nat /\ r + 1 <= hi
      BY <1>1, <1>5, <1>8, <1>10
    <3>2. \E g \in Frame : Bst(r + 1, hi) = <<g>> /\ g.op = "bst" /\ g.lo = r + 1 /\ g.hi = hi
      BY <3>1, BstFrame
    <3> QED
      BY <3>2, <1>3
  <2>3. Earns(g, n.line)
    <3>1. L \in g.lo .. g.hi /\ g.lo \in lo .. hi /\ g.hi \in lo .. hi
      BY <1>1, <1>2, <1>5, <1>8, <1>10, <2>2
    <3> QED
      BY <2>2, <3>1, <1>9
  <2>4. LeftBst(p) \in Seq(Frame) /\ Rest(LeftBst(p), n, 0)
    <3>1. CASE lo > r - 1
      <4>1. LeftBst(p) = <<>>
        BY <1>1, <1>3, <1>8, <3>1, BstFrame
      <4> QED
        BY <4>1 DEF Rest
    <3>2. CASE lo <= r - 1
      <4>1. PICK h \in Frame : LeftBst(p) = <<h>> /\ h.op = "bst" /\ h.lo = lo /\ h.hi = r - 1
        <5>1. \E h \in Frame : Bst(lo, r - 1) = <<h>> /\ h.op = "bst" /\ h.lo = lo /\ h.hi = r - 1
          <6> DEFINE e == r - 1
          <6>1. lo \in Nat /\ e \in Nat /\ lo <= e
            BY <1>1, <1>8, <3>2
          <6> HIDE DEF e
          <6>2. \E h \in Frame : Bst(lo, e) = <<h>> /\ h.op = "bst" /\ h.lo = lo /\ h.hi = e
            BY <6>1, BstFrame
          <6> QED
            BY <6>2 DEF e
        <5> QED
          BY <5>1, <1>3
      <4>2. ASSUME NEW i \in lo .. r - 1  PROVE line[i].c = ">"
        <5>1. i \in lo .. hi /\ i \in 1 .. Len(line) /\ i # L
          BY <1>1, <1>2, <1>8, <1>10
        <5>2. line[i].c \in OpChar /\ line[i].c # "|" /\ line[i].c # "<" /\ line[i].c # "w"
          BY <1>1, <1>2, <1>7, <5>1
        <5> QED
          BY <5>2 DEF OpChar
      <4>3. Neutral(h, n.line)
        BY <1>5, <4>1, <4>2 DEF Neutral, OnlyOut
      <4> QED
        BY <4>1, <4>3 DEF Rest
    <3> QED
      BY <1>1, <1>8, <3>1, <3>2
  <2>5. TreeTransversal(p) = <<g>> \o LeftBst(p)
    BY <1>6, <2>1, <2>2
  <2> QED
    BY <2>3, <2>4, <2>5, EarnsFirst
<1>11. CASE L < r
  <2>1. PICK g \in Frame : LeftBst(p) = <<g>> /\ g.op = "bst" /\ g.lo = lo /\ g.hi = r - 1
    <3> DEFINE e == r - 1
    <3>1. lo \in Nat /\ e \in Nat /\ lo <= e
      BY <1>1, <1>5, <1>8, <1>11
    <3> HIDE DEF e
    <3>3. \E g \in Frame : Bst(lo, e) = <<g>> /\ g.op = "bst" /\ g.lo = lo /\ g.hi = e
      BY <3>1, BstOne
    <3> QED
      BY <3>3, <1>3 DEF e
  <2>2. Earns(g, n.line)
    <3>1. L \in g.lo .. g.hi /\ g.lo \in lo .. hi /\ g.hi \in lo .. hi
      BY <1>1, <1>2, <1>5, <1>8, <1>11, <2>1
    <3> QED
      BY <2>1, <3>1, <1>9
  <2> DEFINE x == IF IsArgument(p) THEN <<>> ELSE RightBst(p)
  <2>3. x \in Seq(Frame)
    <3>1. RightBst(p) \in Seq(Frame)
      BY <1>1, <1>3, <1>8, BstFrame
    <3> QED
      BY <3>1
  <2>4. TreeTransversal(p) = x \o <<g>>
    BY <1>6, <2>1
  <2> HIDE DEF x
  <2> QED
    BY <2>2, <2>3, <2>4, EarnsLast
<1> QED
  BY <1>8, <1>10, <1>11

(* A subtree of redirections of the output only has such subtrees. *)
LEMMA TraversalNeutral ==
  ASSUME IInv, NEW p \in Pid, st[p] = "run", Top(p).op = "bst",
         NEW n, n.line = mem[p].line, OnlyOut(n.line, Top(p))
  PROVE  Rest(TreeTransversal(p), n, 0)
<1> DEFINE a == TreeTransversal(p)
           f == Top(p)
<1>1. a \in Seq(Inside(f)) /\ f \in Frame
  <2>1. f.op \in NodeOp
    BY DEF NodeOp
  <2> QED
    BY <2>1, PartsInside, RunningFrame
<1>2. OnlyOut(n.line, f)
  OBVIOUS
<1> HIDE DEF a, f
<1>3. ASSUME NEW j \in 1 .. Len(a)  PROVE Neutral(a[j], n.line)
  <2>1. a[j] \in Inside(f)
    BY <1>1, <1>3, ElementOfSeq
  <2>2. /\ a[j].op = "bst" /\ a[j].lo \in f.lo .. f.hi /\ a[j].hi \in a[j].lo .. f.hi
        /\ f.lo \in Nat /\ f.hi \in Nat
    BY <1>1, <2>1 DEF Inside, Frame
  <2> QED
    BY <1>2, <2>2 DEF Neutral, OnlyOut
<1> QED
  BY <1>3 DEF Rest, a

LEMMA ExitKept ==
  ASSUME NEW v \in 0 .. 255
  PROVE  Exited(v) \in Nat /\ ExitStatus(Exited(v)) = v
<1>1. Exited(v) = v * 256
  BY DEF Exited
<1>2. (v * 256) % 128 = 0 /\ (v * 256) \div 256 = v /\ v % 256 = v
  OBVIOUS
<1> QED
  BY <1>1, <1>2 DEF ExitStatus

(* What the lines of StatusOfLast have. *)
LEMMA FineLine ==
  ASSUME NEW line \in Lines \cup {<<>>}, Fine(line)
  PROVE  /\ Shaped(line, Last(line)) /\ Due(line) \in 0 .. 255
         /\ Prog[line[Last(line)].w].k # "exit"
         /\ \A i \in 1 .. Len(line) :
              /\ TypeAssign(line[i]) = "RDIN" => line[i].w \in present \ Denied
              /\ line[i].c = ">" => line[i].w \notin Denied
<1>1. Shaped(line, Last(line))
  BY LineShaped DEF Fine
<1>2. line[Last(line)].w \in Word
  BY <1>1, LineType DEF Shaped
<1>3. Due(line) \in 0 .. 255
  <2> DEFINE w == line[Last(line)].w
  <2>1. w \in Word
    BY <1>2
  <2> HIDE DEF w
  <2>2. Prog[w].n \in Nat
    BY <2>1, ProgAssumption
  <2>3. Prog[w].k \in {"status", "builtin"} => Prog[w].n < 256
    BY <2>1, StatusAssumption
  <2>4. StatusOf(w) \in 0 .. 255
    <3> DEFINE v == StatusOf(w)
               n == Prog[w].n
               own == Prog[w].k \in {"status", "builtin"}
    <3>1. (own => v = n) /\ (~ own => v = 127 \/ v = 0)
      BY StatusCases
    <3>2. n \in Nat /\ (own => n < 256)
      BY <2>2, <2>3
    <3> HIDE DEF v, n, own
    <3>3. own => v \in 0 .. 255
      BY <3>1, <3>2
    <3>4. ~ own => v \in 0 .. 255
      BY <3>1
    <3> QED
      BY <3>3, <3>4 DEF v
  <2> QED
    BY <2>4 DEF Due, w
<1>4. Prog[line[Last(line)].w].k # "exit"
  BY DEF Fine, CommandOf, Last
<1>5. Len(line) \in Nat /\ DOMAIN line = 1 .. Len(line)
  BY LineType, LenProperties
<1>6. ASSUME NEW i \in 1 .. Len(line), TypeAssign(line[i]) = "RDIN"
      PROVE  line[i].w \in present \ Denied
  BY <1>5, <1>6 DEF Fine, Opens
<1>7. ASSUME NEW i \in 1 .. Len(line), line[i].c = ">"
      PROVE  line[i].w \notin Denied
  <2>1. line[i].w \in Files(line, ">")
    BY <1>5, <1>7 DEF Files, TokensOf
  <2> QED
    BY <2>1 DEF Fine, Opens
<1> QED
  BY <1>1, <1>3, <1>4, <1>6, <1>7

LEMMA NodeTokens ==
  ASSUME IInv, NEW p \in Pid, st[p] = "run", Top(p).op \in NodeOp
  PROVE  /\ mem[p].line \in Lines \cup {<<>>} /\ Len(mem[p].line) \in Nat
         /\ Top(p).lo \in Nat /\ Top(p).hi \in 1 .. Len(mem[p].line) /\ Top(p).lo \in 1 .. Top(p).hi
         /\ RootFacts(mem[p].line, Top(p).lo, Top(p).hi, RootAt(p), KindAt(p))
         /\ RootAt(p) \in 1 .. Len(mem[p].line) /\ KindAt(p) = TypeAssign(RootToken(p))
<1> DEFINE line == mem[p].line
           lo == Top(p).lo
           hi == Top(p).hi
<1>1. lo \in 1 .. hi /\ hi \in 1 .. Len(line) /\ line \in Lines \cup {<<>>}
  BY NodeParts, RunningFrame
<1>2. Len(line) \in Nat
  BY <1>1, LineType
<1>3. lo \in Nat /\ hi \in Nat
  BY <1>1, <1>2
<1>4. RootFacts(line, lo, hi, Root(line, lo, hi), Kind(line, lo, hi))
  BY <1>1, <1>3, RootTokens
<1>5. Root(line, lo, hi) \in lo .. hi /\ Kind(line, lo, hi) = TypeAssign(line[Root(line, lo, hi)])
  BY <1>1, <1>3, RootInside
<1>6. Root(line, lo, hi) \in 1 .. Len(line)
  BY <1>1, <1>2, <1>3, <1>5
<1> QED
  BY <1>1, <1>2, <1>3, <1>4, <1>5, <1>6 DEF RootAt, KindAt, RootToken

(* A pipe that has the last command has both its sides, and the last       *)
(* command is on the right.                                                *)
LEMMA PipeCarried ==
  ASSUME IInv, NEW p \in Pid, st[p] = "run", Top(p).op \in NodeOp, KindAt(p) = "PIPE",
         Shaped(mem[p].line, Last(mem[p].line)), Carries(mem[p].line, Top(p))
  PROVE  /\ ~ PipeError(p)
         /\ \E g \in Frame : RightBst(p) = <<g>> /\ Earns(g, mem[p].line)
<1> DEFINE line == mem[p].line
           lo == Top(p).lo
           hi == Top(p).hi
           r == RootAt(p)
           L == Last(line)
<1>1. /\ line \in Lines \cup {<<>>} /\ Len(line) \in Nat /\ lo \in Nat /\ hi \in 1 .. Len(line)
      /\ lo \in 1 .. hi /\ r \in lo .. hi /\ line[r].c = "|" /\ r \in 1 .. Len(line)
  BY NodeTokens DEF RootFacts
<1>2. Shaped(line, L) /\ L \in lo .. hi /\ (TokensOf(line, lo, hi, "|") = {} \/ Starts(line, lo))
  BY DEF Carries
<1>3. /\ RightBst(p) = Bst(r + 1, hi) /\ RootToken(p) = line[r]
      /\ LeftKind(p) = Kind(line, lo, r - 1) /\ RightKind(p) = Kind(line, r + 1, hi)
  BY DEF RightBst, RootToken, LeftKind, RightKind
<1>4. PipeError(p) <=> RootToken(p).n > 1 \/ LeftKind(p) = "NULL" \/ RightKind(p) = "NULL"
  BY DEF PipeError
<1> HIDE DEF line, lo, hi, r, L
<1>5. r < L /\ r > 1 /\ line[r - 1].c # "|" /\ line[r].n <= 1
  BY <1>1, <1>2 DEF Shaped
<1>6. lo <= r - 1 /\ r + 1 <= hi /\ L \in r + 1 .. hi /\ hi \in Nat /\ r + 1 \in Nat /\ L \in Nat
  <2>1. r \in TokensOf(line, lo, hi, "|")
    BY <1>1 DEF TokensOf
  <2>2. lo # r
    BY <1>2, <1>5, <2>1 DEF Starts
  <2> QED
    BY <1>1, <1>2, <1>5, <2>2
<1>7. ~ PipeError(p)
  <2>1. ~ (line[r].n > 1)
    <3>1. line[r].n \in Nat
      BY <1>1, LineType
    <3> QED
      BY <3>1, <1>5
  <2>2. \A t : TypeAssign(t) # "NULL"
    BY DEF TypeAssign
  <2>3. Kind(line, lo, r - 1) # "NULL" /\ Kind(line, r + 1, hi) # "NULL"
    <3>1. ~ (lo > r - 1) /\ ~ (r + 1 > hi)
      BY <1>1, <1>6
    <3> QED
      BY <2>2, <3>1 DEF Kind
  <2> QED
    BY <1>3, <1>4, <2>1, <2>3
<1>8. PICK g \in Frame : Bst(r + 1, hi) = <<g>> /\ g.op = "bst" /\ g.lo = r + 1 /\ g.hi = hi
  <2> DEFINE e == r + 1
  <2>1. e \in Nat /\ e <= hi /\ hi \in Nat
    BY <1>6
  <2> HIDE DEF e
  <2>3. \E g \in Frame : Bst(e, hi) = <<g>> /\ g.op = "bst" /\ g.lo = e /\ g.hi = hi
    BY <2>1, BstOne
  <2> QED
    BY <2>3 DEF e
<1>9. Starts(line, g.lo)
  BY <1>1, <1>8 DEF Starts
<1>10. Earns(g, line)
  BY <1>2, <1>6, <1>8, <1>9 DEF Earns, Carries, L
<1> QED
  BY <1>3, <1>7, <1>8, <1>10 DEF line

(***************************************************************************)
(* The processes through which the status due comes to the shell.          *)
(***************************************************************************)
(* They are in S, or have ended with it.  Scribes write a here-document,   *)
(* or have written it.                                                     *)
Yielding(S, v) == {c \in Pid : c \in S \/ (st[c] = "zombie" /\ ws[c] = Exited(v))}
ScribeOp == {"heredoc_child", "heredoc_input"}
Scribes ==
  {c \in Pid : \/ c \in Living /\ Len(todo[c]) = 1 /\ todo[c][1].op \in ScribeOp
               \/ st[c] = "zombie" /\ ws[c] = 0}

(* One of them writes to no pipe but the one it has open. *)
OutOK(s, m, f) == f.out \in PipeId => f.out = m.w /\ Holds(s, LeftEnd)
Good(p, S) ==
  /\ Pays(todo[p], mem[p], Yielding(S, Due(mem[p].line)), Scribes)
  /\ ~ Holds(todo[p], {"left"}) /\ OutOK(todo[p], mem[p], fd[p])
SpineOf(S) == Shell \in S /\ \A p \in S : Good(p, S)
Spine ==
  nsig = 0 /\ Shell \in Living /\ Fine(mem[Shell].line) => \E S \in SUBSET Living : SpineOf(S)

(* What the running frame itself owes. *)
TopOwes(f, m) ==
  \/ Earns(f, m.line)
  \/ f.op = "restore" /\ ExitStatus(m.g) = Due(m.line)
  \/ f.op = "heredoc_open" /\ Carries(m.line, f) /\ Kind(m.line, f.lo, f.hi) = "HEREDOC" /\ m.g = 0
  \/ Neutral(f, m.line) /\ m.g = Due(m.line)
Debtor(p) ==
  st[p] = "run" /\ Fine(mem[p].line) /\ Rest(todo[p], mem[p], 1) /\ TopOwes(Top(p), mem[p])

LEMMA PaysCases ==
  ASSUME NEW s \in Seq(Frame), s # <<>>, NEW m, NEW Y, NEW W, Pays(s, m, Y, W)
  PROVE  \/ Rest(s, m, 1) /\ TopOwes(s[1], m)
         \/ \E i \in 2 .. Len(s) : Delivers(s, m, i, Y, W) /\ Rest(s, m, i)
<1>1. Len(s) \in Nat /\ Len(s) >= 1
  OBVIOUS
<1>2. CASE m.g = Due(m.line) /\ Rest(s, m, 0)
  <2>1. Neutral(s[1], m.line)
    BY <1>1, <1>2 DEF Rest
  <2>2. Rest(s, m, 1)
    BY <1>1, <1>2 DEF Rest
  <2> QED
    BY <1>2, <2>1, <2>2 DEF TopOwes
<1>3. ASSUME NEW i \in 1 .. Len(s), Delivers(s, m, i, Y, W), Rest(s, m, i)
      PROVE  \/ Rest(s, m, 1) /\ TopOwes(s[1], m)
             \/ \E j \in 2 .. Len(s) : Delivers(s, m, j, Y, W) /\ Rest(s, m, j)
  <2>1. CASE i = 1
    BY <1>3, <2>1 DEF Delivers, Reports, Continues, TopOwes
  <2>2. CASE i # 1
    <3>1. i \in 2 .. Len(s)
      BY <1>1, <2>2
    <3> QED
      BY <1>3, <3>1
  <2> QED
    BY <2>1, <2>2
<1> QED
  BY <1>2, <1>3 DEF Pays

(* Frames one of which earns the status. *)
Earner(a, line) ==
  \E i \in 1 .. Len(a) : Earns(a[i], line) /\ \A j \in i + 1 .. Len(a) : Neutral(a[j], line)

LEMMA EarnerPays ==
  ASSUME NEW a, NEW n, Earner(a, n.line)  PROVE \A Y, W : Pays(a, n, Y, W)
BY DEF Earner, Pays, Delivers, Rest

LEMMA EarnerConcat ==
  ASSUME NEW u \in Seq(Frame), NEW v \in Seq(Frame), NEW line
  PROVE  /\ Earner(v, line) => Earner(u \o v, line)
         /\ Earner(u, line) /\ (\A i \in 1 .. Len(v) : Neutral(v[i], line))
              => Earner(u \o v, line)
<1> DEFINE t == u \o v
<1>1. /\ Len(u) \in Nat /\ Len(v) \in Nat /\ Len(t) = Len(u) + Len(v)
      /\ \A i \in 1 .. Len(u) : t[i] = u[i]
      /\ \A i \in Len(u) + 1 .. Len(t) : t[i] = v[i - Len(u)]
  OBVIOUS
<1> HIDE DEF t
<1>2. ASSUME NEW i \in 1 .. Len(v), Earns(v[i], line), \A j \in i + 1 .. Len(v) : Neutral(v[j], line)
      PROVE  Earner(t, line)
  <2> DEFINE k == Len(u) + i
  <2>1. k \in 1 .. Len(t) /\ k \in Len(u) + 1 .. Len(t) /\ k - Len(u) = i
    BY <1>1
  <2>2. t[k] = v[i]
    BY <1>1, <2>1
  <2>3. ASSUME NEW j \in k + 1 .. Len(t)  PROVE Neutral(t[j], line)
    <3>1. j \in Len(u) + 1 .. Len(t) /\ j - Len(u) \in i + 1 .. Len(v)
      BY <1>1
    <3>2. t[j] = v[j - Len(u)]
      BY <1>1, <3>1
    <3> QED
      BY <1>2, <3>1, <3>2
  <2> QED
    BY <1>2, <2>1, <2>2, <2>3 DEF Earner
<1>3. ASSUME NEW i \in 1 .. Len(u), Earns(u[i], line), \A j \in i + 1 .. Len(u) : Neutral(u[j], line),
             \A j \in 1 .. Len(v) : Neutral(v[j], line)
      PROVE  Earner(t, line)
  <2>1. i \in 1 .. Len(t) /\ t[i] = u[i]
    BY <1>1
  <2>3. ASSUME NEW j \in i + 1 .. Len(t)  PROVE Neutral(t[j], line)
    <3>1. CASE j <= Len(u)
      BY <1>1, <1>3, <3>1
    <3>2. CASE j > Len(u)
      <4>1. j \in Len(u) + 1 .. Len(t) /\ j - Len(u) \in 1 .. Len(v)
        BY <1>1, <3>2
      <4>2. t[j] = v[j - Len(u)]
        BY <1>1, <4>1
      <4> QED
        BY <1>3, <4>1, <4>2
    <3> QED
      BY <1>1, <3>1, <3>2
  <2> QED
    BY <1>3, <2>1, <2>3 DEF Earner
<1>4. Earner(v, line) => Earner(t, line)
  BY <1>2 DEF Earner
<1>5. Earner(u, line) /\ (\A i \in 1 .. Len(v) : Neutral(v[i], line)) => Earner(t, line)
  BY <1>3 DEF Earner
<1> QED
  BY <1>4, <1>5 DEF t

LEMMA EarnerOne ==
  ASSUME NEW g \in Frame, NEW line, Earns(g, line)
  PROVE  <<g>> \in Seq(Frame) /\ Earner(<<g>>, line)
<1> DEFINE a == <<g>>
<1>1. a \in Seq(Frame) /\ Len(a) = 1 /\ a[1] = g
  OBVIOUS
<1> HIDE DEF a
<1>2. Earner(a, line)
  BY <1>1 DEF Earner
<1> QED
  BY <1>1, <1>2 DEF a

(* A step of a process that owes the status: the frames it pushes pay, as  *)
(* do the children of N that it forks for it.                              *)
Repays(p) ==
  \E a \in Seq(Frame), N \in SUBSET FreePid :
    /\ todo'[p] = a \o Tail(todo[p]) /\ mem'[p].line = mem[p].line
    /\ \A Y, W : N \subseteq Y /\ Scribes' \subseteq W => Pays(a, mem'[p], Y, W)
    /\ \A c \in N :
         /\ st'[c] = "run" /\ mem'[c].line = mem[p].line /\ fd'[c].out = fd[p].out
         /\ ~ Holds(todo'[c], {"left"}) /\ \A Y, W : Pays(todo'[c], mem'[c], Y, W)

LEMMA RepaysAlone ==
  ASSUME NEW p \in Pid, NEW a \in Seq(Frame), todo'[p] = a \o Tail(todo[p]),
         mem'[p].line = mem[p].line, \A Y, W : Pays(a, mem'[p], Y, W)
  PROVE  Repays(p)
<1>1. {} \in SUBSET FreePid
  OBVIOUS
<1> QED
  BY <1>1 DEF Repays

LEMMA Settles ==
  ASSUME IInv, NEW p \in Pid, Debtor(p), todo' = Return(p, <<>>),
         mem'[p].line = mem[p].line, mem'[p].g = Due(mem[p].line)
  PROVE  Repays(p)
<1>1. todo'[p] = <<>> \o Tail(todo[p]) /\ <<>> \in Seq(Frame)
  BY DEF Return, IInv, TypeOK
<1>2. \A Y, W : Pays(<<>>, mem'[p], Y, W)
  BY DEF Pays, Rest
<1> QED
  BY <1>1, <1>2, RepaysAlone

LEMMA DebtorLine ==
  ASSUME IInv, NEW p \in Pid, Debtor(p)
  PROVE  LET line == mem[p].line IN
         /\ line \in Lines \cup {<<>>} /\ Len(line) \in Nat
         /\ Shaped(line, Last(line)) /\ Due(line) \in 0 .. 255
         /\ Prog[line[Last(line)].w].k # "exit"
         /\ \A i \in 1 .. Len(line) :
              /\ TypeAssign(line[i]) = "RDIN" => line[i].w \in present \ Denied
              /\ line[i].c = ">" => line[i].w \notin Denied
         /\ p \in Living /\ st[p] = "run" /\ mem \in [Pid -> Memory]
         /\ todo \in [Pid -> Seq(Frame)] /\ todo[p] # <<>> /\ Top(p) = todo[p][1] /\ Top(p) \in Frame
<1>1. mem[p].line \in Lines \cup {<<>>} /\ todo[p] # <<>> /\ Top(p) = todo[p][1] /\ Top(p) \in Frame
  BY RunningFrame DEF Debtor
<1>2. Len(mem[p].line) \in Nat
  BY <1>1, LineType
<1>3. Fine(mem[p].line)
  BY DEF Debtor
<1> QED
  BY <1>1, <1>2, <1>3, FineLine DEF Debtor, Living, IInv, TypeOK

(* What a debtor may owe, by the operation of its top frame. *)
LEMMA OwesByOp ==
  ASSUME NEW f, NEW m, TopOwes(f, m)
  PROVE  /\ f.op \in {"prompt", "reset", "_exit", "close_pipe", "child", "heredoc_right_end"}
              => m.g = Due(m.line)
         /\ f.op = "restore" => ExitStatus(m.g) = Due(m.line)
         /\ f.op = "bst" => \/ Carries(m.line, f)
                            \/ OnlyOut(m.line, f) /\ m.g = Due(m.line)
         /\ f.op = "echo" => Due(m.line) = 0
         /\ f.op = "heredoc_open" =>
              Carries(m.line, f) /\ Kind(m.line, f.lo, f.hi) = "HEREDOC" /\ m.g = 0
         /\ f.op \in ForkingOp =>
              \/ Carries(m.line, f) /\ Kind(m.line, f.lo, f.hi) = "PIPE" /\ RightOf(m.line, f) # "HEREDOC"
              \/ RightOf(m.line, f) = "HEREDOC" /\ m.g = Due(m.line)
         /\ f.op = "right" =>
              Carries(m.line, f) /\ Kind(m.line, f.lo, f.hi) = "PIPE" /\ RightOf(m.line, f) # "HEREDOC"
         /\ f.op \in ProgramOp => Runs(m.line, f)
         /\ f.op \notin {"wait", "ignore", "left", "heredoc_left", "heredoc_left_end",
                         "heredoc_right", "heredoc_child", "heredoc_input"}
<1> DEFINE op == f.op
<1>1. \/ op = "bst" /\ Carries(m.line, f)
      \/ op = "echo" /\ Due(m.line) = 0
      \/ op \in {"fork_left", "fork_right", "right"} /\ Carries(m.line, f)
           /\ Kind(m.line, f.lo, f.hi) = "PIPE" /\ RightOf(m.line, f) # "HEREDOC"
      \/ op \in ProgramOp /\ Runs(m.line, f)
      \/ op = "restore" /\ ExitStatus(m.g) = Due(m.line)
      \/ op = "heredoc_open" /\ Carries(m.line, f) /\ Kind(m.line, f.lo, f.hi) = "HEREDOC" /\ m.g = 0
      \/ /\ op \in {"prompt", "reset", "_exit", "close_pipe", "child", "heredoc_right_end"}
         /\ m.g = Due(m.line)
      \/ op \in {"fork_left", "fork_right"} /\ RightOf(m.line, f) = "HEREDOC" /\ m.g = Due(m.line)
      \/ op = "bst" /\ OnlyOut(m.line, f) /\ m.g = Due(m.line)
  BY DEF TopOwes, Earns, Neutral, ForkingOp, Runs
<1> HIDE DEF op
<1>2. ProgramOp = {"emit", "copy", "head", "status", "sleep", "exec", "put"}
  BY DEF ProgramOp, ProgramKind
<1> QED
  BY <1>1, <1>2 DEF op, ForkingOp

(* SigintRestore, ChildRestoreSignals, ResetData, PipeHeredoc, ClosePipe. *)
LEMMA QuietRepays ==
  ASSUME IInv, NEW p \in Pid, Debtor(p),
         \/ SigintRestore(p) \/ ChildRestoreSignals(p) \/ (ResetData(p) /\ ~ mem[p].exit)
         \/ PipeHeredoc(p) \/ ClosePipe(p)
  PROVE  Repays(p)
<1> DEFINE m == mem[p]
           g == mem[p].g
<1>1. TopOwes(Top(p), m) /\ mem \in [Pid -> Memory] /\ m \in Memory
  BY DEF Debtor, IInv, TypeOK
<1>2. /\ Top(p).op \in {"reset", "close_pipe", "child", "heredoc_right_end"} => g = Due(m.line)
      /\ Top(p).op = "restore" => ExitStatus(g) = Due(m.line)
      /\ Top(p).op \notin {"heredoc_left", "heredoc_left_end", "heredoc_right"}
  BY <1>1, OwesByOp
<1>3. CASE SigintRestore(p)
  <2>1. /\ Top(p).op = "restore" /\ todo' = Return(p, <<>>)
        /\ mem' = [mem EXCEPT ![p].g = ExitStatus(@)]
    BY <1>3 DEF SigintRestore, At
  <2>2. mem'[p].line = m.line /\ mem'[p].g = ExitStatus(g)
    BY <1>1, <2>1 DEF Memory
  <2> QED
    BY <1>2, <2>1, <2>2, Settles
<1>4. CASE ChildRestoreSignals(p) \/ PipeHeredoc(p)
  <2>1. /\ Top(p).op \in {"child", "heredoc_left", "heredoc_left_end", "heredoc_right", "heredoc_right_end"}
        /\ todo' = Return(p, <<>>) /\ mem' = mem
    BY <1>4 DEF ChildRestoreSignals, PipeHeredoc, At
  <2> QED
    BY <1>2, <2>1, Settles
<1>5. CASE ResetData(p) /\ ~ mem[p].exit
  <2>1. Top(p).op = "reset" /\ todo' = Return(p, <<>>) /\ mem' = [mem EXCEPT ![p].arg = 0]
    BY <1>5 DEF ResetData, At
  <2>2. mem'[p].line = m.line /\ mem'[p].g = g
    BY <1>1, <2>1 DEF Memory
  <2> QED
    BY <1>2, <2>1, <2>2, Settles
<1>6. CASE ClosePipe(p)
  <2>1. /\ Top(p).op = "close_pipe" /\ todo' = Return(p, <<>>)
        /\ mem' = [mem EXCEPT ![p].r = NoPipe, ![p].w = NoPipe]
    BY <1>6 DEF ClosePipe, At
  <2>2. mem'[p].line = m.line /\ mem'[p].g = g
    BY <1>1, <2>1 DEF Memory
  <2> QED
    BY <1>2, <2>1, <2>2, Settles
<1> QED
  BY <1>3, <1>4, <1>5, <1>6

(* A subtree that is no redirection of the output has the last command. *)
LEMMA NodeCarried ==
  ASSUME IInv, NEW p \in Pid, Debtor(p), Top(p).op = "bst", KindAt(p) \notin {"RDOUT", "RDAPP"}
  PROVE  /\ Carries(mem[p].line, Top(p))
         /\ KindAt(p) = "COMMAND" =>
              Top(p).lo = Last(mem[p].line) /\ Command(p) = mem[p].line[Last(mem[p].line)].w
<1> DEFINE line == mem[p].line
           lo == Top(p).lo
           hi == Top(p).hi
           r == RootAt(p)
           L == Last(line)
<1>1. Top(p).op \in NodeOp /\ st[p] = "run" /\ TopOwes(Top(p), mem[p])
  BY DEF NodeOp, Debtor
<1>2. /\ line \in Lines \cup {<<>>} /\ Len(line) \in Nat /\ lo \in Nat /\ hi \in 1 .. Len(line)
      /\ lo \in 1 .. hi /\ RootFacts(line, lo, hi, r, KindAt(p))
  BY <1>1, NodeTokens
<1>3. Carries(line, Top(p)) \/ OnlyOut(line, Top(p))
  BY <1>1, OwesByOp
<1>4. r \in lo .. hi /\ line[r].c # ">"
  <2>1. r \in lo .. hi /\ KindAt(p) \in {"RDIN", "HEREDOC", "PIPE", "COMMAND"}
    BY <1>2 DEF RootFacts, RedirKind
  <2>2. KindAt(p) = "COMMAND" => line[r].c = "w"
    BY <1>2, <2>1 DEF RootFacts
  <2>3. KindAt(p) = "PIPE" => line[r].c = "|"
    BY <1>2 DEF RootFacts
  <2>4. KindAt(p) \in {"RDIN", "HEREDOC"} => line[r].c = "<"
    BY <1>2 DEF RootFacts
  <2> QED
    BY <2>1, <2>2, <2>3, <2>4
<1>5. Carries(line, Top(p))
  BY <1>3, <1>4 DEF OnlyOut
<1>6. ASSUME KindAt(p) = "COMMAND"  PROVE lo = L
  <2>1. Shaped(line, L)
    BY DebtorLine
  <2>2. L \in lo .. hi /\ lo >= 1 /\ \A i \in lo .. hi : line[i].c = "w"
    BY <1>2, <1>5, <1>6 DEF Carries, RootFacts
  <2> HIDE DEF line, lo, hi, r, L
  <2>3. (\A i \in lo .. hi : line[i].c # "|") /\ lo \in lo .. hi /\ line[lo].c = "w"
    BY <1>2, <2>2
  <2> QED
    BY <1>2, <2>1, <2>2, <2>3, OneWord
<1> QED
  BY <1>5, <1>6 DEF Command

LEMMA ExecBuiltinRepays ==
  ASSUME IInv, NEW p \in Pid, Debtor(p), ExecBuiltin(p)
  PROVE  Repays(p)
<1> DEFINE line == mem[p].line
           w == line[Last(line)].w
           k == Prog[w].k
<1>1. Top(p).op = "bst" /\ KindAt(p) = "COMMAND" /\ CommandKind(p) \in BuiltinKind
  BY DEF ExecBuiltin, Builtin, At
<1>2. Command(p) = w /\ CommandKind(p) = k
  BY <1>1, NodeCarried DEF CommandKind
<1>3. k # "exit" /\ mem \in [Pid -> Memory] /\ mem[p] \in Memory /\ todo \in [Pid -> Seq(Frame)]
  BY DebtorLine
<1>4. k \in {"echo", "builtin"}
  BY <1>1, <1>2, <1>3 DEF BuiltinKind
<1>5. CASE k = "echo"
  <2>1. Due(line) = 0
    <3> DEFINE v == StatusOf(w)
    <3>1. (k \notin {"status", "builtin", "none"} => v = 0) /\ Due(line) = v
      BY StatusCases DEF Due
    <3> QED
      BY <1>5, <3>1
  <2>2. CommandKind(p) = "echo"
    BY <1>2, <1>5
  <2>3. mem' = mem /\ todo' = Return(p, <<Do("echo")>>)
    BY <2>2 DEF ExecBuiltin
  <2>4. Do("echo") \in Frame /\ Do("echo").op = "echo"
    BY DEF Do, On, Frame, FrameOp
  <2>5. <<Do("echo")>> \in Seq(Frame) /\ \A Y, W : Pays(<<Do("echo")>>, mem'[p], Y, W)
    <3>1. Earns(Do("echo"), line)
      BY <2>1, <2>4 DEF Earns
    <3> HIDE DEF line
    <3>2. <<Do("echo")>> \in Seq(Frame) /\ Earner(<<Do("echo")>>, line)
      BY <2>4, <3>1, EarnerOne
    <3>3. mem'[p].line = line
      BY <2>3 DEF line
    <3> QED
      BY <3>2, <3>3, EarnerPays
  <2>6. todo'[p] = <<Do("echo")>> \o Tail(todo[p])
    BY <1>3, <2>3 DEF Return
  <2> QED
    BY <2>3, <2>5, <2>6, RepaysAlone
<1>6. CASE k = "builtin"
  <2>1. Due(line) = Prog[w].n
    <3> DEFINE v == StatusOf(w)
    <3>1. (k \in {"status", "builtin"} => v = Prog[w].n) /\ Due(line) = v
      BY StatusCases DEF Due
    <3> QED
      BY <1>6, <3>1
  <2>2. CommandKind(p) = "builtin"
    BY <1>2, <1>6
  <2> DEFINE n == Prog[w].n
  <2>3. mem' = [mem EXCEPT ![p].g = n]
    <3> DEFINE ck == CommandKind(p)
               n2 == Prog[Command(p)].n
    <3>1. (CASE ck = "echo" -> UNCHANGED mem
             [] ck = "exit" -> mem' = [mem EXCEPT ![p].exit = TRUE,
                                                   ![p].g = IF n2 = 0 THEN @ ELSE n2]
             [] OTHER -> mem' = [mem EXCEPT ![p].g = n2])
      BY DEF ExecBuiltin
    <3>2. ck = "builtin" /\ n2 = n
      BY <1>2, <2>2
    <3> HIDE DEF ck
    <3>3. mem' = [mem EXCEPT ![p].g = n2]
      BY <3>1, <3>2
    <3> QED
      BY <3>2, <3>3
  <2>4. todo' = Return(p, <<>>)
    BY <2>2 DEF ExecBuiltin
  <2>5. mem'[p].line = line /\ mem'[p].g = n
    BY <1>3, <2>3 DEF Memory
  <2> QED
    BY <2>1, <2>4, <2>5, Settles
<1> QED
  BY <1>4, <1>5, <1>6

(* What a fork gives the parent and the child. *)
LEMMA ForkParts ==
  ASSUME IInv, NEW p \in Pid, Debtor(p), NEW c \in FreePid, NEW a, NEW b, Forks(p, c, a, b)
  PROVE  /\ a \in Seq(Frame) /\ b \in Seq(Frame) /\ c \in Pid /\ c # p
         /\ todo'[p] = a \o Tail(todo[p]) /\ todo'[c] = b
         /\ mem'[p] = mem[p] /\ mem'[c] = mem[p] /\ st'[c] = "run" /\ c \in Living'
<1>1. /\ a \in Seq(Frame) /\ b \in Seq(Frame) /\ st[p] = "run"
      /\ st' = [st EXCEPT ![c] = "run"] /\ todo' = [Return(p, a) EXCEPT ![c] = b]
      /\ mem' = [mem EXCEPT ![c] = mem[p]]
  BY DEF Forks
<1>2. c \in Pid /\ st[c] = "none" /\ c # p
  BY <1>1 DEF FreePid
<1> QED
  BY <1>1, <1>2 DEF Return, IInv, TypeOK, Living

(* The status of the child c is what the frames a leave. *)
LEMMA AwaitPays ==
  ASSUME NEW a \in Seq(Frame), NEW k \in {3, 5}, Len(a) = k, a[k].op = "restore",
         NEW c, a[k - 1].op = "wait", a[k - 1].ref = c, NEW n, NEW Y, NEW W, c \in Y
  PROVE  Pays(a, n, Y, W)
<1>1. k \in 1 .. Len(a) /\ k > 1 /\ k \in Nat
  OBVIOUS
<1>2. Reports(a, n, k, Y)
  BY <1>1 DEF Reports
<1>3. Rest(a, n, k)
  BY <1>1 DEF Rest
<1> QED
  BY <1>1, <1>2, <1>3 DEF Pays, Delivers

LEMMA ExecCmdRepays ==
  ASSUME IInv, NEW p \in Pid, Debtor(p), ExecCmd(p)
  PROVE  Repays(p)
<1> DEFINE line == mem[p].line
           L == Last(line)
<1>1. Top(p).op = "bst" /\ KindAt(p) = "COMMAND"
  BY DEF ExecCmd, External, At
<1>2. PICK c \in FreePid : \E a, b : Forks(p, c, a, b)
  BY ExecCmdForks
<1>3. PICK a, b : Forks(p, c, a, b)
  BY <1>2
<1>4. ExecShape(p, c, a, b)
  <2>1. ~ HeredocHandler(p)
    BY <1>1 DEF HeredocHandler, Openable, Redirects
  <2> QED
    BY <1>1, <1>3, <2>1 DEF Forks, LeftShape, RightShape
<1>5. /\ a \in Seq(Frame) /\ b \in Seq(Frame) /\ c \in Pid /\ c # p
      /\ todo'[p] = a \o Tail(todo[p]) /\ todo'[c] = b
      /\ mem'[p] = mem[p] /\ mem'[c] = mem[p] /\ st'[c] = "run"
  BY <1>3, ForkParts
<1>6. Top(p).lo = L /\ Top(p) \in Frame
  BY <1>1, NodeCarried, DebtorLine
<1>7. fd'[c] = fd[p] /\ ~ Holds(b, {"left"})
  <2>1. Len(b) = 2 /\ b[1].op = "child" /\ b[2].op = "exec"
    BY <1>4 DEF ExecShape, On
  <2>2. ~ Holds(b, {"left"})
    BY <2>1 DEF Holds
  <2> QED
    BY <1>3, <2>1, <2>2, ChildHas
<1>8. \A Y, W : Pays(b, mem'[c], Y, W)
  <2>1. Len(b) = 2 /\ b[2] = On("exec", L, mem[p].arg, Nobody)
    BY <1>4, <1>6 DEF ExecShape
  <2>2. b[2].op = "exec" /\ b[2].lo = L
    BY <2>1 DEF On
  <2>3. Earns(b[2], line)
    BY <2>2 DEF Earns, Runs, ProgramOp
  <2>4. Earner(b, line)
    BY <2>1, <2>3 DEF Earner
  <2> HIDE DEF line
  <2>5. mem'[c].line = line
    BY <1>5 DEF line
  <2> QED
    BY <2>4, <2>5, EarnerPays
<1>9. \A Y, W : {c} \subseteq Y /\ Scribes' \subseteq W => Pays(a, mem'[p], Y, W)
  <2>1. Len(a) = 3 /\ a[3].op = "restore" /\ a[2].op = "wait" /\ a[2].ref = c
    BY <1>4 DEF ExecShape, IsAwait
  <2>2. ASSUME NEW Y, NEW W, c \in Y  PROVE Pays(a, mem'[p], Y, W)
    <3> DEFINE k == 3
    <3>1. k \in {3, 5} /\ Len(a) = k /\ a[k].op = "restore" /\ a[k - 1].op = "wait" /\ a[k - 1].ref = c
      BY <2>1
    <3> HIDE DEF k
    <3> QED
      BY <1>5, <2>2, <3>1, AwaitPays
  <2> QED
    BY <2>2
<1> DEFINE N == {c}
<1>10. N \in SUBSET FreePid
  OBVIOUS
<1>11. \A d \in N :
         /\ st'[d] = "run" /\ mem'[d].line = mem[p].line /\ fd'[d].out = fd[p].out
         /\ ~ Holds(todo'[d], {"left"}) /\ \A Y, W : Pays(todo'[d], mem'[d], Y, W)
  BY <1>5, <1>7, <1>8
<1>12. mem'[p].line = mem[p].line
  BY <1>5
<1>13. \A Y, W : N \subseteq Y /\ Scribes' \subseteq W => Pays(a, mem'[p], Y, W)
  BY <1>9
<1> HIDE DEF N
<1> QED
  BY <1>5, <1>10, <1>11, <1>12, <1>13 DEF Repays

LEMMA HeredocHandlerRepays ==
  ASSUME IInv, NEW p \in Pid, Debtor(p), HeredocHandler(p)
  PROVE  Repays(p)
<1> DEFINE line == mem[p].line
<1>1. Top(p).op = "bst" /\ KindAt(p) = "HEREDOC"
  BY DEF HeredocHandler, Openable, Redirects, At
<1>2. PICK c \in FreePid : \E a, b : Forks(p, c, a, b)
  BY HeredocHandlerForks
<1>3. PICK a, b : Forks(p, c, a, b)
  BY <1>2
<1>4. HeredocShape(p, c, a, b)
  <2>1. ~ ExecCmd(p)
    BY <1>1 DEF ExecCmd, External
  <2> QED
    BY <1>1, <1>3, <2>1 DEF Forks, LeftShape, RightShape
<1>5. /\ a \in Seq(Frame) /\ b \in Seq(Frame) /\ c \in Pid
      /\ todo'[p] = a \o Tail(todo[p]) /\ todo'[c] = b /\ mem'[p] = mem[p] /\ c \in Living'
  BY <1>3, ForkParts
<1>6. c \in Scribes'
  <2>1. Len(todo'[c]) = 1 /\ todo'[c][1].op = "heredoc_child"
    BY <1>4, <1>5 DEF HeredocShape
  <2> QED
    BY <1>5, <2>1 DEF Scribes, ScribeOp
<1>7. Carries(line, Top(p)) /\ Kind(line, Top(p).lo, Top(p).hi) = "HEREDOC"
  BY <1>1, NodeCarried DEF KindAt
<1>8. ASSUME NEW Y, NEW W, c \in W  PROVE Pays(a, mem'[p], Y, W)
  <2> DEFINE n == mem'[p]
             f == a[4]
             k == 4
  <2>1. /\ Len(a) = 4 /\ a[2].op = "wait" /\ a[2].ref = c /\ a[3].op = "restore"
        /\ f.op = "heredoc_open" /\ f.lo = Top(p).lo /\ f.hi = Top(p).hi
    BY <1>4 DEF HeredocShape, IsAwait, On
  <2>2. n.line = line
    BY <1>5
  <2>3. Carries(line, f) /\ Kind(line, f.lo, f.hi) = "HEREDOC"
    BY <1>7, <2>1 DEF Carries
  <2>4. /\ k \in Nat /\ k > 2 /\ k = Len(a) /\ a[k].op = "heredoc_open"
        /\ a[k - 1].op = "restore" /\ a[k - 2].op = "wait" /\ a[k - 2].ref \in W
        /\ Carries(line, a[k]) /\ Kind(line, a[k].lo, a[k].hi) = "HEREDOC"
    BY <1>8, <2>1, <2>3
  <2> HIDE DEF k, f, n, line
  <2>5. Continues(a, n, k, W)
    BY <2>2, <2>4 DEF Continues
  <2>6. k \in 1 .. Len(a) /\ Rest(a, n, k)
    BY <2>4 DEF Rest
  <2>7. Pays(a, n, Y, W)
    BY <2>5, <2>6 DEF Pays, Delivers
  <2> QED
    BY <2>7 DEF n
<1> DEFINE N == {}
<1>9. \A Y, W : N \subseteq Y /\ Scribes' \subseteq W => Pays(a, mem'[p], Y, W)
  BY <1>6, <1>8
<1>10. mem'[p].line = mem[p].line /\ N \in SUBSET FreePid /\ \A d : d \notin N
  BY <1>5
<1> HIDE DEF N
<1> QED
  BY <1>5, <1>9, <1>10 DEF Repays

(* A frame of pipe_child_process() pays as the one before it. *)
LEMMA ForkingPays ==
  ASSUME NEW f, NEW m, f.op \in ForkingOp, TopOwes(f, m),
         NEW g \in Frame, g.op \in ForkingOp, g.lo = f.lo, g.hi = f.hi,
         NEW n, n.line = m.line, n.g = m.g
  PROVE  \A Y, W : Pays(<<g>>, n, Y, W)
<1> DEFINE line == m.line
           a == <<g>>
<1>1. a \in Seq(Frame) /\ Len(a) = 1 /\ a[1] = g
  OBVIOUS
<1>2. \/ Carries(line, f) /\ Kind(line, f.lo, f.hi) = "PIPE" /\ RightOf(line, f) # "HEREDOC"
      \/ RightOf(line, f) = "HEREDOC" /\ m.g = Due(line)
  BY OwesByOp
<1>3. /\ Carries(line, g) <=> Carries(line, f)
      /\ RightOf(line, g) = RightOf(line, f)
      /\ Kind(line, g.lo, g.hi) = Kind(line, f.lo, f.hi)
  BY DEF Carries, RightOf
<1> HIDE DEF a
<1>4. CASE Carries(line, f) /\ Kind(line, f.lo, f.hi) = "PIPE" /\ RightOf(line, f) # "HEREDOC"
  <2>1. Earns(g, line)
    BY <1>3, <1>4 DEF Earns
  <2>2. Earner(a, n.line)
    BY <1>1, <2>1 DEF Earner
  <2> QED
    BY <2>2, EarnerPays DEF a
<1>5. CASE RightOf(line, f) = "HEREDOC" /\ m.g = Due(line)
  <2>1. Neutral(g, line)
    BY <1>3, <1>5 DEF Neutral
  <2>2. Rest(a, n, 0) /\ n.g = Due(n.line)
    BY <1>1, <1>5, <2>1 DEF Rest
  <2>3. \A Y, W : Pays(a, n, Y, W)
    BY <2>2 DEF Pays
  <2> QED
    BY <2>3 DEF a
<1> QED
  BY <1>2, <1>4, <1>5

LEMMA ForkLeftRepays ==
  ASSUME IInv, NEW p \in Pid, Debtor(p), ForkLeft(p)
  PROVE  Repays(p)
<1>1. Top(p).op = "fork_left" /\ TopOwes(Top(p), mem[p]) /\ Top(p).op \in ForkingOp
  BY DEF ForkLeft, At, Debtor, ForkingOp
<1>2. PICK c \in FreePid : \E a, b : Forks(p, c, a, b)
  BY ForkLeftForks
<1>3. PICK a, b : Forks(p, c, a, b)
  BY <1>2
<1>4. LeftShape(p, c, a, b)
  BY <1>1, <1>3 DEF Forks, ExecShape, HeredocShape, RightShape
<1>5. a \in Seq(Frame) /\ todo'[p] = a \o Tail(todo[p]) /\ mem'[p] = mem[p]
  BY <1>3, ForkParts
<1> DEFINE g == a[1]
<1>6. Len(a) = 1 /\ g.op = "fork_right" /\ g.lo = Top(p).lo /\ g.hi = Top(p).hi
  BY <1>4 DEF LeftShape, On
<1>7. g \in Frame /\ a = <<g>> /\ g.op \in ForkingOp
  <2>1. a \in Seq(Frame) /\ Len(a) = 1
    BY <1>5, <1>6
  <2>2. \A s \in Seq(Frame) : Len(s) = 1 => s[1] \in Frame /\ s = <<s[1]>>
    OBVIOUS
  <2>3. g \in Frame /\ a = <<g>>
    BY <2>1, <2>2
  <2> QED
    BY <1>6, <2>3 DEF ForkingOp
<1>8. mem'[p].line = mem[p].line /\ mem'[p].g = mem[p].g
  BY <1>5
<1> HIDE DEF g
<1>9. \A Y, W : Pays(<<g>>, mem'[p], Y, W)
  BY <1>1, <1>6, <1>7, <1>8, ForkingPays
<1> QED
  BY <1>5, <1>7, <1>8, <1>9, RepaysAlone

LEMMA ForkRightSide ==
  ASSUME IInv, NEW p \in Pid, Debtor(p), ForkRight(p), NEW c \in FreePid, NEW a, NEW b,
         Forks(p, c, a, b)
  PROVE  /\ RightShape(p, c, a, b) /\ b = Side(p, RightKind(p), "right")
<1>1. Top(p).op = "fork_right" /\ st[p] = "run"
  BY DEF ForkRight, At
<1>2. RightShape(p, c, a, b)
  BY <1>1 DEF Forks, ExecShape, HeredocShape, LeftShape
<1>3. PICK d \in FreePid :
        Fork(p, d, Side(p, RightKind(p), "right"), <<Do("close_pipe")>> \o AwaitBoth(Top(p).ref, d))
  BY DEF ForkRight
<1> DEFINE x == Side(p, RightKind(p), "right")
           y == <<Do("close_pipe")>> \o AwaitBoth(Top(p).ref, d)
<1>4. st' = [st EXCEPT ![d] = "run"] /\ todo' = [Return(p, y) EXCEPT ![d] = x]
  BY <1>3 DEF Fork
<1>5. st' = [st EXCEPT ![c] = "run"] /\ todo'[c] = b /\ c \in Pid /\ c # p
  <2>1. todo'[c] = b /\ c \in Pid /\ c # p
    BY ForkParts
  <2>2. st' = [st EXCEPT ![c] = "run"]
    BY DEF Forks
  <2> QED
    BY <2>1, <2>2
<1> HIDE DEF x, y
<1>6. d = c
  BY <1>4, <1>5 DEF FreePid, IInv, TypeOK
<1>7. b = x
  BY <1>4, <1>5, <1>6 DEF Return, IInv, TypeOK
<1> QED
  BY <1>2, <1>7 DEF x

LEMMA ForkRightRepays ==
  ASSUME IInv, NEW p \in Pid, Debtor(p), ForkRight(p)
  PROVE  Repays(p)
<1> DEFINE line == mem[p].line
           f == Top(p)
<1>1. f.op = "fork_right" /\ TopOwes(f, mem[p]) /\ f.op \in ForkingOp
  BY DEF ForkRight, At, Debtor, ForkingOp
<1>2. PICK c \in FreePid : \E a, b : Forks(p, c, a, b)
  BY ForkRightForks
<1>3. PICK a, b : Forks(p, c, a, b)
  BY <1>2
<1>4. RightShape(p, c, a, b) /\ b = Side(p, RightKind(p), "right")
  BY <1>3, ForkRightSide
<1>5. /\ a \in Seq(Frame) /\ b \in Seq(Frame) /\ c \in Pid /\ c # p
      /\ todo'[p] = a \o Tail(todo[p]) /\ todo'[c] = b
      /\ mem'[p] = mem[p] /\ mem'[c] = mem[p] /\ st'[c] = "run"
  BY <1>3, ForkParts
<1>6. RightKind(p) = RightOf(line, f)
  BY DEF RightKind, RightOf, RootAt
<1>7. \/ Carries(line, f) /\ Kind(line, f.lo, f.hi) = "PIPE" /\ RightKind(p) # "HEREDOC"
      \/ RightKind(p) = "HEREDOC" /\ mem[p].g = Due(line)
  BY <1>1, <1>6, OwesByOp
<1> DEFINE n == mem'[c]
<1>8. n.line = line /\ n.g = mem[p].g
  BY <1>5
<1>9. \A Y, W : Pays(b, n, Y, W)
  <2>1. CASE Carries(line, f) /\ Kind(line, f.lo, f.hi) = "PIPE" /\ RightKind(p) # "HEREDOC"
    <3> DEFINE g == On("right", f.lo, f.hi, Nobody)
    <3>1. b = <<Do("child"), g, Do("_exit")>>
      BY <1>4, <2>1 DEF Side
    <3>2. g.op = "right" /\ g.lo = f.lo /\ g.hi = f.hi /\ Do("_exit").op = "_exit"
      BY DEF On, Do
    <3> HIDE DEF g
    <3>3. Carries(line, g) /\ Kind(line, g.lo, g.hi) = "PIPE" /\ RightOf(line, g) # "HEREDOC"
      BY <1>6, <2>1, <3>2 DEF Carries, RightOf
    <3>4. Earns(g, line)
      BY <3>2, <3>3 DEF Earns
    <3>5. Neutral(Do("_exit"), line)
      BY <3>2 DEF Neutral
    <3>6. Len(b) = 3 /\ b[2] = g /\ b[3] = Do("_exit")
      BY <3>1
    <3>7. Earner(b, line)
      BY <3>4, <3>5, <3>6 DEF Earner
    <3> HIDE DEF line, n
    <3> QED
      BY <1>8, <3>7, EarnerPays
  <2>2. CASE RightKind(p) = "HEREDOC" /\ mem[p].g = Due(line)
    <3>1. b = <<Do("child"), Do("_exit")>>
      BY <1>4, <2>2 DEF Side
    <3>2. Do("child").op = "child" /\ Do("_exit").op = "_exit"
      BY DEF On, Do
    <3>3. Len(b) = 2 /\ b[1] = Do("child") /\ b[2] = Do("_exit")
      BY <3>1
    <3>4. Neutral(b[1], line) /\ Neutral(b[2], line)
      BY <3>2, <3>3 DEF Neutral
    <3>5. Rest(b, n, 0) /\ n.g = Due(n.line)
      BY <1>8, <2>2, <3>3, <3>4 DEF Rest
    <3> QED
      BY <3>5 DEF Pays
  <2> QED
    BY <1>7, <2>1, <2>2
<1>10. fd'[c] = fd[p] /\ ~ Holds(b, {"left"})
  <2>1. /\ b[1].op = "child" /\ b[Len(b)].op = "_exit"
        /\ Len(b) = 2 \/ (Len(b) = 3 /\ b[2].op = "right")
    BY <1>4 DEF RightShape, IsSide, On
  <2>2. ~ Holds(b, {"left"})
    BY <2>1 DEF Holds
  <2>3. ~ (Len(b) = 1 /\ b[1].op = "heredoc_child")
    BY <2>1
  <2> QED
    BY <1>3, <2>2, <2>3, ChildHas
<1>11. \A Y, W : {c} \subseteq Y /\ Scribes' \subseteq W => Pays(a, mem'[p], Y, W)
  <2>1. Len(a) = 5 /\ a[5].op = "restore" /\ a[4].op = "wait" /\ a[4].ref = c
    BY <1>4 DEF RightShape
  <2>2. ASSUME NEW Y, NEW W, c \in Y  PROVE Pays(a, mem'[p], Y, W)
    <3> DEFINE k == 5
    <3>1. k \in {3, 5} /\ Len(a) = k /\ a[k].op = "restore" /\ a[k - 1].op = "wait" /\ a[k - 1].ref = c
      BY <2>1
    <3> HIDE DEF k
    <3> QED
      BY <1>5, <2>2, <3>1, AwaitPays
  <2> QED
    BY <2>2
<1> DEFINE N == {c}
<1>12. N \in SUBSET FreePid
  OBVIOUS
<1>13. \A d \in N :
         /\ st'[d] = "run" /\ mem'[d].line = mem[p].line /\ fd'[d].out = fd[p].out
         /\ ~ Holds(todo'[d], {"left"}) /\ \A Y, W : Pays(todo'[d], mem'[d], Y, W)
  BY <1>5, <1>9, <1>10
<1>14. mem'[p].line = mem[p].line
  BY <1>5
<1>15. \A Y, W : N \subseteq Y /\ Scribes' \subseteq W => Pays(a, mem'[p], Y, W)
  BY <1>11
<1> HIDE DEF N
<1> QED
  BY <1>5, <1>12, <1>13, <1>14, <1>15 DEF Repays

LEMMA RightChildRepays ==
  ASSUME IInv, NEW p \in Pid, Debtor(p), RightChild(p)
  PROVE  Repays(p)
<1>1. Top(p).op = "right" /\ TopOwes(Top(p), mem[p]) /\ st[p] = "run" /\ Top(p).op \in NodeOp
  BY DEF RightChild, At, Debtor, NodeOp, PipeOp
<1>2. Carries(mem[p].line, Top(p)) /\ KindAt(p) = "PIPE"
  BY <1>1, OwesByOp DEF KindAt
<1>3. Shaped(mem[p].line, Last(mem[p].line)) /\ mem \in [Pid -> Memory] /\ todo \in [Pid -> Seq(Frame)]
  BY DebtorLine
<1>4. PICK g \in Frame : RightBst(p) = <<g>> /\ Earns(g, mem[p].line)
  BY <1>1, <1>2, <1>3, PipeCarried
<1>5. mem'[p].line = mem[p].line
  BY <1>3 DEF RightChild, Memory
<1>6. todo'[p] = <<g>> \o Tail(todo[p])
  BY <1>3, <1>4 DEF RightChild, Return
<1>7. <<g>> \in Seq(Frame) /\ Earner(<<g>>, mem'[p].line)
  BY <1>4, <1>5, EarnerOne
<1> QED
  BY <1>5, <1>6, <1>7, EarnerPays, RepaysAlone

(* The pipe: the here-document on its right, when it is one, or else the   *)
(* fork of the right child.                                                *)
LEMMA PipeHandlerRepays ==
  ASSUME IInv, NEW p \in Pid, Debtor(p), PipeHandler(p)
  PROVE  Repays(p)
<1> DEFINE line == mem[p].line
           f == Top(p)
           node(op) == <<On(op, f.lo, f.hi, Nobody)>>
           x == IF LeftKind(p) = "HEREDOC"
                  THEN node("heredoc_left") \o LeftBst(p) \o node("heredoc_left_end")
                  ELSE <<>>
           y == IF RightKind(p) = "HEREDOC"
                  THEN node("heredoc_right") \o RightBst(p) \o node("heredoc_right_end")
                  ELSE <<>>
           a == x \o y \o node("fork_left")
<1>1. f.op = "bst" /\ KindAt(p) = "PIPE" /\ st[p] = "run" /\ f.op \in NodeOp
  BY DEF PipeHandler, At, NodeOp
<1>2. Carries(line, f) /\ Kind(line, f.lo, f.hi) = "PIPE" /\ Shaped(line, Last(line)) /\ f \in Frame
  BY <1>1, NodeCarried, DebtorLine DEF KindAt
<1>3. PICK g \in Frame : RightBst(p) = <<g>> /\ Earns(g, line)
  BY <1>1, <1>2, PipeCarried
<1>4. LeftBst(p) \in Seq(Frame)
  BY <1>1, PartOps
<1>5. \A op \in FrameOp : /\ node(op) \in Seq(Frame) /\ Len(node(op)) = 1
                          /\ node(op)[1].op = op /\ node(op)[1].lo = f.lo /\ node(op)[1].hi = f.hi
  BY <1>2 DEF On, Frame
<1>6. {"heredoc_left", "heredoc_left_end", "heredoc_right", "heredoc_right_end", "fork_left"}
        \subseteq FrameOp
  BY DEF FrameOp
<1>7. todo' = Return(p, a)
  BY DEF PipeHandler
<1>8. RightKind(p) = RightOf(line, f)
  BY DEF RightKind, RightOf, RootAt
<1>9. mem'[p].line = line
  <2>1. mem[p] \in Memory
    BY DEF IInv, TypeOK
  <2> QED
    BY <2>1 DEF PipeHandler, Memory, IInv, TypeOK
<1> HIDE DEF node, line, f
<1>10. x \in Seq(Frame)
  BY <1>4, <1>5, <1>6
<1> HIDE DEF x
<1> DEFINE h == node("fork_left")
<1>11. /\ h \in Seq(Frame) /\ Len(h) = 1 /\ h[1].op = "fork_left"
       /\ h[1].lo = f.lo /\ h[1].hi = f.hi
  BY <1>5, <1>6
<1>12. a \in Seq(Frame) /\ Earner(a, line)
  <2>1. CASE RightKind(p) = "HEREDOC"
    <3> DEFINE u == node("heredoc_right")
               v == node("heredoc_right_end")
               b == <<g>>
    <3>1. u \in Seq(Frame) /\ v \in Seq(Frame) /\ Len(v) = 1 /\ v[1].op = "heredoc_right_end"
      BY <1>5, <1>6
    <3>2. b \in Seq(Frame) /\ Earner(b, line)
      BY <1>3, EarnerOne
    <3>3. y = u \o b \o v
      BY <1>3, <2>1
    <3>4. \A i \in 1 .. Len(v) : Neutral(v[i], line)
      BY <3>1 DEF Neutral
    <3>5. \A i \in 1 .. Len(h) : Neutral(h[i], line)
      <4>1. h[1].op \in ForkingOp /\ RightOf(line, h[1]) = "HEREDOC"
        BY <1>8, <1>11, <2>1 DEF RightOf, ForkingOp
      <4>2. Neutral(h[1], line)
        BY <4>1 DEF Neutral
      <4> QED
        BY <1>11, <4>2
    <3> HIDE DEF u, v, b, h, y
    <3> DEFINE ub == u \o b
    <3>6. ub \in Seq(Frame) /\ Earner(ub, line)
      BY <3>1, <3>2, EarnerConcat
    <3>7. y = ub \o v
      BY <3>3
    <3> HIDE DEF ub
    <3>8. y \in Seq(Frame) /\ Earner(y, line)
      BY <3>1, <3>4, <3>6, <3>7, EarnerConcat
    <3> DEFINE xy == x \o y
    <3>9. xy \in Seq(Frame) /\ Earner(xy, line)
      BY <1>10, <3>8, EarnerConcat
    <3> HIDE DEF xy
    <3>10. xy \o h \in Seq(Frame) /\ Earner(xy \o h, line)
      BY <1>11, <3>5, <3>9, EarnerConcat
    <3> QED
      BY <3>10 DEF xy, h
  <2>2. CASE RightKind(p) # "HEREDOC"
    <3>1. y \in Seq(Frame)
      BY <2>2
    <3>2. Earns(h[1], line)
      <4>1. Carries(line, h[1]) /\ RightOf(line, h[1]) # "HEREDOC"
        BY <1>2, <1>8, <1>11, <2>2 DEF Carries, RightOf
      <4> QED
        BY <1>2, <1>11, <4>1 DEF Earns, ForkingOp
    <3> HIDE DEF y, h
    <3>3. Earner(h, line)
      BY <1>11, <3>2 DEF Earner
    <3> DEFINE xy == x \o y
    <3>4. xy \in Seq(Frame)
      BY <1>10, <3>1
    <3> HIDE DEF xy
    <3>5. xy \o h \in Seq(Frame) /\ Earner(xy \o h, line)
      BY <1>11, <3>3, <3>4, EarnerConcat
    <3> QED
      BY <3>5 DEF xy, h
  <2> QED
    BY <2>1, <2>2
<1> HIDE DEF a
<1>13. todo'[p] = a \o Tail(todo[p])
  BY <1>7 DEF Return, IInv, TypeOK
<1>14. \A Y, W : Pays(a, mem'[p], Y, W)
  BY <1>9, <1>12, EarnerPays
<1> QED
  BY <1>9, <1>12, <1>13, <1>14, RepaysAlone DEF line

(* The redirections run what is left of their stage. *)
LEMMA TraversalRepays ==
  ASSUME IInv, DocThere, NEW p \in Pid, Debtor(p),
         \/ RdinHandler(p) \/ RdoutHandler(p) \/ HeredocOpen(p)
  PROVE  Repays(p)
<1> DEFINE m == mem[p]
           line == mem[p].line
           L == Last(line)
           n == mem'[p]
           a == TreeTransversal(p)
<1>1. /\ st[p] = "run" /\ TopOwes(Top(p), m) /\ mem \in [Pid -> Memory] /\ m \in Memory
      /\ Shaped(line, L) /\ todo \in [Pid -> Seq(Frame)] /\ p \in Living
      /\ Top(p) = todo[p][1] /\ todo[p] # <<>>
  BY DebtorLine DEF Debtor
<1>2. /\ Top(p).op \in {"bst", "heredoc_open"} /\ KindAt(p) \in RedirKind
      /\ todo' = Return(p, a) /\ mem' = [mem EXCEPT ![p].arg = TreeArg(p)]
  <2>1. CASE RdinHandler(p) \/ RdoutHandler(p)
    BY <2>1 DEF RdinHandler, RdoutHandler, Openable, Redirects, At, RedirKind
  <2>2. CASE HeredocOpen(p)
    <3>1. Top(p).op = "heredoc_open"
      BY <2>2 DEF HeredocOpen, At
    <3>2. Kind(line, Top(p).lo, Top(p).hi) = "HEREDOC" /\ m.g = 0
      BY <1>1, <3>1, OwesByOp
    <3>3. tmp # NoDoc
      <4>1. 1 \in 1 .. Len(todo[p])
        BY <1>1
      <4>2. Holds(todo[p], DocOp)
        BY <1>1, <3>1, <4>1 DEF Holds, DocOp
      <4> QED
        BY <1>1, <4>2 DEF DocThere
    <3> QED
      BY <2>2, <3>1, <3>2, <3>3 DEF HeredocOpen, KindAt, RedirKind
  <2> QED
    BY <2>1, <2>2
<1>3. n.line = line /\ n.g = m.g
  BY <1>1, <1>2 DEF Memory
<1>4. a \in Seq(Frame) /\ todo'[p] = a \o Tail(todo[p])
  <2>1. Top(p).op \in NodeOp
    BY <1>2 DEF NodeOp
  <2> QED
    BY <1>1, <1>2, <2>1, PartOps DEF Return
<1>5. CASE Carries(line, Top(p))
  <2>1. L \in Top(p).lo .. Top(p).hi
    BY <1>5 DEF Carries
  <2>2. \A Y, W : Pays(a, n, Y, W)
    <3> DEFINE nn == n
               LL == L
    <3>1. nn.line = mem[p].line /\ LL = Last(nn.line) /\ Shaped(nn.line, LL) /\ LL \in Top(p).lo .. Top(p).hi
      BY <1>1, <1>3, <2>1
    <3> HIDE DEF nn, LL
    <3>2. \A Y, W : Pays(TreeTransversal(p), nn, Y, W)
      BY <1>1, <1>2, <3>1, TraversalPays
    <3> QED
      BY <3>2 DEF nn
  <2> QED
    BY <1>3, <1>4, <2>2, RepaysAlone
<1>6. CASE OnlyOut(line, Top(p)) /\ m.g = Due(line) /\ Top(p).op = "bst"
  <2>1. Rest(a, n, 0)
    BY <1>1, <1>3, <1>6, TraversalNeutral
  <2>2. n.g = Due(n.line)
    BY <1>3, <1>6
  <2>3. \A Y, W : Pays(a, n, Y, W)
    BY <2>1, <2>2 DEF Pays
  <2> QED
    BY <1>3, <1>4, <2>3, RepaysAlone
<1>7. \/ Carries(line, Top(p))
      \/ OnlyOut(line, Top(p)) /\ m.g = Due(line) /\ Top(p).op = "bst"
  BY <1>1, <1>2, OwesByOp
<1> QED
  BY <1>5, <1>6, <1>7

(* A program that goes on is still that of the last command. *)
LEMMA RunsOn ==
  ASSUME IInv, NEW p \in Pid, Debtor(p), NEW g \in Frame, todo' = Return(p, <<g>>),
         mem'[p].line = mem[p].line, Runs(mem[p].line, g)
  PROVE  Repays(p)
<1>1. todo'[p] = <<g>> \o Tail(todo[p]) /\ <<g>> \in Seq(Frame)
  BY DEF Return, IInv, TypeOK
<1>2. Earns(g, mem'[p].line)
  BY DEF Earns
<1>3. Earner(<<g>>, mem'[p].line)
  BY <1>2, EarnerOne
<1> QED
  BY <1>1, <1>3, EarnerPays, RepaysAlone

LEMMA ExecveRepays ==
  ASSUME IInv, NEW p \in Pid, Debtor(p), Execve(p)
  PROVE  Repays(p)
<1> DEFINE line == mem[p].line
           f == Top(p)
           k == Prog[line[f.lo].w].k
           g == On(k, f.lo, f.hi, Nobody)
<1>1. f.op = "exec" /\ f.op \in ProgramOp /\ CommandKind(p) = k /\ k # "none"
  BY DEF Execve, At, CommandKind, Command, ProgramOp
<1>2. TopOwes(f, mem[p]) /\ st[p] = "run" /\ f \in Frame
  BY DebtorLine DEF Debtor
<1>3. Runs(line, f)
  BY <1>1, <1>2, OwesByOp
<1>4. k \in ProgramKind
  <2>1. CommandKind(p) \in BuiltinKind \cup ProgramKind \cup {"none"}
    BY <1>1, <1>2, CommandType
  <2>2. Indexed(f, line)
    BY <1>2, RunningFrame
  <2>3. k \notin BuiltinKind
    BY <1>1, <2>2 DEF Indexed
  <2> QED
    BY <1>1, <2>1, <2>3
<1>5. todo' = Return(p, <<g>>) /\ mem' = mem
  BY <1>1 DEF Execve
<1> HIDE DEF k
<1>6. g \in Frame /\ g.op = k /\ g.lo = f.lo
  BY <1>2, <1>4 DEF On, Frame, FrameOp
<1>7. Runs(line, g)
  BY <1>3, <1>4, <1>6 DEF Runs, ProgramOp, k
<1> HIDE DEF g
<1> QED
  BY <1>5, <1>6, <1>7, RunsOn

LEMMA ProgramReadsRepays ==
  ASSUME IInv, NEW p \in Pid, Debtor(p), ProgramReads(p)
  PROVE  Repays(p)
<1> DEFINE line == mem[p].line
           f == Top(p)
           k == Prog[line[f.lo].w].k
           g == [f EXCEPT !.n = @ + 1, !.op = IF @ = "copy" THEN "put" ELSE @]
<1>1. f.op \in {"copy", "head"} /\ TopOwes(f, mem[p]) /\ f \in Frame
  BY DebtorLine DEF ProgramReads, Reading, At, Debtor
<1>2. f.op \in ProgramOp
  BY <1>1 DEF ProgramOp, ProgramKind
<1>3. Runs(line, f)
  BY <1>1, <1>2, OwesByOp
<1>4. todo' = Return(p, <<g>>) /\ mem' = mem
  BY DEF ProgramReads
<1>5. g \in Frame /\ g.lo = f.lo /\ g.op = IF f.op = "copy" THEN "put" ELSE f.op
  <2>1. f.n + 1 \in Nat
    BY <1>1 DEF Frame
  <2> QED
    BY <1>1, <2>1 DEF Frame, FrameOp, ProgramKind
<1> HIDE DEF k, g
<1>6. Runs(line, g)
  <2>1. f.lo = Last(line) /\ k = f.op
    BY <1>1, <1>3 DEF Runs, k
  <2>2. Prog[line[g.lo].w].k = k
    BY <1>5 DEF k
  <2>3. g.op \in ProgramOp /\ (g.op = k \/ (g.op = "put" /\ k = "copy"))
    BY <1>1, <1>5, <2>1 DEF ProgramOp, ProgramKind
  <2> QED
    BY <1>5, <2>1, <2>2, <2>3 DEF Runs
<1> QED
  BY <1>4, <1>5, <1>6, RunsOn

LEMMA WritesRepays ==
  ASSUME IInv, NEW p \in Pid, Debtor(p), Writes(p)
  PROVE  Repays(p)
<1> DEFINE line == mem[p].line
           f == Top(p)
<1>1. /\ f.op \in {"echo", "put", "emit"} /\ TopOwes(f, mem[p]) /\ f \in Frame /\ st[p] = "run"
      /\ mem \in [Pid -> Memory] /\ mem[p] \in Memory
  BY DebtorLine DEF Writes, Writing, At, Debtor
<1>2. mem'[p].line = line /\ mem'[p].g = IF At(p, "echo") THEN 0 ELSE mem[p].g
  BY <1>1 DEF Writes, Memory
<1>3. CASE f.op = "echo"
  <2>1. At(p, "echo")
    BY <1>1, <1>3 DEF At
  <2>2. todo' = Return(p, <<>>)
    BY <2>1 DEF Writes, Written
  <2>3. Due(line) = 0
    BY <1>1, <1>3, OwesByOp
  <2> QED
    BY <1>2, <2>1, <2>2, <2>3, Settles
<1>4. CASE f.op \in {"put", "emit"}
  <2> DEFINE g == IF f.op = "put" THEN [f EXCEPT !.op = "copy"] ELSE [f EXCEPT !.n = @ + 1]
             k == Prog[line[f.lo].w].k
  <2>1. ~ At(p, "echo") /\ (At(p, "put") <=> f.op = "put")
    BY <1>1, <1>4 DEF At
  <2>2. Written(p) = <<g>>
    BY <2>1 DEF Written
  <2>3. todo' = Return(p, <<g>>)
    BY <2>2 DEF Writes
  <2>4. g \in Frame /\ g.lo = f.lo /\ g.op = IF f.op = "put" THEN "copy" ELSE f.op
    BY <1>1 DEF Frame, FrameOp, ProgramKind
  <2>5. Runs(line, f)
    <3>1. f.op \in ProgramOp
      BY <1>4 DEF ProgramOp, ProgramKind
    <3> QED
      BY <1>1, <3>1, OwesByOp
  <2> HIDE DEF g, k
  <2>6. Runs(line, g)
    <3>1. f.lo = Last(line) /\ (f.op = "emit" => k = "emit") /\ (f.op = "put" => k \in {"put", "copy"})
      BY <1>4, <2>5 DEF Runs, k
    <3>2. k # "put"
      <4>1. f.op \in ProgramOp
        BY <1>4 DEF ProgramOp, ProgramKind
      <4>2. CommandKind(p) \in BuiltinKind \cup ProgramKind \cup {"none"}
        BY <1>1, <4>1, CommandType
      <4> QED
        BY <4>2 DEF BuiltinKind, ProgramKind, CommandKind, Command, k
    <3>3. Prog[line[g.lo].w].k = k
      BY <2>4 DEF k
    <3>4. g.op \in ProgramOp /\ g.op = k
      BY <1>4, <2>4, <3>1, <3>2 DEF ProgramOp, ProgramKind
    <3> QED
      BY <2>4, <3>1, <3>3, <3>4 DEF Runs
  <2> QED
    BY <1>2, <2>3, <2>4, <2>6, RunsOn
<1> QED
  BY <1>1, <1>3, <1>4

(* The redirections of such a line can all be opened. *)
LEMMA Openings ==
  ASSUME IInv, NEW p \in Pid, st[p] = "run", Top(p).op = "bst", Fine(mem[p].line)
  PROVE  ~ OpenFails(p) /\ ~ RedirectionError(p) /\ ~ RedirectionFails(p)
<1> DEFINE line == mem[p].line
           r == RootAt(p)
           k == KindAt(p)
<1>1. Top(p).op \in NodeOp
  BY DEF NodeOp
<1>2. /\ line \in Lines \cup {<<>>} /\ RootFacts(line, Top(p).lo, Top(p).hi, r, k)
      /\ r \in 1 .. Len(line) /\ k = TypeAssign(RootToken(p)) /\ RootToken(p) = line[r]
      /\ Len(line) \in Nat
  BY <1>1, NodeTokens DEF RootToken
<1>3. /\ TypeAssign(line[r]) = "RDIN" => line[r].w \in present \ Denied
      /\ line[r].c = ">" => line[r].w \notin Denied
      /\ Shaped(line, Last(line))
  BY <1>2, FineLine
<1>4. /\ k \in {"RDIN", "HEREDOC"} => line[r].c = "<"
      /\ k \in {"RDOUT", "RDAPP"} => line[r].c = ">"
  BY <1>2 DEF RootFacts
<1>5. line[r].c \in {"<", ">"} => line[r].n \in Nat /\ line[r].n <= 2 /\ line[r].w # NoWord
  <2>1. line[r].n \in Nat
    BY <1>2, LineType
  <2>2. \A i \in 1 .. Len(line) : line[i].c \in {"<", ">"} => line[i].n <= 2 /\ line[i].w # NoWord
    BY <1>3 DEF Shaped
  <2> QED
    BY <1>2, <2>1, <2>2
<1>6. ~ OpenFails(p)
  <2>1. OpenFails(p) => /\ k \in {"RDIN", "RDOUT", "RDAPP"} /\ line[r].w \in Denied
    BY <1>2 DEF OpenFails, Openable, Redirects, Target
  <2> QED
    BY <1>2, <1>3, <1>4, <2>1
<1>7. ~ RedirectionError(p)
  <2>1. RedirectionError(p) => line[r].n > 2 /\ k \in {"RDAPP", "HEREDOC"}
    BY <1>2 DEF RedirectionError, TooMany
  <2> QED
    BY <1>4, <1>5, <2>1
<1>8. ~ RedirectionFails(p)
  <2>1. RedirectionFails(p) =>
          /\ k \in {"RDIN", "RDOUT", "RDAPP", "HEREDOC"}
          /\ line[r].w = NoWord \/ (k = "RDIN" /\ line[r].w \notin present)
    BY <1>2 DEF RedirectionFails, Redirects, NoFile, Target
  <2> QED
    BY <1>2, <1>3, <1>4, <1>5, <2>1
<1> QED
  BY <1>6, <1>7, <1>8

LEMMA NotOwed ==
  ASSUME IInv, NEW p \in Pid, Debtor(p)
  PROVE  /\ ~ PipeSyntaxError(p) /\ ~ RedirectionError(p) /\ ~ RedirectionFails(p)
         /\ ~ WaitEnded(p) /\ ~ WaitStopped(p) /\ ~ SigintIgnore(p) /\ ~ LeftChild(p)
         /\ ~ HeredocChild(p) /\ ~ HeredocLine(p)
<1>1. /\ Top(p).op \notin {"wait", "ignore", "left", "heredoc_child", "heredoc_input"}
      /\ st[p] = "run" /\ Fine(mem[p].line)
  <2>1. TopOwes(Top(p), mem[p])
    BY DEF Debtor
  <2> QED
    BY <2>1, OwesByOp DEF Debtor
<1>2. /\ ~ WaitEnded(p) /\ ~ WaitStopped(p) /\ ~ SigintIgnore(p) /\ ~ LeftChild(p)
      /\ ~ HeredocChild(p) /\ ~ HeredocLine(p)
  BY <1>1 DEF WaitEnded, WaitStopped, SigintIgnore, LeftChild, HeredocChild, HeredocLine, At
<1>3. ~ RedirectionError(p) /\ ~ RedirectionFails(p)
  <2>1. Top(p).op # "bst" => ~ RedirectionError(p) /\ ~ RedirectionFails(p)
    BY DEF RedirectionError, RedirectionFails, Redirects, At
  <2> QED
    BY <1>1, <2>1, Openings
<1>4. ~ PipeSyntaxError(p)
  <2> SUFFICES ASSUME PipeSyntaxError(p)  PROVE FALSE
    OBVIOUS
  <2>1. Top(p).op = "bst" /\ KindAt(p) = "PIPE" /\ PipeError(p) /\ Top(p).op \in NodeOp
    BY DEF PipeSyntaxError, At, NodeOp
  <2>2. Carries(mem[p].line, Top(p)) /\ Shaped(mem[p].line, Last(mem[p].line))
    BY <2>1, NodeCarried, DebtorLine
  <2> QED
    BY <1>1, <2>1, <2>2, PipeCarried
<1> QED
  BY <1>2, <1>3, <1>4

(* Whatever a debtor does, it still owes the status, or it ends. *)
LEMMA DebtorStep ==
  ASSUME IInv, DocThere, NEW p \in Pid, Debtor(p), Step(p) \/ Types(p),
         ~ OutOfResources(p), ~ ReadLine(p), ~ Ends(p)
  PROVE  Repays(p)
<1>1. ~ ResetData(p) \/ ~ mem[p].exit
  BY DEF Ends
<1>2. CASE \/ SigintRestore(p) \/ ChildRestoreSignals(p) \/ ResetData(p)
           \/ PipeHeredoc(p) \/ ClosePipe(p)
  BY <1>1, <1>2, QuietRepays
<1>3. CASE ExecBuiltin(p) \/ ExecCmd(p) \/ Execve(p)
  BY <1>3, ExecBuiltinRepays, ExecCmdRepays, ExecveRepays
<1>4. CASE PipeHandler(p) \/ ForkLeft(p) \/ ForkRight(p) \/ RightChild(p)
  BY <1>4, PipeHandlerRepays, ForkLeftRepays, ForkRightRepays, RightChildRepays
<1>5. CASE RdinHandler(p) \/ RdoutHandler(p) \/ HeredocOpen(p) \/ HeredocHandler(p)
  BY <1>5, TraversalRepays, HeredocHandlerRepays
<1>6. CASE ProgramReads(p) \/ Writes(p)
  BY <1>6, ProgramReadsRepays, WritesRepays
<1> QED
  BY <1>2, <1>3, <1>4, <1>5, <1>6, NotOwed DEF Step, Types, Ends

(***************************************************************************)
(* The process at work: one that owes the status, or waits for it.         *)
(***************************************************************************)
LEMMA GoodForms ==
  ASSUME IInv, NEW p \in Pid, st[p] = "run", Fine(mem[p].line), NEW S, Good(p, S)
  PROVE  \/ Debtor(p)
         \/ \E i \in 2 .. Len(todo[p]) :
              /\ Delivers(todo[p], mem[p], i, Yielding(S, Due(mem[p].line)), Scribes)
              /\ Rest(todo[p], mem[p], i)
<1> DEFINE s == todo[p]
           m == mem[p]
           Y == Yielding(S, Due(mem[p].line))
<1>1. s \in Seq(Frame) /\ s # <<>> /\ Top(p) = s[1]
  BY RunningFrame
<1>2. Pays(s, m, Y, Scribes)
  BY DEF Good
<1> HIDE DEF s, m, Y
<1>3. \/ Rest(s, m, 1) /\ TopOwes(s[1], m)
      \/ \E i \in 2 .. Len(s) : Delivers(s, m, i, Y, Scribes) /\ Rest(s, m, i)
  BY <1>1, <1>2, PaysCases
<1> QED
  BY <1>1, <1>3 DEF Debtor, s, m, Y

(* It writes to no pipe that nobody reads ... *)
LEMMA NoBrokenPipe ==
  ASSUME IInv, Separate, NEW p \in Pid, st[p] = "run", OutOK(todo[p], mem[p], fd[p])
  PROVE  ~ BrokenPipe(p)
<1> SUFFICES ASSUME fd[p].out \in PipeId, Readers(fd[p].out) = {}  PROVE FALSE
  BY DEF BrokenPipe
<1>1. fd[p].out = mem[p].w /\ Holds(todo[p], LeftEnd)
  BY DEF OutOK
<1>2. p \in Living
  BY DEF Living
<1>3. Holds(todo[p], PipeOp)
  BY <1>1 DEF Holds, LeftEnd, PipeOp
<1>4. mem[p].r \in fd[p].rd
  BY <1>2, <1>3, HeldPipe DEF Open
<1>5. mem[p].r = mem[p].w
  BY <1>2, <1>3 DEF Separate, Unshared
<1> QED
  BY <1>1, <1>4, <1>5 DEF Readers

(* ... and, when it owes the status, to no pipe at all. *)
LEMMA DebtorOut ==
  ASSUME IInv, NEW p \in Pid, Debtor(p), OutOK(todo[p], mem[p], fd[p])
  PROVE  fd[p].out \notin PipeId
<1>1. Top(p) = todo[p][1] /\ Top(p).op # "heredoc_left_end"
  BY DebtorLine, OwesByOp DEF Debtor
<1>2. \A j \in 1 + 1 .. Len(todo[p]) : todo[p][j].op # "heredoc_left_end"
  BY DEF Debtor, Rest, Neutral, ForkingOp
<1>3. Len(todo[p]) \in Nat
  BY RunningFrame DEF Debtor
<1>4. ~ Holds(todo[p], LeftEnd)
  BY <1>1, <1>2, <1>3 DEF Holds, LeftEnd
<1> QED
  BY <1>4 DEF OutOK

(* The status it ends with is the one due. *)
LEMMA DebtorEnds ==
  ASSUME IInv, NEW p \in Pid, Debtor(p),
         \/ CommandNotFound(p) \/ ChildExit(p) \/ ProgramEnds(p) \/ EndOfFile(p)
         \/ HeredocEnd(p) \/ TypedEnd(p)
  PROVE  Exit(p, Exited(Due(mem[p].line)))
<1> DEFINE line == mem[p].line
           w == line[Last(line)].w
           k == Prog[w].k
           v == Due(line)
<1>1. TopOwes(Top(p), mem[p]) /\ v = StatusOf(w)
  BY DEF Debtor, Due
<1>2. /\ Top(p).op = "_exit" => mem[p].g = v
      /\ Top(p).op \in ProgramOp => Runs(line, Top(p))
      /\ Top(p).op \notin {"heredoc_child", "heredoc_input"}
  BY <1>1, OwesByOp
<1>3. ASSUME Top(p).op \in ProgramOp
      PROVE  /\ Command(p) = w /\ CommandKind(p) = k
             /\ Top(p).op \in {"emit", "head", "status", "sleep", "copy"} => Top(p).op = k
  BY <1>2, <1>3 DEF Runs, Command, CommandKind
<1> HIDE DEF v, k, w
<1>4. /\ k \in {"status", "builtin"} => v = Prog[w].n
      /\ k = "none" => v = 127
      /\ k \notin {"status", "builtin", "none"} => v = 0
  BY <1>1, StatusCases DEF k
<1>5. CASE CommandNotFound(p)
  <2>1. Top(p).op \in ProgramOp /\ CommandKind(p) = "none" /\ Exit(p, Exited(127))
    BY <1>5 DEF CommandNotFound, At, ProgramOp
  <2>2. v = 127
    BY <1>3, <1>4, <2>1
  <2> QED
    BY <2>1, <2>2 DEF v
<1>6. CASE ChildExit(p)
  <2>1. Top(p).op = "_exit" /\ Exit(p, Exited(mem[p].g))
    BY <1>6 DEF ChildExit, At
  <2> QED
    BY <1>2, <2>1 DEF v
<1>7. CASE ProgramEnds(p)
  <2>1. /\ Top(p).op \in {"emit", "head", "status", "sleep"}
        /\ Exit(p, Exited(IF Top(p).op = "status" THEN Prog[Command(p)].n ELSE 0))
    BY <1>7 DEF ProgramEnds, Finished, At
  <2>2. Top(p).op \in ProgramOp
    BY <2>1 DEF ProgramOp, ProgramKind
  <2>3. v = IF Top(p).op = "status" THEN Prog[Command(p)].n ELSE 0
    BY <1>3, <1>4, <2>1, <2>2
  <2> QED
    BY <2>1, <2>3 DEF v
<1>8. CASE EndOfFile(p) \/ TypedEnd(p)
  <2>1. Top(p).op \in {"copy", "head"} /\ Exit(p, Exited(0))
    BY <1>8 DEF EndOfFile, TypedEnd, Reading, At
  <2>2. Top(p).op \in ProgramOp
    BY <2>1 DEF ProgramOp, ProgramKind
  <2>3. v = 0
    BY <1>3, <1>4, <2>1, <2>2
  <2> QED
    BY <2>1, <2>3 DEF v
<1>9. CASE HeredocEnd(p)
  BY <1>2, <1>9 DEF HeredocEnd, At
<1> QED
  BY <1>5, <1>6, <1>7, <1>8, <1>9

LEMMA GoodEnds ==
  ASSUME IInv, NoLoop, Separate, NEW p \in Pid \ {Shell}, st[p] = "run", Fine(mem[p].line),
         NEW S, Good(p, S), Ends(p)
  PROVE  Exit(p, Exited(Due(mem[p].line)))
<1>1. p \in Pid /\ OutOK(todo[p], mem[p], fd[p])
  BY DEF Good
<1>2. ~ BrokenPipe(p)
  BY <1>1, NoBrokenPipe
<1>3. Top(p).op \notin {"prompt", "reset"}
  BY <1>1, AtPromptTop
<1>4. ~ EndOfInput(p) /\ ~ ResetData(p)
  BY <1>3 DEF EndOfInput, ResetData, At
<1>5. ~ OpenFails(p)
  <2>1. OpenFails(p) => Top(p).op = "bst"
    BY DEF OpenFails, Openable, Redirects, At
  <2> QED
    BY <1>1, <2>1, Openings
<1>6. \/ CommandNotFound(p) \/ ChildExit(p) \/ ProgramEnds(p) \/ EndOfFile(p)
      \/ HeredocEnd(p) \/ TypedEnd(p)
  BY <1>2, <1>4, <1>5 DEF Ends
<1>7. Top(p).op \in LastOp
  BY <1>6 DEF CommandNotFound, ChildExit, ProgramEnds, EndOfFile, HeredocEnd, TypedEnd, Finished,
     Reading, At, LastOp, ProgramOp, ProgramKind
<1>8. Len(todo[p]) = 1
  BY <1>1, <1>7, RunningFrame
<1>9. Debtor(p)
  <2>1. ~ \E i \in 2 .. Len(todo[p]) : TRUE
    BY <1>8
  <2> QED
    BY <1>1, <2>1, GoodForms
<1> QED
  BY <1>1, <1>6, <1>9, DebtorEnds

(***************************************************************************)
(* The processes that look on, and those that are waited for.              *)
(***************************************************************************)
LEMMA OthersFate ==
  ASSUME IInv, NEW p \in Pid, Step(p) \/ Types(p), ~ WaitStopped(p), NEW c \in Pid, c # p
  PROVE  /\ c \in Living => c \in Living' /\ Same(c)
         /\ st[c] = "zombie" /\ (par[c] # p \/ p \in Living') /\ ~ (WaitEnded(p) /\ Top(p).ref = c)
              => st'[c] = "zombie" /\ ws'[c] = ws[c]
<1>1. /\ st \in [Pid -> {"none", "run", "stop", "zombie"}] /\ ws \in [Pid -> Nat] /\ st[p] = "run"
  BY Stepping DEF IInv, TypeOK
<1> DEFINE kept == st[c] = "zombie" => st'[c] = "zombie" /\ ws'[c] = ws[c]
           lives == st[c] \in {"run", "stop"} => st'[c] \in {"run", "stop"}
           left == (par[c] # p \/ p \in Living') /\ ~ (WaitEnded(p) /\ Top(p).ref = c)
<1> SUFFICES lives /\ (left => kept)
  <2>1. lives => (c \in Living => c \in Living' /\ Same(c))
    BY OthersKept DEF Living
  <2> QED
    BY <2>1
<1>2. CASE Calls(p) \/ Becomes(p) \/ ReadLine(p) \/ HeredocLine(p)
  BY <1>2 DEF Calls, Becomes, ReadLine, HeredocLine, procs
<1>3. CASE WaitEnded(p)
  <2>1. /\ st[Top(p).ref] = "zombie" /\ st' = [st EXCEPT ![Top(p).ref] = "none"]
        /\ ws' = [ws EXCEPT ![Top(p).ref] = 0]
    BY <1>3 DEF WaitEnded, Reapable
  <2>2. c # Top(p).ref => st'[c] = st[c] /\ ws'[c] = ws[c]
    BY <1>1, <2>1
  <2> QED
    BY <1>3, <2>1, <2>2
<1>4. CASE ExecCmd(p) \/ ForkLeft(p) \/ ForkRight(p) \/ HeredocHandler(p)
  <2>1. PICK d \in FreePid : \E a, b : Forks(p, d, a, b)
    BY <1>4, AnyForks
  <2>2. st' = [st EXCEPT ![d] = "run"] /\ st[d] = "none"
    BY <2>1 DEF Forks, FreePid
  <2>3. ws' = ws
    BY <1>4 DEF ExecCmd, ForkLeft, ForkRight, HeredocHandler, Fork
  <2> QED
    BY <1>1, <2>2, <2>3
<1>5. CASE Exits(p)
  <2>1. PICK code \in Nat : Exit(p, code)
    BY <1>5 DEF Exits
  <2>2. /\ st'[c] = IF par[c] = p /\ st[c] = "zombie" THEN "none" ELSE st[c]
        /\ ws'[c] = IF par[c] = p THEN 0 ELSE ws[c]
    BY <2>1, ExitOf
  <2>3. p \notin Living'
    <3>1. st'[p] \in {"none", "zombie"}
      BY <2>1, ExitOf
    <3> QED
      BY <3>1 DEF Living
  <2> QED
    BY <2>2, <2>3
<1> QED
  BY <1>2, <1>3, <1>4, <1>5, StepForms

(* What the writer of a here-document does. *)
LEMMA ScribeForms ==
  ASSUME NEW p \in Pid, Step(p) \/ Types(p), Top(p).op \in ScribeOp
  PROVE  HeredocChild(p) \/ HeredocLine(p) \/ HeredocEnd(p)
<1>1. Top(p).op \in {"heredoc_child", "heredoc_input"}
  BY DEF ScribeOp
<1>2. /\ ~ WaitEnded(p) /\ ~ WaitStopped(p) /\ ~ SigintIgnore(p) /\ ~ SigintRestore(p)
      /\ ~ ChildRestoreSignals(p) /\ ~ ResetData(p) /\ ~ ExecBuiltin(p) /\ ~ ExecCmd(p)
      /\ ~ Execve(p) /\ ~ CommandNotFound(p) /\ ~ PipeSyntaxError(p) /\ ~ PipeHandler(p)
      /\ ~ PipeHeredoc(p) /\ ~ ForkLeft(p) /\ ~ ForkRight(p) /\ ~ ClosePipe(p)
      /\ ~ LeftChild(p) /\ ~ RightChild(p) /\ ~ ChildExit(p)
  BY <1>1 DEF WaitEnded, WaitStopped, SigintIgnore, SigintRestore, ChildRestoreSignals, ResetData,
     ExecBuiltin, Builtin, ExecCmd, External, Execve, CommandNotFound, PipeSyntaxError,
     PipeHandler, PipeHeredoc, ForkLeft, ForkRight, ClosePipe, LeftChild, RightChild, ChildExit, At
<1>3. /\ ~ RedirectionError(p) /\ ~ RedirectionFails(p) /\ ~ OpenFails(p) /\ ~ RdinHandler(p)
      /\ ~ RdoutHandler(p) /\ ~ HeredocHandler(p) /\ ~ HeredocOpen(p) /\ ~ OutOfResources(p)
      /\ ~ ProgramEnds(p) /\ ~ ProgramReads(p) /\ ~ EndOfFile(p) /\ ~ Writes(p) /\ ~ BrokenPipe(p)
      /\ ~ ReadLine(p) /\ ~ EndOfInput(p) /\ ~ TypedEnd(p)
  BY <1>1 DEF RedirectionError, RedirectionFails, OpenFails, RdinHandler, RdoutHandler,
     HeredocHandler, Openable, Redirects, HeredocOpen, OutOfResources, External, ProgramEnds,
     Finished, ProgramReads, Reading, EndOfFile, Writes, Writing, BrokenPipe, ReadLine,
     EndOfInput, TypedEnd, At
<1> QED
  BY <1>2, <1>3 DEF Step, Types

LEMMA OnlyFrame ==
  ASSUME NEW s \in Seq(Frame), Len(s) = 1, NEW f \in Frame
  PROVE  Len(<<f>> \o Tail(s)) = 1 /\ (<<f>> \o Tail(s))[1] = f
<1>1. <<f>> \in Seq(Frame) /\ Len(<<f>>) = 1 /\ <<f>>[1] = f
  OBVIOUS
<1>2. Tail(s) \in Seq(Frame) /\ Len(Tail(s)) = 0
  OBVIOUS
<1> QED
  BY <1>1, <1>2

LEMMA ScribeStep ==
  ASSUME IInv, NEW p \in Pid, Step(p) \/ Types(p), Len(todo[p]) = 1, todo[p][1].op \in ScribeOp,
         par[p] \notin {p, Nobody}
  PROVE  p \in Scribes'
<1>1. /\ st[p] = "run" /\ st \in [Pid -> {"none", "run", "stop", "zombie"}]
      /\ todo \in [Pid -> Seq(Frame)]
  BY Stepping DEF IInv, TypeOK
<1>2. /\ todo[p] \in Seq(Frame) /\ todo[p] # <<>> /\ Top(p) = todo[p][1]
  BY <1>1, RunningFrame
<1>3. CASE HeredocChild(p)
  <2> DEFINE f == On("heredoc_input", 0, 0, Top(p).ref)
  <2>1. todo' = [todo EXCEPT ![p] = <<f>> \o Tail(todo[p])] /\ st' = st
    BY <1>3 DEF HeredocChild, Return, procs
  <2>2. f.op \in ScribeOp
    BY DEF On, ScribeOp
  <2>3. f \in Frame
    BY <1>2, RunningFrame, <1>1 DEF On, Frame, FrameOp
  <2> HIDE DEF f
  <2>5. todo'[p] = <<f>> \o Tail(todo[p])
    BY <1>1, <2>1
  <2>7. Len(todo'[p]) = 1 /\ todo'[p][1] = f
    BY <1>2, <2>3, <2>5, OnlyFrame
  <2> QED
    BY <1>1, <2>1, <2>2, <2>7 DEF Scribes, Living
<1>4. CASE HeredocLine(p)
  <2>1. todo' = todo /\ st' = st
    BY <1>4 DEF HeredocLine, procs
  <2> QED
    BY <1>1, <2>1 DEF Scribes, Living
<1>5. CASE HeredocEnd(p)
  <2>1. Exit(p, Exited(0)) /\ Exited(0) = 0
    BY <1>5 DEF HeredocEnd, Exited
  <2>2. st'[p] = "zombie" /\ ws'[p] = 0
    BY <2>1, ExitOf
  <2> QED
    BY <2>2 DEF Scribes
<1> QED
  BY <1>2, <1>3, <1>4, <1>5, ScribeForms

(* Whoever a process waits for still yields or writes what it waits for. *)
RefsKept(q, p, S, T, v) ==
  \A k \in 1 .. Len(todo[q]) : todo[q][k].op = "wait" /\ (q = p => k # 1) =>
    LET c == todo[q][k].ref IN
    /\ c \in Yielding(S, v) => c \in T \/ (st'[c] = "zombie" /\ ws'[c] = Exited(v))
    /\ c \in Scribes => c \in Scribes'

LEMMA RefKept ==
  ASSUME IInv, Kin, NoneStopped, NEW p \in Pid, Step(p) \/ Types(p), ~ OutOfResources(p),
         NEW S \in SUBSET Living, NEW T, S \cap Living' \subseteq T,
         NEW v, p \in S /\ Ends(p) => Exit(p, Exited(v)),
         NEW q \in Living, q \in Living'
  PROVE  RefsKept(q, p, S, T, v)
<1> SUFFICES ASSUME NEW k \in 1 .. Len(todo[q]), todo[q][k].op = "wait", q = p => k # 1,
                    NEW c, c = todo[q][k].ref
             PROVE  /\ c \in Yielding(S, v) => c \in T \/ (st'[c] = "zombie" /\ ws'[c] = Exited(v))
                    /\ c \in Scribes => c \in Scribes'
  BY DEF RefsKept
<1>1. st[p] = "run" /\ p \in Living /\ q \in Pid /\ ~ WaitStopped(p)
      /\ st \in [Pid -> {"none", "run", "stop", "zombie"}]
  BY Stepping, NotStopping DEF Living, IInv, TypeOK
<1>2. Matched(q) /\ Matched(p)
  BY <1>1 DEF Kin
<1>3. WaitsFor(todo[q], c)
  BY DEF WaitsFor, Awaits
<1>4. c \in Pid /\ par[c] = q /\ st[c] # "none"
  BY <1>2, <1>3 DEF Matched, IsChild
<1>5. ~ (WaitEnded(p) /\ Top(p).ref = c)
  <2> SUFFICES ASSUME WaitEnded(p), Top(p).ref = c  PROVE FALSE
    OBVIOUS
  <2>1. Top(p) = todo[p][1] /\ 1 \in 1 .. Len(todo[p]) /\ Awaits(todo[p][1]) /\ todo[p][1].ref = c
    <3>1. Top(p) = todo[p][1] /\ Len(todo[p]) \in Nat /\ Len(todo[p]) >= 1
      BY <1>1, RunningFrame
    <3>2. Top(p).op = "wait"
      BY DEF WaitEnded, At
    <3> QED
      BY <3>1, <3>2 DEF Awaits
  <2>2. WaitsFor(todo[p], c)
    BY <2>1 DEF WaitsFor
  <2>3. p = q
    BY <1>2, <1>4, <2>2 DEF Matched, IsChild
  <2> QED
    BY <1>2, <2>1, <2>3 DEF Matched, Once, Awaits
<1>6. CASE c = p
  <2>1. q # p => par[p] \notin {p, Nobody}
    BY <1>1, <1>4, <1>6, ProcessAssumption
  <2>2. CASE p \in Living'
    <3>1. p \in S => p \in T
      BY <2>2
    <3>2. p \in Scribes => p \in Scribes'
      <4>1. p \in Scribes => Len(todo[p]) = 1 /\ todo[p][1].op \in ScribeOp
        BY <1>1 DEF Scribes
      <4>2. Len(todo[p]) = 1 => q # p
        OBVIOUS
      <4> QED
        BY <2>1, <4>1, <4>2, ScribeStep
    <3> QED
      BY <1>1, <1>6, <3>1, <3>2 DEF Yielding
  <2>3. CASE p \notin Living'
    <3>1. q # p
      BY <2>3
    <3>2. Exits(p)
      BY <1>1, <2>3, StaysAlive DEF Living
    <3>3. Ends(p)
      BY <3>2, EndForms
    <3>4. p \in S => st'[p] = "zombie" /\ ws'[p] = Exited(v)
      BY <2>1, <3>1, <3>3, ExitOf
    <3>5. p \in Scribes => p \in Scribes'
      <4>1. p \in Scribes => Len(todo[p]) = 1 /\ todo[p][1].op \in ScribeOp
        BY <1>1 DEF Scribes
      <4> QED
        BY <2>1, <3>1, <4>1, ScribeStep
    <3> QED
      BY <1>1, <1>6, <3>4, <3>5 DEF Yielding
  <2> QED
    BY <2>2, <2>3
<1>7. CASE c # p
  <2>1. c \in Living => c \in Living' /\ Same(c)
    BY <1>1, <1>4, <1>7, OthersFate
  <2>2. st[c] = "zombie" => st'[c] = "zombie" /\ ws'[c] = ws[c]
    BY <1>1, <1>4, <1>5, <1>7, OthersFate
  <2>3. c \in S => c \in T
    BY <2>1
  <2>4. c \in Scribes => c \in Scribes'
    BY <1>4, <2>1, <2>2 DEF Scribes, Same
  <2> QED
    BY <2>2, <2>3, <2>4 DEF Yielding
<1> QED
  BY <1>6, <1>7

(* A process of S that does nothing stays good. *)
LEMMA OnlookerKept ==
  ASSUME IInv, NEW q \in Pid, NEW p, NEW S, NEW T, Same(q), Good(q, S), q # p,
         RefsKept(q, p, S, T, Due(mem[q].line))
  PROVE  Good(q, T)'
<1> DEFINE v == Due(mem[q].line)
           Y2 == {c \in Pid : c \in T \/ (st'[c] = "zombie" /\ ws'[c] = Exited(v))}
           s == todo[q]
           m == mem[q]
<1>1. s \in Seq(Frame)
  BY DEF IInv, TypeOK
<1>2. Pays(s, m, Yielding(S, v), Scribes)
  BY DEF Good
<1>3. \A k \in 1 .. Len(s) : s[k].op = "wait" =>
        /\ s[k].ref \in Yielding(S, v) => s[k].ref \in Y2
        /\ s[k].ref \in Scribes => s[k].ref \in Scribes'
  BY DEF RefsKept, Yielding
<1>4. Pays(s, m, Y2, Scribes')
  <2> HIDE DEF s, m, Y2, v
  <2> QED
    BY <1>1, <1>2, <1>3, PaysKept
<1>5. Yielding(T, Due(mem[q].line))' = Y2
  BY DEF Yielding, Same
<1> QED
  BY <1>4, <1>5 DEF Good, Same

(***************************************************************************)
(* The process at work stays good.                                         *)
(***************************************************************************)
LEMMA NoLeftStep ==
  ASSUME IInv, NEW p \in Pid, ~ Holds(todo[p], {"left"}), NEW a, Pushes(p, a)
  PROVE  ~ Holds(todo'[p], {"left"})
<1> DEFINE s == todo[p]
           t == todo'[p]
           O == {"left"}
<1>1. s \in Seq(Frame) /\ s # <<>> /\ a \in Seq(Frame) /\ t = a \o Tail(s)
  BY RunningFrame DEF Pushes
<1>2. ~ Holds(a, O)
  BY DEF Pushes, OnlyOps, PushedOp, Holds
<1>3. ~ Holds(s, O)
  OBVIOUS
<1> HIDE DEF s, t, O
<1>4. Holds(t, O) <=> Holds(a, O) \/ HoldsBelow(s, O)
  BY <1>1, HoldsPush
<1>5. HoldsBelow(s, O) => Holds(s, O)
  BY <1>1, HoldsTop
<1>6. ~ Holds(t, O)
  BY <1>2, <1>3, <1>4, <1>5
<1> QED
  BY <1>6 DEF t, O

LEMMA OutOKStep ==
  ASSUME IInv, Separate, NEW p \in Pid, OutOK(todo[p], mem[p], fd[p]),
         ~ Holds(todo[p], {"left"}), Top(p).op # "heredoc_child", Step(p) \/ Types(p),
         ~ ReadLine(p), st'[p] \in {"run", "stop"}, NEW a, Pushes(p, a)
  PROVE  OutOK(todo'[p], mem'[p], fd'[p])
<1> DEFINE s == todo[p]
           t == todo'[p]
           m == mem[p]
           f == fd[p]
           n == mem'[p]
           g == fd'[p]
<1>1. st[p] = "run" /\ p \in Living /\ f \in Descriptors /\ Unshared(s, m, f)
  BY DEF Pushes, Living, Separate, IInv, TypeOK
<1>2. Top(p) = s[1] /\ s \in Seq(Frame) /\ s # <<>> /\ Len(s) \in Nat /\ Len(s) >= 1
  BY <1>1, RunningFrame
<1>3. s[1].op # "left"
  BY <1>2 DEF Holds
<1>4. f.out \in PipeId => f.out = m.w /\ Holds(s, LeftEnd)
  BY DEF OutOK
<1>5. Holds(s, LeftEnd) => s[1].op = "heredoc_left_end" \/ HoldsBelow(s, LeftEnd)
  BY <1>2, HoldsTop DEF LeftEnd
<1>6. ~ PipeHandler(p) => (HoldsBelow(s, LeftEnd) => Holds(t, LeftEnd))
  BY <1>1, PushShape
<1>7. CASE PipeHandler(p) \/ ClosePipe(p) \/ RightChild(p)
  <2>1. g.out = f.out
    <3>1. CASE PipeHandler(p)
      <4>1. PICK q \in FreePipe :
              fd' = [fd EXCEPT ![p].rd = @ \cup {q}, ![p].wr = @ \cup {q}]
        BY <3>1 DEF PipeHandler
      <4> QED
        BY <4>1, <1>1 DEF IInv, TypeOK, Descriptors
    <3>2. CASE ClosePipe(p) \/ RightChild(p)
      BY <3>2, <1>1 DEF ClosePipe, RightChild, IInv, TypeOK, Descriptors
    <3> QED
      BY <1>7, <3>1, <3>2
  <2>2. /\ PipeHandler(p) => Top(p).op = "bst" /\ KindAt(p) = "PIPE"
        /\ ClosePipe(p) => Top(p).op = "close_pipe"
        /\ RightChild(p) => Top(p).op = "right"
    BY DEF PipeHandler, ClosePipe, RightChild, At
  <2>3. ~ PipeBelow(s)
    <3>1. CASE PipeHandler(p)
      BY <3>1, <1>1, <2>2, PipeIsOutermost
    <3>2. CASE ClosePipe(p) \/ RightChild(p)
      BY <3>2, <1>1, <2>2, RunningFrame DEF KeepsPipe
    <3> QED
      BY <1>7, <3>1, <3>2
  <2>4. ~ Holds(s, LeftEnd)
    BY <1>2, <1>5, <1>7, <2>2, <2>3 DEF LeftEnd, HoldsBelow, PipeBelow, PipeOp
  <2> QED
    BY <1>4, <2>1, <2>4 DEF OutOK
<1>8. CASE Calm(p)
  <2>1. n.w = m.w /\ (g.out = f.out \/ g.out \notin PipeId)
        /\ (s[1].op = "heredoc_left_end" => g.out \notin PipeId) /\ ~ PipeHandler(p)
    BY <1>2, <1>8 DEF Calm
  <2> HIDE DEF s, t, m, f, n, g
  <2>2. OutOK(t, n, g)
    BY <1>4, <1>5, <1>6, <2>1 DEF OutOK
  <2> QED
    BY <2>2 DEF t, n, g
<1>9. CASE PipeHeredoc(p) /\ Top(p).op \in DupOp
  <2>1. /\ mem' = mem /\ ~ PipeHandler(p)
        /\ \/ s[1].op = "heredoc_left" /\ fd' = [fd EXCEPT ![p].out = m.w]
           \/ s[1].op = "heredoc_right" /\ fd' = [fd EXCEPT ![p].in = m.r]
    BY <1>2, <1>9 DEF PipeHeredoc, PipeHandler, At, DupOp
  <2>2. /\ s[1].op = "heredoc_left" => g.out = m.w
        /\ s[1].op = "heredoc_right" => g.out = f.out
        /\ s[1].op \in {"heredoc_left", "heredoc_right"}
    BY <1>1, <2>1 DEF IInv, TypeOK, Descriptors
  <2>3. 3 \in 2 .. Len(s) /\ Between(s[1], s[2], s[3], m.line)
    BY <1>1, <1>9, DupFrames
  <2>4. s[1].op = "heredoc_left" => HoldsBelow(s, LeftEnd)
    BY <2>3 DEF Between, HoldsBelow, LeftEnd
  <2>5. n = m
    BY <2>1
  <2> HIDE DEF s, t, m, f, n, g
  <2>6. OutOK(t, n, g)
    BY <1>4, <1>5, <1>6, <2>1, <2>2, <2>4, <2>5 DEF OutOK
  <2> QED
    BY <2>6 DEF t, n, g
<1>10. ~ LeftChild(p) /\ ~ HeredocChild(p)
  BY <1>2, <1>3 DEF LeftChild, HeredocChild, At
<1> QED
  BY <1>7, <1>8, <1>9, <1>10, CalmForms

LEMMA EndsExit ==
  ASSUME NEW p \in Pid, Ends(p)  PROVE p \notin Living'
<1>1. \E code : Exit(p, code)
  BY DEF Ends, CommandNotFound, ChildExit, OpenFails, ProgramEnds, EndOfFile, BrokenPipe,
     EndOfInput, HeredocEnd, TypedEnd, ResetData
<1>2. st'[p] \in {"none", "zombie"}
  BY <1>1, ExitOf
<1> QED
  BY <1>2 DEF Living

(* sigint_restore() and waitpid() set g_exit_status. *)
LEMMA FinishForms ==
  ASSUME IInv, NoneStopped, NEW p \in Pid, Step(p) \/ Types(p), p \in Living'
  PROVE  /\ Top(p).op = "restore" => SigintRestore(p)
         /\ Top(p).op = "wait" => WaitEnded(p)
<1>1. st[p] = "run" /\ st'[p] \in {"run", "stop"} /\ ~ WaitStopped(p)
  BY Stepping, NotStopping DEF Living
<1>2. Top(p).op = "restore" => SigintRestore(p)
  <2>1. SigintIgnore(p) => Top(p).op = "ignore"
    BY DEF SigintIgnore, At
  <2> QED
    BY <1>1, <2>1, SignalForms
<1>3. ASSUME Top(p).op = "wait"  PROVE WaitEnded(p)
  <2>1. ~ Calls(p) /\ ~ Becomes(p)
    BY <1>3 DEF Calls, Becomes, LastOp, ProgramOp, ProgramKind
  <2>2. /\ ~ ReadLine(p) /\ ~ ExecCmd(p) /\ ~ ForkLeft(p) /\ ~ ForkRight(p)
        /\ ~ HeredocHandler(p) /\ ~ HeredocLine(p)
    BY <1>3 DEF ReadLine, ExecCmd, External, ForkLeft, ForkRight, HeredocHandler, Openable,
       Redirects, HeredocLine, At
  <2>3. ~ Exits(p)
    <3>1. Exits(p) => st'[p] \in {"none", "zombie"}
      BY ExitOf DEF Exits
    <3> QED
      BY <1>1, <3>1
  <2> QED
    BY <1>1, <2>1, <2>2, <2>3, StepForms
<1> QED
  BY <1>2, <1>3

(* A process that waits for the status ... *)
LEMMA WaiterPays ==
  ASSUME IInv, NoneStopped, NEW p \in Pid, Step(p) \/ Types(p), p \in Living', ~ ReadLine(p),
         Fine(mem[p].line), NEW S \in SUBSET Living, NEW v, v = Due(mem[p].line),
         NEW i \in 2 .. Len(todo[p]),
         Delivers(todo[p], mem[p], i, Yielding(S, v), Scribes), Rest(todo[p], mem[p], i),
         NEW T, RefsKept(p, p, S, T, v), NEW a, Pushes(p, a)
  PROVE  /\ mem'[p].line = mem[p].line
         /\ Pays(todo'[p], mem'[p],
                 {c \in Pid : c \in T \/ (st'[c] = "zombie" /\ ws'[c] = Exited(v))}, Scribes')
<1> DEFINE s == todo[p]
           t == todo'[p]
           m == mem[p]
           n == mem'[p]
           Y == Yielding(S, v)
           Y2 == {c \in Pid : c \in T \/ (st'[c] = "zombie" /\ ws'[c] = Exited(v))}
<1>1. /\ st[p] = "run" /\ s \in Seq(Frame) /\ s # <<>> /\ a \in Seq(Frame) /\ t = a \o Tail(s)
      /\ Top(p) = s[1] /\ mem \in [Pid -> Memory] /\ m.line \in Lines \cup {<<>>}
      /\ a # <<>> => s[1].op \in PushingOp
  BY RunningFrame DEF Pushes, IInv, TypeOK
<1>2. n.line = m.line
  BY ArgForms DEF Living
<1>3. v \in 0 .. 255
  BY <1>1, FineLine
<1>4. s[1].op \in {"wait", "restore"} => a = <<>>
  BY <1>1 DEF PushingOp, LastOp, ProgramOp, ProgramKind
<1>5. s[1].op = "restore" => n.g = ExitStatus(m.g)
  <2>1. s[1].op = "restore" => mem' = [mem EXCEPT ![p].g = ExitStatus(@)]
    BY <1>1, FinishForms DEF SigintRestore
  <2> QED
    BY <1>1, <2>1 DEF Memory
<1>6. ASSUME s[1].op = "wait"
      PROVE  /\ s[1].ref \in Y => ExitStatus(n.g) = v
             /\ s[1].ref \in Scribes => ExitStatus(n.g) = 0
  <2> DEFINE c == s[1].ref
  <2>1. /\ st[c] = "zombie" /\ mem' = [mem EXCEPT ![p].g = ws[c]]
    BY <1>1, <1>6, FinishForms DEF WaitEnded, Reapable
  <2>2. n.g = ws[c]
    BY <1>1, <2>1 DEF Memory
  <2>3. c \notin S /\ c \notin Living
    BY <2>1 DEF Living
  <2>4. c \in Y => ws[c] = Exited(v)
    BY <2>3 DEF Yielding
  <2>5. c \in Scribes => ws[c] = 0
    BY <2>3 DEF Scribes
  <2>6. ExitStatus(0) = 0
    BY DEF ExitStatus
  <2>7. ExitStatus(Exited(v)) = v
    BY <1>3, ExitKept
  <2> QED
    BY <2>2, <2>4, <2>5, <2>6, <2>7
<1>7. Finishes(s, m, n, a, Y, Scribes)
  <2>1. Due(n.line) = v
    BY <1>2
  <2> HIDE DEF s, m, n, Y
  <2> QED
    BY <1>4, <1>5, <1>6, <2>1 DEF Finishes
<1>8. Heirs(s, Y, Y2) /\ Heirs(s, Scribes, Scribes')
  <2> SUFFICES ASSUME NEW k \in 2 .. Len(s), s[k].op = "wait"
               PROVE  /\ s[k].ref \in Y => s[k].ref \in Y2
                      /\ s[k].ref \in Scribes => s[k].ref \in Scribes'
    BY DEF Heirs
  <2>1. k \in 1 .. Len(s) /\ k # 1
    OBVIOUS
  <2> QED
    BY <2>1 DEF RefsKept, Yielding
<1>9. Delivers(s, m, i, Y, Scribes) /\ Rest(s, m, i) /\ i \in 2 .. Len(s)
  OBVIOUS
<1>10. Pays(t, n, Y2, Scribes')
  <2> HIDE DEF s, t, m, n, Y, Y2
  <2> QED
    BY <1>1, <1>2, <1>7, <1>8, <1>9, PaysBelow
<1> QED
  BY <1>2, <1>10

(* ... and one that owes it. *)
LEMMA DebtorPays ==
  ASSUME IInv, NEW p \in Pid, Debtor(p), NEW a \in Seq(Frame),
         todo'[p] = a \o Tail(todo[p]), mem'[p].line = mem[p].line,
         NEW Y, NEW W, Pays(a, mem'[p], Y, W)
  PROVE  Pays(todo'[p], mem'[p], Y, W)
<1> DEFINE s == todo[p]
           t == todo'[p]
           m == mem[p]
           n == mem'[p]
<1>1. /\ s \in Seq(Frame) /\ s # <<>> /\ t = a \o Tail(s) /\ n.line = m.line
      /\ Rest(s, m, 1) /\ Pays(a, n, Y, W)
  BY RunningFrame DEF Debtor
<1> HIDE DEF s, t, m, n
<1>2. Pays(t, n, Y, W)
  BY <1>1, PaysTop
<1> QED
  BY <1>2 DEF t, n

(* A new process of S. *)
LEMMA HeirGood ==
  ASSUME IInv, NEW p \in Pid, NEW c \in Pid, fd[p].out \notin PipeId, fd'[c].out = fd[p].out,
         ~ Holds(todo'[c], {"left"}), \A Y, W : Pays(todo'[c], mem'[c], Y, W), NEW T
  PROVE  Good(c, T)'
<1>1. OutOK(todo'[c], mem'[c], fd'[c])
  BY DEF OutOK
<1>2. Pays(todo'[c], mem'[c], Yielding(T, Due(mem[c].line))', Scribes')
  OBVIOUS
<1> QED
  BY <1>1, <1>2 DEF Good

(* The process at work, with the children of N that it forks for the status. *)
Carried(p, N) ==
  /\ \A c \in N : st'[c] = "run" /\ mem'[c].line = mem[p].line /\ fd'[c].out = fd[p].out
                  /\ ~ Holds(todo'[c], {"left"}) /\ \A Y, W : Pays(todo'[c], mem'[c], Y, W)
  /\ N # {} => fd[p].out \notin PipeId

LEMMA WorkerKept ==
  ASSUME IInv, Kin, NoLoop, Separate, Company, NEW p \in Pid, Step(p) \/ Types(p), p \in Living',
         ~ ReadLine(p), ~ OutOfResources(p), Fine(mem[p].line), NEW S \in SUBSET Living, p \in S,
         Good(p, S)
  PROVE  \E N \in SUBSET FreePid :
           /\ Carried(p, N) /\ mem'[p].line = mem[p].line
           /\ \A T : (S \cap Living') \cup N \subseteq T => Good(p, T)'
<1> DEFINE v == Due(mem[p].line)
           Y(T) == {c \in Pid : c \in T \/ (st'[c] = "zombie" /\ ws'[c] = Exited(v))}
<1>1. /\ st[p] = "run" /\ p \in Living /\ NoneStopped /\ DocThere /\ ~ WaitStopped(p) /\ ~ Ends(p)
      /\ OutOK(todo[p], mem[p], fd[p]) /\ ~ Holds(todo[p], {"left"})
  BY Stepping, NotStopping, EndsExit DEF Living, Company, Good
<1>2. mem'[p].line = mem[p].line
  BY ArgForms DEF Living
<1>3. ASSUME NEW T, Pays(todo'[p], mem'[p], Y(T), Scribes'),
             ~ Holds(todo'[p], {"left"}), OutOK(todo'[p], mem'[p], fd'[p])
      PROVE  Good(p, T)'
  <2>1. Yielding(T, Due(mem[p].line))' = Y(T)
    BY <1>2 DEF Yielding
  <2> QED
    BY <1>3, <2>1 DEF Good
<1>4. ASSUME NEW a, Pushes(p, a), Top(p).op # "heredoc_child"
      PROVE  ~ Holds(todo'[p], {"left"}) /\ OutOK(todo'[p], mem'[p], fd'[p])
  BY <1>1, <1>4, NoLeftStep, OutOKStep DEF Living
<1>5. Debtor(p) \/ \E i \in 2 .. Len(todo[p]) :
                     /\ Delivers(todo[p], mem[p], i, Yielding(S, v), Scribes)
                     /\ Rest(todo[p], mem[p], i)
  BY <1>1, GoodForms
<1>6. ASSUME Top(p).op # "heredoc_input"  PROVE \E a : Pushes(p, a)
  <2>1. ~ HeredocLine(p)
    BY <1>6 DEF HeredocLine, At
  <2> QED
    BY <1>1, <2>1, StackForms DEF Living
<1>7. CASE Debtor(p)
  <2>1. Top(p).op \notin {"heredoc_child", "heredoc_input"}
    BY <1>7, OwesByOp DEF Debtor
  <2>2. ~ Holds(todo'[p], {"left"}) /\ OutOK(todo'[p], mem'[p], fd'[p])
    BY <1>4, <1>6, <2>1
  <2>3. Repays(p)
    BY <1>1, <1>7, DebtorStep
  <2>4. PICK a \in Seq(Frame), N \in SUBSET FreePid :
          /\ todo'[p] = a \o Tail(todo[p]) /\ mem'[p].line = mem[p].line
          /\ \A Z, W : N \subseteq Z /\ Scribes' \subseteq W => Pays(a, mem'[p], Z, W)
          /\ \A c \in N :
               /\ st'[c] = "run" /\ mem'[c].line = mem[p].line /\ fd'[c].out = fd[p].out
               /\ ~ Holds(todo'[c], {"left"}) /\ \A Z, W : Pays(todo'[c], mem'[c], Z, W)
    BY <2>3 DEF Repays
  <2>5. Carried(p, N)
    BY <1>1, <1>7, <2>4, DebtorOut DEF Carried
  <2>6. ASSUME NEW T, (S \cap Living') \cup N \subseteq T  PROVE Good(p, T)'
    <3>1. N \subseteq Y(T)
      BY <2>6 DEF FreePid
    <3>2. Pays(a, mem'[p], Y(T), Scribes')
      BY <2>4, <3>1
    <3>3. Pays(todo'[p], mem'[p], Y(T), Scribes')
      <4> HIDE DEF Y
      <4> QED
        BY <1>7, <2>4, <3>2, DebtorPays
    <3> QED
      BY <1>3, <2>2, <3>3
  <2> QED
    BY <1>2, <2>5, <2>6
<1>8. ASSUME NEW i \in 2 .. Len(todo[p]),
             Delivers(todo[p], mem[p], i, Yielding(S, v), Scribes), Rest(todo[p], mem[p], i)
      PROVE  Carried(p, {}) /\ \A T : S \cap Living' \subseteq T => Good(p, T)'
  <2>1. Top(p).op \notin {"heredoc_child", "heredoc_input"}
    <3>1. Len(todo[p]) # 1
      <4>1. \A n \in Nat : 2 .. n # {} => n # 1
        OBVIOUS
      <4>2. Len(todo[p]) \in Nat /\ 2 .. Len(todo[p]) # {}
        BY <1>1, RunningFrame
      <4> QED
        BY <4>1, <4>2
    <3> QED
      BY <1>1, <3>1, RunningFrame DEF LastOp
  <2>2. PICK a : Pushes(p, a)
    BY <1>6, <2>1
  <2>3. ASSUME NEW T, S \cap Living' \subseteq T  PROVE Good(p, T)'
    <3>1. RefsKept(p, p, S, T, v)
      <4> HIDE DEF v
      <4> QED
        BY <1>1, <2>3, RefKept
    <3>2. Pays(todo'[p], mem'[p], Y(T), Scribes')
      BY <1>1, <1>8, <2>2, <3>1, WaiterPays
    <3> QED
      BY <1>3, <1>4, <2>1, <2>2, <3>2
  <2> QED
    BY <2>3 DEF Carried
<1>9. {} \in SUBSET FreePid
  OBVIOUS
<1> QED
  BY <1>2, <1>5, <1>7, <1>8, <1>9

(***************************************************************************)
(* A step of any process, while the line lasts.                            *)
(***************************************************************************)
LEMMA PresentForms ==
  ASSUME NEW p \in Pid, Step(p) \/ Types(p)
  PROVE  present' = present \/ RdoutHandler(p)
<1>1. ASSUME \/ WaitEnded(p) \/ WaitStopped(p) \/ SigintIgnore(p) \/ SigintRestore(p)
             \/ ChildRestoreSignals(p) \/ ExecBuiltin(p) \/ ExecCmd(p) \/ Execve(p)
             \/ CommandNotFound(p) \/ PipeSyntaxError(p) \/ PipeHandler(p) \/ ResetData(p)
             \/ PipeHeredoc(p) \/ ForkLeft(p) \/ ForkRight(p) \/ ClosePipe(p) \/ ReadLine(p)
      PROVE  present' = present
  BY <1>1 DEF WaitEnded, WaitStopped, SigintIgnore, SigintRestore, ChildRestoreSignals,
     ExecBuiltin, ExecCmd, Execve, CommandNotFound, PipeSyntaxError, PipeHandler, ResetData,
     PipeHeredoc, ForkLeft, ForkRight, ClosePipe, ReadLine, disk
<1>2. ASSUME \/ LeftChild(p) \/ RightChild(p) \/ ChildExit(p) \/ RedirectionError(p)
             \/ RedirectionFails(p) \/ OpenFails(p) \/ RdinHandler(p)
             \/ HeredocHandler(p) \/ HeredocOpen(p) \/ HeredocChild(p) \/ OutOfResources(p)
             \/ ProgramEnds(p) \/ ProgramReads(p) \/ EndOfFile(p) \/ Writes(p)
             \/ BrokenPipe(p) \/ EndOfInput(p) \/ HeredocLine(p) \/ HeredocEnd(p)
             \/ TypedEnd(p)
      PROVE  present' = present
  BY <1>2 DEF LeftChild, RightChild, ChildExit, RedirectionError, RedirectionFails,
     OpenFails, RdinHandler, HeredocHandler, HeredocOpen, HeredocChild,
     OutOfResources, ProgramEnds, ProgramReads, EndOfFile, Writes, BrokenPipe, EndOfInput,
     HeredocLine, HeredocEnd, TypedEnd, disk
<1> QED
  BY <1>1, <1>2 DEF Step, Types

(* A file that a line creates is not one that it reads. *)
LEMMA FineBefore ==
  ASSUME IInv, NEW p \in Pid, Step(p) \/ Types(p), NEW line, line = mem[p].line, Fine(line)'
  PROVE  Fine(line)
<1> DEFINE read == {line[i].w : i \in {j \in DOMAIN line : TypeAssign(line[j]) = "RDIN"}}
<1>1. /\ WellFormed(line) /\ Prog[CommandOf(line, LastStage(line))].k # "exit"
      /\ (read \cup Files(line, ">")) \cap Denied = {}
      /\ read \subseteq present' /\ read \cap Files(line, ">") = {}
  BY DEF Fine, Opens
<1>2. CASE present' = present
  BY <1>1, <1>2 DEF Fine, Opens
<1>3. CASE RdoutHandler(p)
  <2>1. /\ Top(p).op = "bst" /\ KindAt(p) \in {"RDOUT", "RDAPP"} /\ st[p] = "run"
        /\ present' = present \cup {Target(p)}
    BY <1>3 DEF RdoutHandler, Openable, Redirects, At
  <2>2. /\ RootAt(p) \in 1 .. Len(line) /\ RootToken(p) = line[RootAt(p)]
        /\ RootFacts(line, Top(p).lo, Top(p).hi, RootAt(p), KindAt(p)) /\ line \in Lines \cup {<<>>}
    BY <2>1, NodeTokens DEF NodeOp, RootToken
  <2>3. line[RootAt(p)].c = ">"
    BY <2>1, <2>2 DEF RootFacts
  <2>4. Target(p) \in Files(line, ">")
    BY <2>2, <2>3 DEF Files, TokensOf, Target
  <2>5. read \subseteq present
    BY <1>1, <2>1, <2>4
  <2> QED
    BY <1>1, <2>5 DEF Fine, Opens
<1> QED
  BY <1>2, <1>3, PresentForms

LEMMA SpineStep ==
  ASSUME IInv, Kin, NoLoop, Separate, Company, NEW p \in Pid, Step(p) \/ Types(p),
         ~ ReadLine(p), ~ OutOfResources(p), Shell \in Living', Fine(mem[Shell].line),
         NEW S \in SUBSET Living, SpineOf(S)
  PROVE  \E T \in SUBSET Living' : SpineOf(T)'
<1> DEFINE line == mem[Shell].line
           v == Due(line)
<1>1. /\ st[p] = "run" /\ p \in Living /\ NoneStopped /\ ~ WaitStopped(p)
      /\ st \in [Pid -> {"none", "run", "stop", "zombie"}]
      /\ S \subseteq Pid /\ Shell \in S /\ Shell \in Living /\ (Shell # p \/ p \in Living')
  BY Stepping, NotStopping DEF Living, Company, SpineOf, IInv, TypeOK
<1>2. \A q \in Living : mem[q].line = line
  BY <1>1 DEF Company, SameLine, SpineOf
<1>3. p \in S /\ Ends(p) => Exit(p, Exited(v))
  <2> SUFFICES ASSUME p \in S, Ends(p)  PROVE Exit(p, Exited(v))
    OBVIOUS
  <2>1. p # Shell
    BY EndsExit
  <2>2. Good(p, S) /\ mem[p].line = line
    BY <1>1, <1>2 DEF SpineOf
  <2> QED
    BY <1>1, <2>1, <2>2, GoodEnds
<1>4. ASSUME NEW T, S \cap Living' \subseteq T, NEW q \in S, q \in Living', q # p
      PROVE  Good(q, T)'
  <2>1. q \in Living /\ q \in Pid /\ mem[q].line = line /\ Good(q, S)
    BY <1>2, <1>4 DEF Living, SpineOf
  <2>2. Same(q)
    BY <1>1, <1>4, <2>1, OthersFate
  <2>3. RefsKept(q, p, S, T, v)
    <3> HIDE DEF v
    <3> QED
      BY <1>1, <1>3, <1>4, <2>1, RefKept
  <2> QED
    BY <1>4, <2>1, <2>2, <2>3, OnlookerKept
<1>5. CASE p \in S /\ p \in Living'
  <2>1. Good(p, S) /\ Fine(mem[p].line)
    BY <1>1, <1>2, <1>5 DEF SpineOf
  <2>2. PICK N \in SUBSET FreePid :
          /\ Carried(p, N) /\ mem'[p].line = mem[p].line
          /\ \A T : (S \cap Living') \cup N \subseteq T => Good(p, T)'
    BY <1>5, <2>1, WorkerKept
  <2>5. PICK T : T = (S \cap Living') \cup N
    OBVIOUS
  <2>3. T \subseteq Living' /\ Shell \in T
    <3>1. N \subseteq Living'
      BY <2>2 DEF Carried, Living, FreePid
    <3> QED
      BY <1>1, <2>5, <3>1
  <2>4. ASSUME NEW q \in T  PROVE Good(q, T)'
    <3>1. CASE q = p
      BY <2>2, <2>5, <3>1
    <3>2. CASE q \in N
      BY <2>2, <3>2, HeirGood DEF Carried, FreePid
    <3>3. CASE q \in S \cap Living' /\ q # p
      BY <1>4, <2>5, <3>3
    <3> QED
      BY <2>4, <2>5, <3>1, <3>2, <3>3
  <2> QED
    BY <2>3, <2>4 DEF SpineOf
<1>6. CASE ~ (p \in S /\ p \in Living')
  <2>3. PICK T : T = S \cap Living'
    OBVIOUS
  <2>1. T \subseteq Living' /\ Shell \in T
    BY <1>1, <2>3
  <2>2. ASSUME NEW q \in T  PROVE Good(q, T)'
    BY <1>4, <1>6, <2>2, <2>3
  <2> QED
    BY <2>1, <2>2 DEF SpineOf
<1> QED
  BY <1>5, <1>6

(* A line that has just been read: the shell alone is to run it. *)
LEMMA SpineReadLine ==
  ASSUME IInv, NoLoop, Home, NEW p \in Pid, ReadLine(p), Fine(mem[Shell].line)'
  PROVE  \E T \in SUBSET Living' : SpineOf(T)'
<1>1. st[p] = "run" /\ Top(p).op = "prompt" /\ p \in Living
  BY DEF ReadLine, At, Living
<1>2. p = Shell
  BY <1>1, AtPromptTop
<1> DEFINE s == todo[Shell]
           t == todo'[Shell]
           b == Do("reset")
<1>3. /\ Len(s) = 1 /\ s[1].op = "prompt" /\ s \in Seq(Frame) /\ todo \in [Pid -> Seq(Frame)]
      /\ mem \in [Pid -> Memory] /\ Shell \in Pid
  BY <1>2, ReadLinePushes DEF IInv, TypeOK
<1>4. PICK line \in Lines :
        /\ mem' = [mem EXCEPT ![Shell].line = line]
        /\ todo' = [todo EXCEPT ![Shell] = Bst(1, Len(line)) \o <<b>> \o s]
  BY <1>2 DEF ReadLine
<1>5. mem'[Shell].line = line /\ t = Bst(1, Len(line)) \o <<b>> \o s
  BY <1>3, <1>4 DEF Memory
<1>6. WellFormed(line)
  BY <1>5 DEF Fine
<1>7. Last(line) \in 1 .. Len(line) /\ Len(line) \in Nat
  BY <1>6, LineShaped, LineType DEF Shaped
<1> DEFINE f == On("bst", 1, Len(line), Nobody)
<1>8. /\ f.op = "bst" /\ f.lo = 1 /\ f.hi = Len(line) /\ f \in Frame
      /\ b.op = "reset" /\ b \in Frame
  BY <1>7 DEF On, Do, Frame, FrameOp
<1>9. Bst(1, Len(line)) = <<f>>
  BY <1>7 DEF Bst
<1> HIDE DEF f, b
<1>10. Earns(f, line)
  BY <1>7, <1>8 DEF Earns, Carries, Starts
<1> DEFINE u == <<f>>
           v == <<b>>
<1>11. /\ u \in Seq(Frame) /\ Earner(u, line)
       /\ v \in Seq(Frame) /\ \A i \in 1 .. Len(v) : Neutral(v[i], line)
  <2>1. u \in Seq(Frame) /\ Earner(u, line)
    BY <1>8, <1>10, EarnerOne
  <2>2. v \in Seq(Frame) /\ Len(v) = 1 /\ v[1] = b
    BY <1>8
  <2>3. Neutral(b, line)
    BY <1>8 DEF Neutral
  <2> HIDE DEF v
  <2> QED
    BY <2>1, <2>2, <2>3
<1>12. t = (u \o v) \o s
  BY <1>5, <1>9
<1>13. \A i \in 1 .. Len(s) : Neutral(s[i], line)
  BY <1>3 DEF Neutral
<1> HIDE DEF u, v, s, t
<1>14. u \o v \in Seq(Frame) /\ Earner(u \o v, line)
  BY <1>11, EarnerConcat
<1> DEFINE w == u \o v
<1>15. Earner(t, line)
  <2>1. w \in Seq(Frame) /\ Earner(w, line) /\ t = w \o s
    BY <1>12, <1>14
  <2> HIDE DEF w
  <2> QED
    BY <1>3, <1>13, <2>1, EarnerConcat DEF s
<1>16. \A Y, W : Pays(todo'[Shell], mem'[Shell], Y, W)
  <2>1. Earner(t, mem'[Shell].line)
    BY <1>5, <1>15
  <2> QED
    BY <2>1, EarnerPays DEF t
<1>17. ~ Holds(todo'[Shell], {"left"})
  BY <1>2, ShellStackReadLine DEF OnlyOps, Holds
<1>18. fd'[Shell].out \notin PipeId
  <2>1. fd' = fd
    BY DEF ReadLine
  <2>2. fd[Shell].out = Tty
    BY <1>1, <1>2, <1>3 DEF Home, Owned, s
  <2> QED
    BY <2>1, <2>2, NotPipes
<1>19. Shell \in Living'
  BY <1>1, <1>2 DEF ReadLine, procs, Living
<1>20. \A T : Good(Shell, T)'
  <2> SUFFICES ASSUME NEW T  PROVE Good(Shell, T)'
    OBVIOUS
  <2>1. OutOK(todo'[Shell], mem'[Shell], fd'[Shell])
    BY <1>18 DEF OutOK
  <2>2. Pays(todo'[Shell], mem'[Shell], Yielding(T, Due(mem[Shell].line))', Scribes')
    BY <1>16
  <2> QED
    BY <1>17, <2>1, <2>2 DEF Good
<1>21. PICK T : T = {Shell}
  OBVIOUS
<1> QED
  BY <1>19, <1>20, <1>21 DEF SpineOf

LEMMA SpineInit == Init => Spine
<1> SUFFICES ASSUME Init  PROVE ~ WellFormed(mem[Shell].line)
  BY DEF Spine, Fine
<1>1. mem[Shell].line = <<>>
  BY ProcessAssumption DEF Init, Blank
<1> QED
  BY <1>1 DEF WellFormed

LEMMA SpineSame ==
  ASSUME Spine, UNCHANGED vars  PROVE Spine'
<1>1. /\ st' = st /\ todo' = todo /\ mem' = mem /\ fd' = fd /\ ws' = ws
      /\ present' = present /\ nsig' = nsig
  BY DEF vars, procs, disk, user
<1>2. Living' = Living /\ Scribes' = Scribes
  BY <1>1 DEF Living, Scribes
<1>3. Fine(mem[Shell].line)' <=> Fine(mem[Shell].line)
  BY <1>1 DEF Fine, Opens
<1>4. ASSUME NEW S, NEW q  PROVE Good(q, S) => Good(q, S)'
  <2>1. Yielding(S, Due(mem[q].line))' = Yielding(S, Due(mem[q].line))
    BY <1>1 DEF Yielding
  <2> QED
    BY <1>1, <1>2, <2>1 DEF Good, OutOK
<1> QED
  BY <1>1, <1>2, <1>3, <1>4 DEF Spine, SpineOf

LEMMA SpineKeptStep ==
  ASSUME IInv, Kin, NoLoop, Home, Separate, Company, Spine, nsig = 0,
         NEW p \in Pid, Step(p) \/ Types(p), ~ OutOfResources(p),
         Shell \in Living', Fine(mem[Shell].line)'
  PROVE  \E T \in SUBSET Living' : SpineOf(T)'
<1>1. CASE ReadLine(p)
  BY <1>1, SpineReadLine
<1>2. CASE ~ ReadLine(p)
  <2>1. st[p] = "run" /\ p \in Living /\ Shell \in Living /\ (p # Shell => Same(Shell))
    BY LivedOn, Stepping DEF Living
  <2>2. mem'[Shell].line = mem[Shell].line
    <3>1. CASE p = Shell
      <4>1. st'[p] \in {"run", "stop"}
        BY <3>1 DEF Living
      <4> QED
        BY <1>2, <3>1, <4>1, ArgForms
    <3>2. CASE p # Shell
      BY <2>1, <3>2 DEF Same
    <3> QED
      BY <3>1, <3>2
  <2>3. PICK line : line = mem[Shell].line
    OBVIOUS
  <2>4. line = mem[p].line /\ mem'[Shell].line = line
    BY <2>1, <2>2, <2>3 DEF Company, SameLine
  <2>5. Fine(line)'
    BY <2>4 DEF Fine, Opens
  <2>6. Fine(mem[Shell].line)
    BY <2>3, <2>4, <2>5, FineBefore
  <2>7. PICK S \in SUBSET Living : SpineOf(S)
    BY <2>1, <2>6 DEF Spine, SpineOf
  <2> QED
    BY <1>2, <2>6, <2>7, SpineStep
<1> QED
  BY <1>1, <1>2

LEMMA SpineNext ==
  IInv /\ Kin /\ NoLoop /\ Home /\ Separate /\ Accompanied /\ Spine /\ [Next]_vars /\ [Enough]_vars
    => Spine'
<1> SUFFICES ASSUME IInv, Kin, NoLoop, Home, Separate, Accompanied, Spine, [Next]_vars, [Enough]_vars
             PROVE  Spine'
  OBVIOUS
<1>1. CASE UNCHANGED vars
  BY <1>1, SpineSame
<1>2. ASSUME NEW p \in Pid, Step(p) \/ Types(p), Enough  PROVE Spine'
  <2> SUFFICES ASSUME nsig' = 0, Shell \in Living', Fine(mem[Shell].line)'
               PROVE  \E T \in SUBSET Living' : SpineOf(T)'
    BY DEF Spine, SpineOf
  <2>1. nsig = 0
    BY <1>2, UserKept
  <2>2. ~ OutOfResources(p)
    BY <1>2 DEF Enough
  <2> QED
    BY <1>2, <2>1, <2>2, SpineKeptStep DEF Accompanied
<1>3. CASE CtrlC \/ CtrlBackslash \/ CtrlZ
  <2>1. nsig \in Nat /\ nsig' = nsig + 1
    BY <1>3 DEF CtrlC, CtrlBackslash, CtrlZ, IInv, TypeOK
  <2>2. nsig' # 0
    BY <2>1
  <2> QED
    BY <2>2 DEF Spine
<1> QED
  BY <1>1, <1>2, <1>3 DEF Next, Over

(* What the prompt finds, when the shell owes the status of its line. *)
LEMMA PromptPaid ==
  ASSUME IInv, Spine, AtPrompt, nsig = 0, Fine(mem[Shell].line)
  PROVE  mem[Shell].g = Due(mem[Shell].line)
<1>1. /\ st[Shell] = "run" /\ Top(Shell).op = "prompt" /\ Shell \in Living /\ Shell \in Pid
      /\ todo[Shell] \in Seq(Frame) /\ Top(Shell) = todo[Shell][1] /\ Len(todo[Shell]) \in Nat
      /\ Len(todo[Shell]) >= 1
  BY ProcessAssumption, RunningFrame DEF AtPrompt, At, Living
<1>2. 1 = Len(todo[Shell])
  <2>1. StackOK(todo[Shell], mem[Shell], fd[Shell])
    BY <1>1 DEF IInv, Grounded
  <2>2. 1 \in 1 .. Len(todo[Shell])
    BY <1>1
  <2> QED
    BY <1>1, <2>1, <2>2 DEF StackOK, LastOp
<1>3. PICK S : Good(Shell, S)
  BY <1>1 DEF Spine, SpineOf
<1>4. 2 .. Len(todo[Shell]) = {}
  <2>1. 2 .. 1 = {}
    OBVIOUS
  <2> QED
    BY <1>2, <2>1
<1>5. Debtor(Shell)
  BY <1>1, <1>3, <1>4, GoodForms
<1> QED
  BY <1>1, <1>5, OwesByOp DEF Debtor

(***************************************************************************)
(* The theorems.                                                           *)
(***************************************************************************)
(* Everything known of a line that is run with room and without a signal. *)
Lined == IInv /\ Kin /\ NoLoop /\ Home /\ Separate /\ Accompanied /\ Spine

(* As long as fork and pipe succeed, every reachable state satisfies       *)
(* Accompanied and Spine: the invariant behind the two theorems below,     *)
(* over those of the other theorems.                                       *)
THEOREM Accounted == Spec /\ [][Enough]_vars => []Lined
<1>1. Init => Accompanied /\ Spine
  BY CompanyInit, SpineInit DEF Accompanied
<1> DEFINE Known == IInv /\ Kin /\ NoLoop /\ Home /\ Separate
<1>2. Known /\ (Accompanied /\ Spine) /\ [Next]_vars /\ [Enough]_vars => (Accompanied /\ Spine)'
  BY AccompaniedNext, SpineNext
<1>3. Spec => []Known
  BY AtHome, PipesApart, PTL
<1>4. Known /\ (Accompanied /\ Spine) => Lined
  BY DEF Lined
<1> HIDE DEF Known
<1> QED
  BY <1>1, <1>2, <1>3, <1>4, PTL DEF Spec

(* The status of a line is that of the command of its last stage: for any  *)
(* number of stages, redirections and here-documents, in whatever order    *)
(* its processes end, when fork and pipe succeed.                          *)
THEOREM LastStatus == Spec /\ [][Enough]_vars => []StatusOfLast
<1>1. Lined => StatusOfLast
  <2> SUFFICES ASSUME Lined, Quiet, Fine(mem[Shell].line)
               PROVE  mem[Shell].g = StatusOf(CommandOf(mem[Shell].line, LastStage(mem[Shell].line)))
    BY DEF StatusOfLast, Fine
  <2>1. mem[Shell].g = Due(mem[Shell].line)
    BY PromptPaid DEF Lined, Quiet
  <2> QED
    BY <2>1 DEF Due, Last, CommandOf
<1> QED
  BY <1>1, Accounted, PTL

(* No process of a line is left at the next prompt, no child of a child    *)
(* either, as long as no signal was typed.                                 *)
PromptAlone == AtPrompt /\ nsig = 0 => \A q \in Pid \ {Shell} : st[q] = "none"

(* A pipe that breaks or a program that reads nothing ends with its line:  *)
(* whoever runs is waited for by somebody who is waited for, up to the     *)
(* shell, when fork and pipe succeed.                                      *)
THEOREM NobodyLeft == Spec /\ [][Enough]_vars => []PromptAlone
<1>1. Lined => PromptAlone
  BY Alone DEF Lined, Accompanied, PromptAlone, AtPrompt, At
<1> QED
  BY <1>1, Accounted, PTL
=============================================================================
