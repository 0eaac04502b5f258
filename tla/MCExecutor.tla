----------------------------- MODULE MCExecutor -----------------------------
(***************************************************************************)
(* Instances of Executor for TLC: the words, what their programs do, and   *)
(* the lines of each run.                                                  *)
(***************************************************************************)
EXTENDS Executor

MCFile == {"f", "g", "locked", "none"}
MCWord == MCFile \cup
  {"gen", "cat", "take", "false", "sleep", "echo", "exit", "cd", "E"}

Does(k, n) == [k |-> k, n |-> n]
MCProg ==
  [w \in MCWord |->
     CASE w = "gen" -> Does("emit", 2)
       [] w = "cat" -> Does("copy", 0)
       [] w = "take" -> Does("head", 1)
       [] w = "false" -> Does("status", 1)
       [] w = "sleep" -> Does("sleep", 0)
       [] w = "echo" -> Does("echo", 1)
       [] w = "exit" -> Does("exit", 0)
       [] w = "cd" -> Does("builtin", 1)
       [] OTHER -> Does("none", 0)]

Op(c, n, w) == <<[c |-> c, n |-> n, w |-> w]>>
Cmd(w) == Op("w", 1, w)
In(w) == Op("<", 1, w)
Out(w) == Op(">", 1, w)
App(w) == Op(">", 2, w)
Here == Op("<", 2, "E")
Pipe(a, b) == a \o Op("|", 1, NoWord) \o b

Cat == Cmd("cat")
Gen == Cmd("gen")

(* Pipelines, redirections and here-documents that a user would type. *)
UsualLines ==
  { Pipe(Gen, Cat), Pipe(Gen, Cmd("take")), Pipe(Cmd("echo"), Cat),
    Pipe(Cat, Cmd("false")), Pipe(Cmd("false"), Cmd("cd")), Cmd("exit"),
    Gen \o Out("f"), Pipe(Gen, Cat \o App("g")), Cat \o In("f") \o Out("g"),
    Pipe(Cat \o In("f"), Cmd("none")), Cat \o Here, Pipe(Cat \o Here, Cat),
    Gen \o Out("f") \o Cmd("cd") }

(* Lines that a handler refuses, and combinations of redirections. *)
UnusualLines ==
  { Pipe(<<>>, Cat), Pipe(Gen, <<>>), Gen \o Op("|", 2, NoWord) \o Cat,
    Cat \o Op("<", 3, "E"), Gen \o Op(">", 3, "f"), Cat \o In(NoWord),
    Gen \o App(NoWord), Cat \o Op("<", 2, NoWord), Cat \o In("none"),
    Gen \o Out("locked"), Pipe(Gen, Cat \o In("locked")),
    Cat \o Here \o Here, Pipe(Gen, Cat \o Here),
    Pipe(In("f") \o Cat \o Here, Cat), Pipe(Cmd("exit"), Cat),
    Pipe(Cat \o Here \o Cmd("f"), Cat), Pipe(Gen, Cat \o Here \o Cmd("f")) }

CommonLines == UsualLines \cup UnusualLines

(* Lines whose processes the user's signals meet in every state. *)
SignalLines ==
  { Pipe(Gen, Cat), Pipe(Cmd("sleep"), Cat), Cat \o Here,
    Pipe(Cmd("echo"), Pipe(Cat, Cmd("take"))) }

(* Lines whose end is in question: some need more pipes or processes than  *)
(* there are, and in the first a writer follows a writer.                  *)
EndingLines ==
  { Pipe(Gen, Pipe(Gen, Cat)), Pipe(Cmd("echo"), Pipe(Cmd("echo"), Pipe(Cmd("cd"), Cat))),
    Pipe(Gen, Cmd("take")), Pipe(Cmd("sleep"), Cat), Cat \o Here, Cat \o Here \o Here,
    Pipe(Gen, Cat \o Here), Pipe(Cmd("take") \o Here, Cat), Gen \o Out("f") \o Here }

HeredocPipe == { Pipe(Cat \o Here, Cat) }
=============================================================================
