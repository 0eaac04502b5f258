SPECIFICATION Spec
CONSTANTS
  Word <- MCWord
  File <- MCFile
  Prog <- MCProg
  Lines <- SignalLines
  Existing = {"f", "locked"}
  Denied = {"locked"}
  Pid = {sh, p1, p2, p3, p4, p5, p6}
  Shell = sh
  PipeId = {q1, q2}
  Doc = {d1, d2}
  Nobody = Nobody
  NoPipe = NoPipe
  NoDoc = NoDoc
  NoWord = NoWord
  Tty = Tty
  Cap = 1
  MaxLines = 1
  MaxDoc = 1
  Keys = {"int", "quit", "stop"}
  MaxSig = 1
INVARIANTS ProgramSignals ShellHandler ChildrenAwaited
CHECK_DEADLOCK FALSE
