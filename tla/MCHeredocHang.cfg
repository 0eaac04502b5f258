SPECIFICATION FairSpec
CONSTANTS
  Word <- MCWord
  File <- MCFile
  Prog <- MCProg
  Lines <- HeredocPipe
  Existing = {"f", "locked"}
  Denied = {"locked"}
  Pid = {sh, p1, p2, p3, p4}
  Shell = sh
  PipeId = {q1, q2}
  Doc = {d1, d2}
  Nobody = Nobody
  NoPipe = NoPipe
  NoDoc = NoDoc
  NoWord = NoWord
  Tty = Tty
  Cap = 1
  MaxLines = 1
  MaxDoc = 2
  Keys = {}
  MaxSig = 0
PROPERTY LineEnds
CHECK_DEADLOCK FALSE
