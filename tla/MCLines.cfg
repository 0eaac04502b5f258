SPECIFICATION Spec
CONSTANTS
  Word <- MCWord
  File <- MCFile
  Prog <- MCProg
  Lines <- CommonLines
  Existing = {"f", "locked"}
  Denied = {"locked"}
  Pid = {sh, p1, p2, p3, p4}
  Shell = sh
  PipeId = {q1, q2}
  Doc = {d1, d2}
  Nobody = Nobody
  NoPipe = NoPipe
  NoDoc = NoDoc
  NoWord = NoWord
  Tty = Tty
  Cap = 1
  MaxLines = 2
  MaxDoc = 1
  Keys = {}
  MaxSig = 0
INVARIANTS
  TypeOK PromptClean NoSelfFeed StatusOfLast Delivered ArgumentsOwnStage PipeHeld
