SPECIFICATION FairSpec
CONSTANTS
  Node <- MCNode
  Root = 0
  Name = {"a", "b", "h", "s"}
  Hidden = {"h"}
  Matches = {"a", "s", "."}
  Trees <- MCTrees
  MaxOpen = 5
  MaxPath = 3
  MaxLinks = 2
  MaxChanges = 1
INVARIANTS EachOnce
PROPERTIES Ends
CHECK_DEADLOCK FALSE
