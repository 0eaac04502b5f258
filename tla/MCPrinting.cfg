SPECIFICATION Spec
CONSTANTS
  RcFiles <- MCRcFiles
  Typed <- MCTyped
  MaxTyped = 1
  Room = 2
INVARIANTS PrintedOnce PrintedThere
CHECK_DEADLOCK FALSE
