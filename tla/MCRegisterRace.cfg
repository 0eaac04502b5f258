SPECIFICATION Spec
CONSTANTS
  Pid = {p1, p2, p3}
  Killer = {k1}
  MAX_DAEMONS = 3
  MaxStarts = 4
  OneTerminal = TRUE
SYMMETRY Symmetry
INVARIANTS NamesUnique
CHECK_DEADLOCK FALSE
