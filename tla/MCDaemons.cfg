SPECIFICATION Spec
CONSTANTS
  Pid = {p1, p2, p3}
  Killer = {k1}
  MAX_DAEMONS = 3
  MaxStarts = 4
  OneTerminal = FALSE
SYMMETRY Symmetry
INVARIANTS TypeOK RegistryUnique Registered Reported
PROPERTIES FilesKept
CHECK_DEADLOCK FALSE
