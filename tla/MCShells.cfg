SPECIFICATION Spec
CONSTANTS
  Shell = {s1, s2}
  Directory = {root, d}
  Root = root
  Writable = {root, d}
  Inode = {i1, i2, i3}
  NoFile = NoFile
  RcFiles <- MCRcFiles
  HomeFiles <- MCHomeFiles
  Typed = {"empty", "refused", "exit", "doc", "doccd"}
  MaxTyped = 2
  MaxDoc = 2
SYMMETRY Symmetry
INVARIANTS TypeOK FlagAtPrompt HistoryAsTyped TextFreedOnce OwnDocument NothingLeft
PROPERTIES RcKept
CHECK_DEADLOCK FALSE
