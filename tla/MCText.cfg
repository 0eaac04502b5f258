SPECIFICATION FairSpec
CONSTANTS
  Char <- MCChar
  Lines <- MCLines
  Alnum <- MCAlnum
  Other = "other"
  Vars <- MCVars
  Status <- MCStatus
  MaxOut = 30
  MaxLen = 4
INVARIANTS TokensFit WordsAsQuoted ExpandsAsQuoted
PROPERTIES LineSplit
CHECK_DEADLOCK FALSE
