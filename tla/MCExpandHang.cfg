SPECIFICATION FairSpec
CONSTANTS
  Char <- MCChar
  Lines <- HangLines
  Alnum <- MCAlnum
  Other = "other"
  Vars <- MCVars
  Status <- MCStatus
  MaxOut = 30
  MaxLen = 0
PROPERTY ExpandReturns
CHECK_DEADLOCK FALSE
