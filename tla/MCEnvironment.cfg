SPECIFICATION Spec
CONSTANTS
  Name <- MCName
  Home = "HOME"
  OldPwd = "OLDPWD"
  Path = "PATH"
  Pwd = "PWD"
  Dir <- MCDir
  Bin <- MCBin
  Deep = {"bin"}
  Unset = Unset
  Declared = Declared
  Envp <- MCEnvp
  ExportArgs <- MCExportArgs
  UnsetArgs <- MCUnsetArgs
  CdArg <- AnyArg
  RcValue <- MCRcValue
  Installed <- MCInstalled
  Fragile = {"w"}
  MaxCommands = 4
  MaxRc = 1
INVARIANTS TypeOK UniqueNames CopiesAgree
PROPERTIES PromptHasHome OldPwdFollows FoundAsGiven ImplementsVariables
