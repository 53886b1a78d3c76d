CONSTANTS
  Sep = "/"
  Nul = "0"
  Name = {"a"}
  NoPath = NoPath
  Blocks = {"bad", "root", "directory", "file"}
  MaxLen = 7
  Paths <- MCPaths

SPECIFICATION FairSpec

INVARIANTS
  TypeOK
  SplitIsExact
  
PROPERTY
  CallReturns

\* The call returns.
CHECK_DEADLOCK FALSE
