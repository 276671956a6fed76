SPECIFICATION FairSpec
CONSTANTS
  claude = claude
  codex = codex
  polytoken = polytoken
  Path = {1, 2}
  Host = {claude}
  Selections = {{claude}}
  Ships <- MCClaudeShips
  OpOf <- MCClaudeOps
  StageOf <- MCClaudeStage
  InitialFiles <- MCClaudePlain
  Releases = {1, 2}
  UserContent = {1, 2}
  FailAt <- MCHandled
  EditWindows = {"settled"}
  EditKinds = {"write", "delete"}
  RecoverFlags = {TRUE}
  MaxCommands = 2
  MaxEdits = 1
  MaxCrashes = 2
  MaxFaults = 1
INVARIANTS
  TransactionReversible
  RollbackRestores
  UserContentKept
PROPERTIES
  ImplementsAtomic
  CommandEnds
  RecoveryCompletes
CHECK_DEADLOCK FALSE
