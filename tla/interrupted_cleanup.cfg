SPECIFICATION FairSpec
CONSTANTS
  claude = claude
  codex = codex
  polytoken = polytoken
  Path = {1, 2}
  Host = {claude}
  Selections = {{claude}}
  Ships <- MCClaudeShips
  OpOf <- MCClaudeOps
  StageOf <- MCClaudeStage
  InitialFiles <- MCClaudeFresh
  Releases = {1, 2}
  UserContent = {1, 2}
  FailAt = {"clean"}
  EditWindows = {"settled"}
  EditKinds = {"write", "delete"}
  RecoverFlags = {TRUE}
  MaxCommands = 1
  MaxEdits = 0
  MaxCrashes = 0
  MaxFaults = 1
PROPERTIES
  RecoveryCompletes
CHECK_DEADLOCK FALSE
