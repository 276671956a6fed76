SPECIFICATION Spec
CONSTANTS
  claude = claude
  codex = codex
  polytoken = polytoken
  Path = {1, 2, 3, 4, 5, 6, 7}
  Host = {claude, codex, polytoken}
  Selections = {{claude}, {codex}, {polytoken}}
  Ships <- MCHostsShips
  OpOf <- MCHostsOps
  StageOf <- MCHostsStage
  InitialFiles <- MCHostsInitial
  Releases = {1, 2}
  UserContent = {1, 2}
  FailAt <- MCHandled
  EditWindows = {"settled"}
  EditKinds = {"write", "link"}
  RecoverFlags = {TRUE}
  MaxCommands = 3
  MaxEdits = 1
  MaxCrashes = 1
  MaxFaults = 1
INVARIANTS
  LedgerTruthful
  UserContentKept
CHECK_DEADLOCK FALSE
