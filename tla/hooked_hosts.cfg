SPECIFICATION Spec
CONSTANTS
  Repos = {"A", "B"}
  Ids = {"a", "b", "r"}
  Active = {"a", "b"}
  Commands <- MCCommands
  Worlds <- MCWorlds
  Starts = {"A"}
  Logins = {"a", "b", "none"}
  MaxSwitches = 1
  UserHosts <- MCUserHosts
  MaxCommands = 1
  MaxCalls = 2
  MaxRuns = 2
  MaxTrust = 1
INVARIANTS
  RightIdentity
  RightAuthor
  
CHECK_DEADLOCK FALSE
