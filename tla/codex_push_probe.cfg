SPECIFICATION Spec
CONSTANTS
  Repos = {"A", "B"}
  Ids = {"a", "b", "r"}
  Active = {"a", "b"}
  Commands = {}
  Worlds <- MCWorlds
  Starts = {"A"}
  Logins = {"none"}
  MaxSwitches = 0
  UserHosts = {}
  MaxCommands = 0
  MaxCalls = 1
  MaxRuns = 1
  MaxTrust = 0
INVARIANT UntrustedUnasked
CHECK_DEADLOCK FALSE
