SPECIFICATION FairSpec
CONSTANTS
  Worksets <- MCUncapped
  CrashAt <- MCAnywhere
  EvidenceAt <- MCNotWhileWriting
  MaxCrashes = 1
  MaxRetries = 2
INVARIANTS
  Indexed
PROPERTIES
  EvidenceKept
  ReplacedArchived
  Finishes
