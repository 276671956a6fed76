SPECIFICATION Spec
CONSTANTS
  Worksets <- MCAnyWorkset
  CrashAt <- MCAnywhere
  EvidenceAt <- MCAnywhere
  MaxCrashes = 2
  MaxRetries = 0
INVARIANTS
  Coherent
  IndexedWhenComplete
  VerdictsShownAreRecorded
  SupportProven
