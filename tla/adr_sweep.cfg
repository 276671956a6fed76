SPECIFICATION FairSpec
CONSTANTS
    l1 = l1
    l2 = l2
    Records = {1, 2}
    Labels = {l1, l2}
    Falsifiers <- MCFalsifiers
    Malformed <- MCMalformed
    Refs <- MCRefs
    Dir <- MCDir
    Projects = {"project"}
    Supersedes <- MCSupersedes
    Selections = {{1, 2}}
    Scheduled = {1, 2}
    Exits = {0, 1, 2}
    Statuses = {"active", "retracted", "superseded"}
    Initial <- MCInitial
    Conditions <- MCConditions
    MaxEdits = 2
    MaxChanges = 1
    MaxCrashes = 1
INVARIANTS
    Earned
    NagOnce
PROPERTIES
    LinesRespected
    FireRecorded
