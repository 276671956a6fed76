SPECIFICATION Spec
CONSTANTS
    Legs <- MCLegs
    Names = {"A"}
    Passes = {1, 2}
    Leg <- MCLeg
    Multiball = TRUE
    MaxRuns <- MCMaxRuns
    MaxFaults = 1
INVARIANTS
    WorkKept
    TokensOnce
    NeverSilent
    GateHonest
CHECK_DEADLOCK FALSE
