SPECIFICATION Spec
CONSTANTS
    Worksets <- MCWorksets
    Target = 4
    Hard = 6
    CompactSize = 2
INVARIANTS
    Conserved
    Bounded
PROPERTY ImplementsReduction
CHECK_DEADLOCK FALSE
