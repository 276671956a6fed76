SPECIFICATION LogSpec
CONSTANTS
    Appenders <- MCAppenders
    RunOf <- MCRunOf
    Spelled <- MCSpelled
    MaxTogether = 2
    MaxKills = 1
    MaxFaults = 1
INVARIANTS
    OneLine
    LineKept
CHECK_DEADLOCK FALSE
