CONSTANTS
    MaxRuns = 2
    MaxFaults = 0
    NoCommand <- GroupOnly
SPECIFICATION Spec
CHECK_DEADLOCK FALSE
INVARIANT EgressIsEgress
