CONSTANTS
    Docs = {d1}
    Scopes = {s1}
    Manager = Manager
    Workers <- MCWorkers
    NoDoc = NoDoc
    MaxRev = 2
    MaxFaults = 0
    Kinds <- OneTarget
SPECIFICATION FairSpec
CHECK_DEADLOCK FALSE
PROPERTY ObservedCatchesUp
