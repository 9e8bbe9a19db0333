CONSTANTS
    Docs = {d1}
    Scopes = {s1}
    Manager = Manager
    Workers <- MCWorkers
    NoDoc = NoDoc
    MaxRev = 2
    MaxFaults = 1
    Kinds <- TwoTargets
SPECIFICATION Spec
CHECK_DEADLOCK FALSE
INVARIANT ContentIsOfTarget
