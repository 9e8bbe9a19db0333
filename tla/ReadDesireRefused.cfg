CONSTANTS
    Docs = {d1}
    Scopes = {s1}
    Manager = Manager
    Workers <- MCWorkers
    NoDoc = NoDoc
    MaxRev = 1
    MaxFaults = 0
    Kinds <- Unlistable
SPECIFICATION FairSpec
CHECK_DEADLOCK FALSE
PROPERTY RefusalIsReported
