CONSTANTS
    Docs = {d1}
    Scopes = {s1}
    Manager = Manager
    Workers <- MCWorkers
    NoDoc = NoDoc
    MaxRev = 2
    MaxFaults = 1
    Kinds <- MCKinds
SPECIFICATION FairSpec
CHECK_DEADLOCK FALSE
INVARIANTS TypeOK NothingForgotten
PROPERTIES Progresses Mirrors
