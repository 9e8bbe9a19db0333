CONSTANTS
    Docs = {d1}
    Scopes = {s1}
    Workers = {w1}
    NoDoc = NoDoc
    MaxRev = 2
    MaxFaults = 1
    Kinds <- MCKinds
SPECIFICATION FairSpec
CHECK_DEADLOCK FALSE
INVARIANTS TypeOK SuccessMeansGone NothingForgotten
PROPERTIES Progresses CatchesUp Deletes
