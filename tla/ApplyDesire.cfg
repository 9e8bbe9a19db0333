CONSTANTS
    Docs = {d1}
    Scopes = {s1}
    Workers = {w1}
    NoDoc = NoDoc
    MaxRev = 2
    MaxFaults = 2
    Kinds <- MCKinds
SPECIFICATION FairSpec
CHECK_DEADLOCK FALSE
INVARIANTS TypeOK StatusWitnessed NothingForgotten ReportedMeansApplied
PROPERTIES Progresses Converges
