CONSTANTS
    Docs = {d1}
    Scopes = {s1, s2}
    Workers = {w1, w2}
    NoDoc = NoDoc
    MaxRev = 2
    MaxFaults = 0
    Kinds <- GoodOnly
SPECIFICATION FairSpec
CHECK_DEADLOCK FALSE
INVARIANTS StatusWitnessed
PROPERTY Converges
