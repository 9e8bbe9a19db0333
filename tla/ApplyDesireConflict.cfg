CONSTANTS
    Docs = {d1}
    Scopes = {s1}
    Workers = {w1, w2}
    NoDoc = NoDoc
    MaxRev = 2
    MaxFaults = 2
    Kinds <- MCKinds
SPECIFICATION Spec
SYMMETRY WorkerSymmetry
CHECK_DEADLOCK FALSE
INVARIANT ConflictIsRequeued
