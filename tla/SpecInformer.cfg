SPECIFICATION FairSpec
CONSTANTS
    a1 = a1
    a2 = a2
    applydesires = applydesires
    readdesires = readdesires
    Docs <- MCDocs
    Colls <- MCColls
    Home <- MCHome
    HearDeletes <- MCHear
    NoDoc = NoDoc
    Buffer = 2
    MaxRev = 3
    MaxFaults = 1
INVARIANTS TypeOK CaughtUp
PROPERTIES CacheForward DeliversInOrder Delivers GhostsAreLaid NeighboursDoNoHarm
CHECK_DEADLOCK FALSE
