CONSTANTS
    MaxRuns = 3
    MaxFaults = 2
    NoCommand <- GroupOnly
SPECIFICATION FairSpec
CHECK_DEADLOCK FALSE
INVARIANTS TypeOK RerunSucceeds SuccessIsComplete CleanupLeavesLittle
PROPERTY RunsEnd
