SPECIFICATION RecordsSpec
CONSTANTS
    MaxRuns = 2
    MaxDepth = 1
    MaxConcurrent = 1
    MaxFaults = 2
    Budget = 4
    Size = {1, 2, 5}
    ResultSize = 2
    MaxSeq = 5
    MaxFailures = 3
    r1 = r1
    r2 = r2
    r3 = r3
    r4 = r4
    nightly = nightly
    p1 = p1
    p2 = p2
    NoRun = NoRun
    Opener = {p1, p2}
    RunRow = {r1, r2, r3, r4}
    Schedule = {nightly}
    OldStores <- Databases
    MaxCrashes = 2
INVARIANTS
    UpgradePreserves
PROPERTIES
    RunsEnd
    AbortWins
    FollowerSeesTheLog
    LogIsKept
    FollowerIsTold
    StoreOpens
CHECK_DEADLOCK FALSE
