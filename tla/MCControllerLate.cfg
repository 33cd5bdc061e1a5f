\* No crash.  Deadlines pass, so results arrive late, for jobs that wait, run
\* again or have ended; the disk refuses writes for a while.
SPECIFICATION FairSpec
CONSTANTS
    j1 = j1
    j2 = j2
    c1 = c1
    c2 = c2
    Job = {j1, j2}
    NoJob = NoJob
    Dispatcher = {d1, d2}
    Worker = {w1, w2}
    Client = {c1, c2}
    Batch <- Overlapping
    MaxRetry = 3
    BatchSize = 2
    ChanCap = 1
    Remote = FALSE
    KeepWAL = FALSE
    MaxCrash = 0
    MaxExpire = 6
    MaxSnap = 0
    MaxDiskErr = 1
    MaxJam = 0
INVARIANTS
    TypeOK
    IndexConsistency
    NoStrandedJob
    RetryBudget
    ClaimedOnce
    SingleExecution
    StatsCountEachJobOnce
PROPERTIES
    NoRevival
    DeadOnlyFromInFlight
    EveryJobEnds
