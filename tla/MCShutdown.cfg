\* Local mode: Stop at any moment among two callers, one dispatcher, one worker
\* and one requeue of each job, or a crash before it has returned.  The process
\* ends.
SPECIFICATION SpecStop
CONSTANTS
    j1 = j1
    j2 = j2
    c1 = c1
    c2 = c2
    Job = {j1, j2}
    NoJob = NoJob
    Dispatcher = {d1}
    Worker = {w1}
    Client = {c1, c2}
    Batch <- OneJobEach
    MaxRetry = 2
    BatchSize = 2
    ChanCap = 1
    Remote = FALSE
    KeepWAL = TRUE
    MaxCrash = 1
    MaxExpire = 0
    MaxSnap = 0
    MaxDiskErr = 0
    MaxJam = 0
INVARIANTS
    FinalSnapshotIsFinal
    CleanRestart
PROPERTIES
    StopReturns
CHECK_DEADLOCK FALSE
