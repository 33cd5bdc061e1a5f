\* Two crashes, a snapshot and a write that fails, at any point of the loops.
SPECIFICATION Spec
CONSTANTS
    j1 = j1
    j2 = j2
    c1 = c1
    c2 = c2
    Job = {j1}
    NoJob = NoJob
    Dispatcher = {d1, d2}
    Worker = {w1}
    Client = {c1}
    Batch <- OneJob
    MaxRetry = 3
    BatchSize = 2
    ChanCap = 1
    Remote = FALSE
    KeepWAL = TRUE
    MaxCrash = 2
    MaxExpire = 2
    MaxSnap = 1
    MaxDiskErr = 0
    MaxJam = 1
SYMMETRY DispatcherSymmetry
INVARIANTS
    NoStrandedJob
    SnapshotIsPast
    WriteAhead
PROPERTIES
    NoRevival
