\* A dispatcher is inside Submit when Stop closes taskCh.
SPECIFICATION SpecStop
CONSTANTS
    j1 = j1
    j2 = j2
    c1 = c1
    c2 = c2
    Job = {j1, j2}
    NoJob = NoJob
    Dispatcher = {d1}
    Worker = {w1}
    Client = {c1}
    Batch <- OneBatch
    MaxRetry = 1
    BatchSize = 2
    ChanCap = 1
    Remote = FALSE
    KeepWAL = TRUE
    MaxCrash = 1
    MaxExpire = 0
    MaxSnap = 0
    MaxDiskErr = 0
    MaxJam = 0
INVARIANTS
    SubmitNeverPanics
CHECK_DEADLOCK FALSE
