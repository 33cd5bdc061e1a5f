\* A crash and a snapshot: the replay skips ENQUEUE, so a job that was enqueued
\* after the snapshot is gone.
SPECIFICATION Spec
CONSTANTS
    j1 = j1
    j2 = j2
    c1 = c1
    c2 = c2
    Job = {j1}
    NoJob = NoJob
    Dispatcher = {d1}
    Worker = {w1}
    Client = {c1}
    Batch <- OneJob
    MaxRetry = 3
    BatchSize = 1
    ChanCap = 1
    Remote = FALSE
    KeepWAL = TRUE
    MaxCrash = 1
    MaxExpire = 0
    MaxSnap = 1
    MaxDiskErr = 0
    MaxJam = 0
SYMMETRY DispatcherSymmetry
INVARIANTS
    AcceptedJobsSurvive
