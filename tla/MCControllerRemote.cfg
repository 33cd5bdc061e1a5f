\* Master mode: a remote pool polls; replies and acknowledgements are lost, the
\* master crashes and fsync fails for a while.
SPECIFICATION Spec
CONSTANTS
    j1 = j1
    j2 = j2
    c1 = c1
    c2 = c2
    Job = {j1}
    NoJob = NoJob
    Dispatcher = {d1}
    Worker = {w1}
    Client = {c1}
    Batch <- OneJob
    MaxRetry = 2
    BatchSize = 2
    ChanCap = 1
    Remote = TRUE
    KeepWAL = TRUE
    MaxCrash = 1
    MaxExpire = 4
    MaxSnap = 1
    MaxDiskErr = 1
    MaxJam = 0
SYMMETRY DispatcherSymmetry
PROPERTIES
    NoRevival
