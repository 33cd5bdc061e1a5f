\* Any sequence of calls on two jobs, a retry each, a crash, a failed write.
SPECIFICATION SpecFile
CONSTANTS
    Job = {j1, j2}
    MaxAttempt = 1
    MaxRestart = 1
    MaxSnap = 2
    MaxFail = 1
SYMMETRY JobSymmetry
INVARIANTS
    TypeOK
    IndexConsistency
    NoStrandedJob
    SnapshotComplete
PROPERTIES
    NoRevival
    ImplementsSavedState
