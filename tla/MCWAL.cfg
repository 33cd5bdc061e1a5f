\* Batches, rotations, a crash and file errors.  All calls may have returned.
SPECIFICATION FairSpec
CONSTANTS
    Call = {a1, a2, a3}
    BufferSize = 2
    Numbered = FALSE
    MaxRotate = 2
    MaxCrash = 2
    MaxFail = 1
INVARIANTS
    TypeOK
PROPERTIES
    ImplementsDurableLog
    AppendReturns
CHECK_DEADLOCK FALSE
