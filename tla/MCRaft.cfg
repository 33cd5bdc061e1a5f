\* Two elections among three servers, in one term or in two: split votes, late
\* votes, a leader of an earlier term, an entry each.
SPECIFICATION Spec
CONSTANTS
    Server = {p1, p2, p3}
    Command = {c1}
    Nobody = Nobody
    MaxElection = 2
    MaxLog = 1
    MaxCalls = 1
    MaxRestart = 0
SYMMETRY RaftSymmetry
\* The bounds stop it.
CHECK_DEADLOCK FALSE
INVARIANTS TypeOK ElectionSafety
PROPERTIES CommitByMajority
