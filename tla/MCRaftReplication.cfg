\* Two elections, logs of two entries and two calls under way at a time:
\* requests and replies overtake each other and conflicting entries go.  One of
\* the two servers may lose its state.
SPECIFICATION Spec
CONSTANTS
    Server = {p1, p2}
    Command = {c1}
    Nobody = Nobody
    MaxElection = 2
    MaxLog = 2
    MaxCalls = 2
    MaxRestart = 1
SYMMETRY RaftSymmetry
\* The bounds stop it.
CHECK_DEADLOCK FALSE
INVARIANTS LogMatching MatchIndexSound
PROPERTIES NeverBackwards
