\* runs race for one request id, are rerun, and fail anywhere
CONSTANTS
    reqA = reqA  reqCopy = reqCopy  reqBad = reqBad
    idA = idA  idB = idB  head = head  later = later
    run1 = run1  run2 = run2 
    Runs = {run1, run2}
    Requests = {reqA, reqCopy, reqBad}
    Ids = {idA, idB}
    IdOf <- MCIdOf
    Commits = {head, later}
    Delta <- MCDelta
    WellFormed <- MCWellFormed
    InScope <- MCInScope
    IssuedAt <- MCIssuedAt
    ValidUntil <- MCValidUntil
    MaxAttempts = 3
    MaxTime = 2
    None = None
SPECIFICATION Spec
SYMMETRY Symmetry
INVARIANTS AtMostOneWinner OneLoginPerRequest OneLoginPerRun BuiltByWinner
    BuiltAsReviewed
\* every run may be over
CHECK_DEADLOCK FALSE
