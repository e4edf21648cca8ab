\* every sequence of five messages
CONSTANTS
    mark = mark  planA = planA  planB = planB
    Budgets = {0, 1}
    Watermarks = {mark}
    Strategies = {planA, planB}
    None = None
    MaxMessages = 5
SPECIFICATION Spec
SYMMETRY Symmetry
INVARIANTS AttemptsBounded CompletionWasVerified AuditTrailExplains
\* a document may be closed
CHECK_DEADLOCK FALSE
