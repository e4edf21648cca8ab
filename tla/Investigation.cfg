\* three transactions over two backends and a path of two stages
CONSTANTS
    NStages = 2
    NTransactions = 3
    NGateways = 2
    AnonymousStages = {2}
    Stray <- StrayRecords
    MaxEvidence = 4
    MaxContainment = 2
    LiveAttempts = 3
    ProbeLogs <- ProbesSeen
SPECIFICATION Spec
INVARIANTS OutcomesAreTrue SuspectReallyFailed StabilizedIsEarned
    ProbeGapIsCurrent
\* every transaction may have run and every bound be used up
CHECK_DEADLOCK FALSE
