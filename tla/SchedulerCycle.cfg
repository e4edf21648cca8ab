\* failing cycles, moving main, reconfiguration, foreign dispatches, odd worlds
CONSTANTS
    Absent = Absent
    None = None
    NoState = NoState
    NoArtifact = NoArtifact
    RetryBudget = 1
    Worlds <- AzureWorlds
    Schemas = {"v2", "v3"}
    Foreign = {"deploy"}
    MaxCommit = 2
    MaxRuns = 2
SPECIFICATION Spec
INVARIANTS DecisionFromReviewedHead NoLeftoverRun AdviceIsGrounded
PROPERTY NoDispatchAfterDecision
\* the bounded numbers of runs and commits may be used up
CHECK_DEADLOCK FALSE
