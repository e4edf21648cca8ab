CONSTANTS
    Runs = {r1, r2, r3}
    Lifecycle = Lifecycle
    None = None
    MaxLifecycle = 1

SPECIFICATION Spec
SYMMETRY RunSymmetry

INVARIANTS
    LeftoverExplained
    SuccessIsServed
PROPERTIES
    PreexistingSpared
CHECK_DEADLOCK FALSE
