\* two accounts, two identities of the collector, two troubles
CONSTANTS
    None = None
    Planned = planned
    Foreign = foreign
    Accounts = {planned, foreign}
    Principals = {"p1", "p2"}
    Ceiling = 152
    MaxTroubles = 2
    PriceLists <- SomePriceLists
    Usages <- SomeUsages
    Declared <- SomeDeclared
    OddPlans <- SomeOddPlans
SPECIFICATION Spec
INVARIANTS VerifiedPlanIsIntact ReadyWasClear
CHECK_DEADLOCK FALSE
