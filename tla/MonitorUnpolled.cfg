\* the patient visitor: whether the panel's word expires on every path
CONSTANTS
    Unresolved = Unresolved
    None = None
    NoReport = NoReport
    Slots = {r1, r2}
    Steps = {s1, s2}
    OkTTL = 2
    FailTTL = 1
    MaxWait = 1
    PollEvery = 2
    PollTimeout = 1
    Samples <- SomeSamples
    Servers <- SomeServers
    Published <- SomePublished
    Fixture <- TheFixture
    Visits <- WatchersVisit
SPECIFICATION Spec
INVARIANT VerifiedExpires
