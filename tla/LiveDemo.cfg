\* an impatient visitor of the page, and a patient one who watches the monitor
CONSTANTS
    Unresolved = Unresolved
    None = None
    NoReport = NoReport
    Slots = {r1, r2}
    Steps = {s1, s2}
    OkTTL = 2
    FailTTL = 1
    MaxWait = 1
    PollEvery = 2
    PollTimeout = 1
    Samples <- SomeSamples
    Servers <- SomeServers
    Published <- SomePublished
    Fixture <- TheFixture
    Visits <- BothVisits
SPECIFICATION FairSpec
INVARIANTS VerifiedIsRecent NoRunWithoutReport ShownIsCurrent LiveLabelIsTrue
PROPERTIES EveryRunEnds
