\* three invocations, killed anywhere, with uploads lost, refused or late
CONSTANTS
    Invocations = {p1, p2, p3}
    Jobs <- SomeJobs
    MaxTime = 2
    NoFile = NoFile
    Empty = Empty
    Torn = Torn
SPECIFICATION DeliverySpec
INVARIANTS WholeUnlessOverlapped ServedIsDrawable SuccessWasServed
PROPERTIES NeverOlder
\* every invocation ends
CHECK_DEADLOCK FALSE
