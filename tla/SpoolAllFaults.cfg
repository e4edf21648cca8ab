\* every fault, writes torn anywhere
CONSTANTS
    http1 = http1  http2 = http2  syslog1 = syslog1
    i1 = i1  i2 = i2  b1 = b1  b2 = b2
    Clients = {http1, http2, syslog1}
    Syslog = {syslog1}
    Unauthorized = {}
    Ids = {i1, i2}
    Bodies = {b1, b2}
    Malformed = Malformed
    Garbled = Garbled
    Empty = Empty
    None = None
    Offers <- MCOffers
    Faults = {"kill", "power", "tear", "ioerror", "lost_reply"}
    MaxFaults = 2
SPECIFICATION SpoolSpec
INVARIANTS OneContentPerIdentity NoSecondCopy AckedDurable ReopensUnlessTorn
\* every client may be served, and the collector then waits for the next one
CHECK_DEADLOCK FALSE
