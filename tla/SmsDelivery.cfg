SPECIFICATION FairSpec
CONSTANTS
    Messages = {m1}
    Requests = {r1, r2}
    MaxPosts = 2
    MaxTries = 1
    MaxFaults = 1
    NoMessage = NoMessage
INVARIANTS
    DeliveryInv
PROPERTIES
    AtMostOnce
    ReportComes
CHECK_DEADLOCK FALSE
