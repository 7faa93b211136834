SPECIFICATION FairSpec
CONSTANTS
    Rentals = {r1, r2}
    Requests = {t1, t2}
    Sweeper = sweeper
    Nobody = Nobody
    Endings = {"gone", "past", "unowned"}
    MaxEvents = 2
INVARIANTS
    SessionsInv
    LiveCredentials
PROPERTIES
    OverIsClosed
CHECK_DEADLOCK FALSE
