SPECIFICATION FairSpec
CONSTANTS
    Rentals = {r1, r2, r3}
    Bays = {b1}
    MaxConcurrent = 1
    Ttl = 3
    Idle = 2
    MinWait = 0
    NoLease = NoLease
PROPERTIES
    WaiterServed
