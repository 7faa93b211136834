SPECIFICATION Spec
CONSTANTS
    Rentals = {r1, r2, r3, r4}
    Bays = {b1}
    MaxConcurrent = 2
    Ttl = 4
    Idle = 2
    MinWait = 0
    NoLease = NoLease
SYMMETRY Symmetry
INVARIANTS
    TypeOK
    QueueInv
    PromiseKept
PROPERTIES
    NoOvertaking
    LeasesRunTheirTime
