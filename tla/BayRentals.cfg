SPECIFICATION FairSpec
CONSTANTS
    Handlers = {h1}
    Sweeper = sweeper
    Bays = {b1}
    Rentals = {r1, r2}
    Users = {u1, u2}
    Buyer <- TwoBuyers
    FirstRental = r1
    FirstUser = u1
    SecondUser = u2
    Nobody = Nobody
    NoUser = NoUser
    NoBay = NoBay
    Ops = {"assign", "cancel", "verify", "disable", "enable"}
    Credit = 0
    MaxFailures = 1
    MaxCrashes = 1
INVARIANTS
    TypeOK
PROPERTIES
    OverIsReleased
