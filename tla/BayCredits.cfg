SPECIFICATION Spec
CONSTANTS
    Handlers = {h1, h2}
    Sweeper = sweeper
    Bays = {b1}
    Rentals = {r1, r2}
    Users = {u1, u2}
    Buyer <- TwoBuyers
    FirstRental = r1
    FirstUser = u1
    SecondUser = u1
    Nobody = Nobody
    NoUser = NoUser
    NoBay = NoBay
    Ops = {"reserve", "force"}
    Credit = 1
    MaxFailures = 1
    MaxCrashes = 0
SYMMETRY Symmetry
INVARIANTS
    RentedMeansCharged
