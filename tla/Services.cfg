SPECIFICATION ServicesSpec
CONSTANTS
    Tasks = {task1}
    MaxPid = 2
    MaxTasks = 1
    MaxDisruptions = 1
    Services = {s1}
    Invoices = {i1, i2}
    ServiceOf <- PaidBy
    Rentals = {r1, r2}
    NoInvoice = NoInvoice
    MaxRaised = 3
    Jobs = {j1, j2}
    None = None
    MaxCalls = 3
    MaxDeaths = 1
    Threads = {t1, t2}
    Admins = {a1}
    Nobody = Nobody
    MaxSessions = 2
    MaxWarmups = 2
    Uploads = {u1}
    MaxUnread = 1
    MaxEvents = 3
    MaxTaps = 2
INVARIANTS
    ServicesInv
    NewestWins
    LedgerBalances
    VerdictIsOwn
    AnswerStands
    NoStreamLeaks
    LeftoverIsNotNew
    EventsAlternate
PROPERTIES
    FairGuardReturns
    FairWaitsEnd
    FairConfirmed
    FairSettledIsShown
CHECK_DEADLOCK FALSE
