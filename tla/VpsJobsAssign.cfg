SPECIFICATION FairSpec
CONSTANTS
    Handlers = {h1, h2}
    Rentals = {r1}
    Bays = {b1}
    Actions = {}
    Keys = {}
    NoKey = NoKey
    Nobody = Nobody
    FarmAnswers = {"failed"}
    MaxAttempts = 1
    MaxJobs = 2
    MaxCrashes = 0
INVARIANTS
    TypeOK
    
PROPERTIES
    PendingJobKeepsItsBay
    JobsFinish
