SPECIFICATION FairSpec
CONSTANTS
    Handlers = {h1}
    Rentals = {r1}
    Bays = {b1}
    Actions = {"reboot"}
    Keys = {k1}
    NoKey = NoKey
    Nobody = Nobody
    FarmAnswers = {"failed", "failedSent", "accepted", "verified", "unknown"}
    MaxAttempts = 2
    MaxJobs = 1
    MaxCrashes = 2
INVARIANTS
    DoneIsRecorded
PROPERTIES
    NeverRunAgain
    JobsFinish
