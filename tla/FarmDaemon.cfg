SPECIFICATION FairSpec
CONSTANTS
    j1 = j1
    j2 = j2
    s1 = s1
    Jobs = {j1, j2}
    Slots = {s1}
    Assignments <- OneSlot
    Threshold = 2
    Recovery = TRUE
    MaxCycles = 2
    MaxRestarts = 1
    NoJob = NoJob
    NoSlot = NoSlot
INVARIANTS
    DaemonInv
PROPERTIES
    FollowsTable
    ConfirmedStands
    CycleEnds
CHECK_DEADLOCK FALSE
