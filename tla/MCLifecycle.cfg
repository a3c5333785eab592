CONSTANTS
    j1 = j1
    j2 = j2
    Judge = {j1, j2}
    CancelThreshold = 2
    Schedules <- TightOrRoomy
    MovesPerCall = 6
    VoteEnabled = TRUE
    MaxExtensions = 1
    MaxSeconds = 2
    Hold = 1
    MaxNow = 9
SPECIFICATION FairSpec
INVARIANTS
    TypeOK
    WindowsRanOut
    ExtensionsAccountedFor
    HoldHonoured
PROPERTIES
    PassedDeadlinesStand
    CancelledByTheBench
    WindowsEventuallyClose
CHECK_DEADLOCK FALSE
