CONSTANTS
    j1 = j1
    Judge = {j1}
    CancelThreshold = 1
    Schedules <- MCSchedules
    MovesPerCall = 0
    VoteEnabled = TRUE
    MaxExtensions = 0
    MaxSeconds = 0
    Hold = 0
    MaxNow = 4
    Leaf = {"card", "revision", "ballot"}
    KindOf <- MCKindOf
    SlotOf <- MCSlotOf
    Ineligible = {}
    Unreadable = {}
    Invalid = {"revision"}
    MaxFailures = 1
SPECIFICATION FairSealedSpec
INVARIANTS
    SealedTypeOK
    RecusedDoNotCount
PROPERTIES
    ImplementsCommitReveal
    RankedWithEveryEntry
    JudgedEventIsRanked
CHECK_DEADLOCK FALSE
