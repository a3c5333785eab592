CONSTANTS
    Event = {e1}
    t1 = t1
    t2 = t2
    t3 = t3
    Picks <- AllOrOne
    Team = {t1, t2, t3}
    Stage = {"quick"}
    Chunk = 2
    MaxRuns = 2
    MaxFaults = 2
SPECIFICATION ReviewerSpec
INVARIANTS
    ReviewsFollowTheirRuns
PROPERTIES
    RunsEnd
CHECK_DEADLOCK FALSE
