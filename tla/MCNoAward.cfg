CONSTANTS
    j1 = j1
    s1 = s1
    s2 = s2
    m1 = m1
    m2 = m2
    m3 = m3
    a = a
    b = b
    t1 = t1
    n1 = n1
    Judge = {j1}
    CancelThreshold = 1
    Schedules <- MCSchedules
    VoteEnabled = FALSE
    MaxExtensions = 0
    MaxSeconds = 0
    MovesPerCall = 1
    Hold = 0
    MaxNow = 6
    Sponsor = {s1}
    Member = {m1, m2}
    Organizer = Organizer
    Platform = Platform
    Donor = Donor
    Unprepared = {}
    Team = {a}
    Roster <- PairOnly
    FrozenTrack = {t1}
    FrozenTable <- OnePlace
    FeeBps = 2000
    TopUpsAllowed = TRUE
    MinBounty = 5
    MaxNewTracks = 1
    BorrowsFrom = t1
    NewTrack = {n1}
    NewTable <- SponsorTables
    MaxSponsorships = 1
    Amount = {5}
    MaxHeld = 0
    Bench <- MCBench
    NoAwardAllowed = {t1}
    NoAwardThreshold = 1
    AppealWindow = 1
    ClaimPeriod = 1
    Nobody = Nobody
SPECIFICATION TreasurySpec
PROPERTIES
    ImplementsEscrow
CHECK_DEADLOCK FALSE
