CONSTANTS
    j1 = j1
    s1 = s1
    s2 = s2
    m1 = m1
    m2 = m2
    m3 = m3
    a = a
    b = b
    t1 = t1
    n1 = n1
    Judge = {j1}
    CancelThreshold = 1
    Schedules <- MCSchedules
    VoteEnabled = TRUE
    MaxExtensions = 1
    MaxSeconds = 1
    MovesPerCall = 1
    Hold = 1
    MaxNow = 7
    Sponsor = {s1}
    Member = {m1, m2, m3}
    Organizer = Organizer
    Platform = Platform
    Donor = Donor
    Unprepared = {m1, Platform}
    Team = {a, b}
    Roster <- MCRoster
    FrozenTrack = {t1}
    FrozenTable <- OddPlaces
    FeeBps = 2000
    TopUpsAllowed = FALSE
    MinBounty = 5
    MaxNewTracks = 0
    BorrowsFrom = t1
    NewTrack = {n1}
    NewTable <- SponsorTables
    MaxSponsorships = 1
    Amount = {7}
    MaxHeld = 0
    Bench <- MCBench
    NoAwardAllowed = {}
    NoAwardThreshold = 1
    AppealWindow = 1
    ClaimPeriod = 1
    Nobody = Nobody
SPECIFICATION FairTreasurySpec
INVARIANTS
    PositionsCloseWithTheirShares
PROPERTIES
    ImplementsEscrow
    ClaimPeriodHonoured
    HoldStopsPrizes
    SettlementEnds
CHECK_DEADLOCK FALSE
