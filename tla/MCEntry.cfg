CONSTANTS
    j1 = j1
    j2 = j2
    p1 = p1
    p2 = p2
    t1 = t1
    n1 = n1
    Judge = {j1, j2}
    CancelThreshold = 1
    Schedules <- MCSchedules
    VoteEnabled = FALSE
    MaxExtensions = 1
    MaxSeconds = 1
    MovesPerCall = 1
    Hold = 0
    MaxNow = 6
    Person = {p1, p2}
    MaxTeams = 2
    MaxTeamSize = 2
    MultiTeam = FALSE
    AdmitsImmediately = FALSE
    FrozenTrack = {t1}
    SponsorTrack = {n1}
    BorrowsFrom = t1
    Bench <- MCBench
    DisqThreshold = 2
    AppealWindow = 1
    Movable = {"registration_closes_at"}
    Entrant = {2}
SPECIFICATION EntrySpec
SYMMETRY PeopleAndJudges
INVARIANTS
    TeamsAreConsistent
    CasesAreAgainstStandingEntries
PROPERTIES
    ElectorateFixed
    RemovalsAreDue
    EntriesStand
CHECK_DEADLOCK FALSE
