SPECIFICATION Spec
CONSTANTS
    phase = phase
    entry = entry
    Row <- MCRow
    Asking <- MCAsking
    MaxDrift = 2
    NearTheHead = 1
    MaxRows = 3
    SplitsLedgers = FALSE
    RebuildAlone = TRUE
    Faults <- CallsButHealth
    MaxLedger = 3
    MaxEvents = 3
    MaxFaults = 2
INVARIANTS
    NothingSkipped
    AnswersBesideTheirEvents
PROPERTIES
    RowsNeverGoBack
    ImplementsEventArchive
    EverythingIsLogged
    LoggedIsShown
