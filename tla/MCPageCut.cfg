SPECIFICATION Spec
CONSTANTS
    phase = phase
    entry = entry
    Row <- MCRow
    Asking <- MCAsking
    MaxDrift = 2
    NearTheHead = 1
    MaxRows = 3
    SplitsLedgers = TRUE
    RebuildAlone = TRUE
    Faults <- CallsButHealth
    MaxLedger = 3
    MaxEvents = 3
    MaxFaults = 0
INVARIANT
    NothingSkipped
