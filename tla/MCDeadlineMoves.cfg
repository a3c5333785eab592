CONSTANTS
    VoteEnabled = TRUE
    MaxExtensions = 2
    MaxSeconds = 3
    InForce <- MCInForce
    Spendings <- MCSpendings
    Listable <- MCListable
    Instants = {1, 2, 3, 4, 5, 6}
    MaxMoves = 3
SPECIFICATION MovesSpec
INVARIANTS
    LoopMeetsItsOutcome
CHECK_DEADLOCK FALSE
