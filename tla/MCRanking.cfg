CONSTANTS
    j1 = j1
    j2 = j2
    v1 = v1
    v2 = v2
    TeamCount = 3
    Tracks <- MCTracks
    Judge = {j1, j2}
    Voter = {v1, v2}
    Bench <- MCBench
    Recused <- MCRecused
    Criterion = {"technical", "novelty"}
    Weight <- MCWeight
    MaxCriterionScore = 2
    WeightTotal = 3
    Card <- MCCards
    Ballot <- MCBallots
    JudgeBps = 8
    CommunityBps = 2
    Power = 2
    MaxChoices = 2
    Quorum = 1
    Chain <- MCChain
    Fields <- MCFields
SPECIFICATION RankingSpec
SYMMETRY Voters
INVARIANTS
    RankedByTheRules
    BetterIsNotPlacedLower
CHECK_DEADLOCK FALSE
