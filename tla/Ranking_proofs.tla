--------------------------- MODULE Ranking_proofs ---------------------------
(***************************************************************************)
(* Proofs about Ranking, for any number of teams, tracks, judges and       *)
(* voters, any rubric and any tie break chain a constitution may lock.     *)
(***************************************************************************)
EXTENDS Ranking, SumTheorems, WellFoundedInduction

-----------------------------------------------------------------------------
(* The order.                                                               *)

(* A set of positions has a first one.                                      *)
LEMMA FirstOf ==
    ASSUME NEW n \in Nat, NEW T \in SUBSET (1..n), T # {}
    PROVE  \E k \in T : \A l \in T : k <= l
<1> DEFINE upto  == {1..k : k \in T}
           R     == StrictSubsetOrdering(1..n)
<1>1. upto \subseteq FiniteSubsetsOf(1..n)
  <2> SUFFICES ASSUME NEW k \in T
               PROVE  1..k \in FiniteSubsetsOf(1..n)
    OBVIOUS
  <2>1. k \in Int /\ 1 \in Int
    OBVIOUS
  <2>2. IsFiniteSet(1..k)
    BY <2>1, FS_Interval
  <2> QED
    BY <2>2 DEF FiniteSubsetsOf
<1>2. upto # {}
  OBVIOUS
<1>3. IsWellFoundedOn(R, FiniteSubsetsOf(1..n))
  BY FS_StrictSubsetOrderingWellFounded
<1>4. PICK x \in upto : \A y \in upto : ~(<<y, x>> \in R)
  <2> HIDE DEF R, upto
  <2> QED
    BY <1>1, <1>2, <1>3, WFMin
<1>5. PICK k \in T : x = 1..k
  BY <1>4
<1>6. ASSUME NEW l \in T, ~(k <= l)
      PROVE  FALSE
  <2>1. 1..l \in upto
    OBVIOUS
  <2>2. 1..l \subseteq 1..k /\ 1..l # 1..k
    <3>1. k \in 1..k /\ k \notin 1..l
      BY <1>6
    <3>2. 1..l \subseteq 1..k
      BY <1>6
    <3> QED
      BY <3>1, <3>2
  <2>3. 1..l \in SUBSET (1..n) /\ 1..k \in SUBSET (1..n)
    OBVIOUS
  <2>4. <<1..l, 1..k>> \in R
    BY <2>2, <2>3 DEF StrictSubsetOrdering
  <2> QED
    BY <1>4, <1>5, <2>1, <2>4
<1> QED
  BY <1>6

(* What separates two candidates is a sequence of known steps, the last of  *)
(* which is the time of entry.                                              *)
LEMMA StepsAreRules ==
    /\ Steps \in Seq({"Score"} \cup Rule)
    /\ Len(Steps) = Len(Chain) + 1
    /\ Len(Steps) \in Nat
    /\ DOMAIN Steps = 1..Len(Steps)
    /\ Steps[Len(Steps)] = "SubmissionOrder"
BY RankingAssumption DEF Steps, Rule

(* Every step orders candidates: none is ahead of itself, being ahead and   *)
(* being level carry over, and two that are level with a third are level.   *)
LEMMA EveryStepIsAnOrder ==
    ASSUME NEW s \in {"Score"} \cup Rule,
           NEW a \in Candidate, NEW b \in Candidate, NEW c \in Candidate
    PROVE  /\ Ahead(a, b, s) => ~Ahead(b, a, s)
           /\ Ahead(a, b, s) /\ Ahead(b, c, s) => Ahead(a, c, s)
           /\ Ahead(a, b, s) /\ Level(b, c, s) => Ahead(a, c, s)
           /\ Level(a, b, s) /\ Ahead(b, c, s) => Ahead(a, c, s)
           /\ Level(a, b, s) /\ Level(b, c, s) => Level(a, c, s)
<1>1. CASE s = "Score"
  BY <1>1 DEF Ahead, Level, Candidate
<1>2. CASE s = "JudgeScore"
  BY <1>2 DEF Ahead, Level, Candidate
<1>3. CASE s = "CommunityScore"
  BY <1>3 DEF Ahead, Level, Candidate
<1>4. CASE s = "SubmissionOrder"
  <2>1. /\ a.team \in Int /\ b.team \in Int /\ c.team \in Int
        /\ a.submitted_at \in Int /\ b.submitted_at \in Int
        /\ c.submitted_at \in Int
    BY DEF Candidate, Team
  <2> QED
    BY <1>4, <2>1 DEF Ahead, Level, Earlier
<1>5. CASE s \in Criterion
  <2>1. s \notin {"Score", "JudgeScore", "CommunityScore", "SubmissionOrder"}
    BY <1>5, RankingAssumption
  <2>2. /\ a.criterion_averages[s] \in Int
        /\ b.criterion_averages[s] \in Int
        /\ c.criterion_averages[s] \in Int
    BY <1>5 DEF Candidate
  <2> QED
    BY <2>1, <2>2 DEF Ahead, Level
<1> QED
  BY <1>1, <1>2, <1>3, <1>4, <1>5 DEF Rule

(* The chain always separates two projects ("this never returns `Equal` for *)
(* two different projects", results.rs).                                    *)
THEOREM ChainSeparates ==
    ASSUME NEW a \in Candidate, NEW b \in Candidate, a.team # b.team
    PROVE  /\ \E k \in DOMAIN Steps : Separates(k, a, b)
           /\ Above(a, b) \/ Above(b, a)
<1> DEFINE T == {k \in DOMAIN Steps : ~Level(a, b, Steps[k])}
           n == Len(Steps)
<1>1. T \in SUBSET (1..n) /\ n \in Nat
  BY StepsAreRules
<1>2. n \in T
  <2>1. /\ a.team \in Int /\ b.team \in Int
        /\ a.submitted_at \in Int /\ b.submitted_at \in Int
    BY DEF Candidate, Team
  <2>2. ~Level(a, b, "SubmissionOrder")
    BY <2>1 DEF Ahead, Level, Earlier
  <2>3. n \in DOMAIN Steps
    BY StepsAreRules
  <2> QED
    BY <2>2, <2>3, StepsAreRules
<1>3. PICK k \in T : \A l \in T : k <= l
  <2> HIDE DEF T, n
  <2> QED
    BY <1>1, <1>2, FirstOf
<1>4. \A l \in 1..k - 1 : Level(a, b, Steps[l])
  <2> SUFFICES ASSUME NEW l \in 1..k - 1, ~Level(a, b, Steps[l])
               PROVE  FALSE
    OBVIOUS
  <2>1. k \in 1..n /\ n \in Nat
    BY <1>1
  <2>2. l \in DOMAIN Steps /\ ~(k <= l)
    <3> HIDE DEF n, T
    <3>1. l \in 1..n /\ ~(k <= l)
      BY <2>1
    <3> QED
      BY <3>1, StepsAreRules DEF n
  <2> QED
    BY <1>3, <2>2
<1>5. Separates(k, a, b)
  BY <1>3, <1>4 DEF Separates
<1>6. Separates(k, b, a)
  BY <1>5 DEF Separates, Level
<1>7. Ahead(a, b, Steps[k]) \/ Ahead(b, a, Steps[k])
  BY <1>3 DEF Level
<1> QED
  BY <1>3, <1>5, <1>6, <1>7 DEF Above

(* Who is above whom carries over.                                          *)
LEMMA AboveIsTransitive ==
    ASSUME NEW a \in Candidate, NEW b \in Candidate, NEW c \in Candidate,
           Above(a, b), Above(b, c)
    PROVE  Above(a, c)
<1>1. PICK k \in DOMAIN Steps : Separates(k, a, b) /\ Ahead(a, b, Steps[k])
  BY DEF Above
<1>2. PICK l \in DOMAIN Steps : Separates(l, b, c) /\ Ahead(b, c, Steps[l])
  BY DEF Above
<1>3. k \in 1..Len(Steps) /\ l \in 1..Len(Steps) /\ Len(Steps) \in Nat
  BY StepsAreRules
<1>4. \A m \in 1..Len(Steps) : Steps[m] \in {"Score"} \cup Rule
  BY StepsAreRules
<1>5. /\ \A m \in 1..k - 1 : Level(a, b, Steps[m])
      /\ \A m \in 1..l - 1 : Level(b, c, Steps[m])
  BY <1>1, <1>2 DEF Separates
<1>6. PICK m \in DOMAIN Steps : /\ m <= k /\ m <= l
                                /\ m = k \/ m = l
  BY <1>3
<1>7. \A i \in 1..m - 1 : Level(a, c, Steps[i])
  <2> SUFFICES ASSUME NEW i \in 1..m - 1
               PROVE  Level(a, c, Steps[i])
    OBVIOUS
  <2>1. i \in 1..k - 1 /\ i \in 1..l - 1 /\ i \in 1..Len(Steps)
    BY <1>3, <1>6
  <2>2. Level(a, b, Steps[i]) /\ Level(b, c, Steps[i])
    BY <1>5, <2>1
  <2>3. Steps[i] \in {"Score"} \cup Rule
    BY <1>4, <2>1
  <2> QED
    BY <2>2, <2>3, EveryStepIsAnOrder
<1>8. Ahead(a, c, Steps[m]) /\ ~Ahead(c, a, Steps[m])
  <2>1. Steps[m] \in {"Score"} \cup Rule
    BY <1>3, <1>4, <1>6
  <2>2. Ahead(a, b, Steps[m]) \/ Level(a, b, Steps[m])
    <3>1. CASE m = k
      BY <1>1, <3>1
    <3>2. CASE m # k
      <4>1. m \in 1..k - 1
        BY <1>3, <1>6, <3>2
      <4> QED
        BY <1>5, <4>1
    <3> QED
      BY <3>1, <3>2
  <2>3. Ahead(b, c, Steps[m]) \/ Level(b, c, Steps[m])
    <3>1. CASE m = l
      BY <1>2, <3>1
    <3>2. CASE m # l
      <4>1. m \in 1..l - 1
        BY <1>3, <1>6, <3>2
      <4> QED
        BY <1>5, <4>1
    <3> QED
      BY <3>1, <3>2
  <2>4. Ahead(a, b, Steps[m]) \/ Ahead(b, c, Steps[m])
    BY <1>1, <1>2, <1>6
  <2>5. Ahead(a, c, Steps[m])
    BY <2>1, <2>2, <2>3, <2>4, EveryStepIsAnOrder
  <2> QED
    BY <2>1, <2>5, EveryStepIsAnOrder
<1>9. Separates(m, a, c)
  BY <1>7, <1>8 DEF Separates, Level
<1> QED
  BY <1>6, <1>8, <1>9 DEF Above

(* Above is the order the ranking is read by, and DecidedBy its reason.     *)
LEMMA AboveIsRecorded ==
    ASSUME NEW a, NEW b, Above(a, b)
    PROVE  /\ Beats(a, b)
           /\ \E k \in DOMAIN Steps : /\ Steps[k] = DecidedBy(a, b)
                                      /\ Separates(k, a, b)
<1>1. PICK k \in DOMAIN Steps : Separates(k, a, b) /\ Ahead(a, b, Steps[k])
  BY DEF Above
<1>2. Beats(a, b)
  BY <1>1 DEF Beats, Separates
<1> DEFINE m == CHOOSE l \in DOMAIN Steps : Separates(l, a, b)
<1>3. m \in DOMAIN Steps /\ Separates(m, a, b)
  BY <1>1
<1> QED
  BY <1>2, <1>3 DEF DecidedBy

-----------------------------------------------------------------------------
(* The invariant.                                                           *)

Beside == {NoEntry} \cup [track : Track, submitted_at : Nat, valid : BOOLEAN]

(* The tally counts the recorded cards, although it is kept apart from them *)
(* (storage::save_score).                                                   *)
TallyCountsCards == \A t \in Team : tally[t].count = Cardinality(Recorded(t))

\* The track whose ranking is being built, and what is placed of it so far.
Placed == {ordered[k].team : k \in DOMAIN ordered}

(* Between two turns of the loop, what is ordered is what storage says of   *)
(* the teams taken so far that are to be ranked, and in order.              *)
LoopInv ==
    /\ phase = "reveal" => current = 1 /\ next = 1 /\ ordered = << >>
    /\ current > Len(Tracks) => next = 1 /\ ordered = << >>
    /\ \A k \in DOMAIN ordered :
          /\ ordered[k].team \in 1..next - 1
          /\ Ranked(ordered[k].team, Tracks[current])
    /\ \A t \in 1..next - 1 : Ranked(t, Tracks[current]) => t \in Placed
    /\ \A k \in DOMAIN ordered, l \in DOMAIN ordered :
          k < l => Above(ordered[k], ordered[l])

RankingInv ==
    /\ RankingTypeOK
    /\ TallyCountsCards
    /\ LoopInv
    /\ RankedByTheRules

(* Arithmetic kept apart: the full marks are a natural number, and the      *)
(* means, the community's share and the final score are numbers.            *)
LEMMA FullMarksAreNatural == MaxWeightedScore \in Nat /\ SplitTotal \in Nat \ {0}
BY RankingAssumption DEF MaxWeightedScore, SplitTotal

LEMMA DivisionIsANumber == \A a \in Int, b \in Nat \ {0} : a \div b \in Int
OBVIOUS

LEMMA AverageIsANumber ==
    ASSUME NEW sum \in Tally
    PROVE  Average(sum) \in Int
<1>1. CASE sum.count = 0
  BY <1>1 DEF Average
<1>2. CASE sum.count # 0
  <2>1. sum.total \in Int /\ sum.count \in Nat \ {0}
    BY <1>2 DEF Tally
  <2>2. sum.total \div sum.count \in Int
    BY <2>1, DivisionIsANumber
  <2> QED
    BY <1>2, <2>2 DEF Average
<1> QED
  BY <1>1, <1>2

LEMMA CommunityIsANumber ==
    ASSUME RankingTypeOK, NEW votes \in Nat
    PROVE  CommunityScore(votes) \in Int
<1>1. CASE top = 0
  BY <1>1 DEF CommunityScore
<1>2. CASE top # 0
  <2>1. votes * MaxWeightedScore \in Int
    BY FullMarksAreNatural
  <2>2. top \in Nat \ {0}
    BY <1>2 DEF RankingTypeOK
  <2>3. (votes * MaxWeightedScore) \div top \in Int
    BY <2>1, <2>2, DivisionIsANumber
  <2> QED
    BY <1>2, <2>3 DEF CommunityScore
<1> QED
  BY <1>1, <1>2

LEMMA CandidatesAreTyped ==
    ASSUME RankingTypeOK, NEW t \in Team, Entered(t)
    PROVE  /\ CandidateOf(t) \in Candidate
           /\ CandidateOf(t).team = t
<1>1. tally[t] \in Tally /\ vote_weight[t] \in Nat
  BY DEF RankingTypeOK
<1>2. \A c \in Criterion : marks[t][c] \in Tally
  BY DEF RankingTypeOK
<1>3. Average(tally[t]) \in Int
  BY <1>1, AverageIsANumber
<1>4. CommunityScore(vote_weight[t]) \in Int
  BY <1>1, CommunityIsANumber
<1>5. \A c \in Criterion : Average(marks[t][c]) \in Int
  BY <1>2, AverageIsANumber
<1>6. FinalScore(Average(tally[t]), CommunityScore(vote_weight[t])) \in Int
  <2> DEFINE a == Average(tally[t])
             b == CommunityScore(vote_weight[t])
  <2>1. a \in Int /\ b \in Int /\ JudgeBps \in Int /\ CommunityBps \in Int
    BY <1>3, <1>4, RankingAssumption
  <2> HIDE DEF a, b
  <2>2. a * JudgeBps \in Int /\ b * CommunityBps \in Int
    BY <2>1
  <2>3. a * JudgeBps + b * CommunityBps \in Int
    BY <2>2
  <2>4. (a * JudgeBps + b * CommunityBps) \div SplitTotal \in Int
    BY <2>3, FullMarksAreNatural, DivisionIsANumber
  <2> QED
    BY <2>4 DEF FinalScore, a, b
<1>7. submission[t].submitted_at \in Nat
  BY DEF RankingTypeOK, Entered
<1> QED
  BY <1>3, <1>4, <1>5, <1>6, <1>7 DEF CandidateOf, Candidate

(* A candidate and its standing are read from the storage, which only a     *)
(* reveal or a case changes.                                                *)
Settled == <<submission, revealed>>

LEMMA TracksAreDistinct ==
    /\ Len(Tracks) \in Nat
    /\ DOMAIN Tracks = 1..Len(Tracks)
    /\ \A n \in 1..Len(Tracks) : Tracks[n] \in Track
    /\ \A n \in 1..Len(Tracks), m \in 1..Len(Tracks) :
          Tracks[n] = Tracks[m] => n = m
BY RankingAssumption DEF Track

LEMMA RankingInitial == RankingInit => RankingInv
<1> SUFFICES ASSUME RankingInit
             PROVE  RankingInv
  OBVIOUS
<1>1. RankingTypeOK
  <2>1. submission \in [Team -> Beside]
    BY RankingAssumption DEF RankingInit, Beside
  <2>2. score \in [Team -> [Judge -> {Unscored} \cup 0..MaxWeightedScore]]
    BY DEF RankingInit
  <2>3. NoCards \in Tally
    BY DEF NoCards, Tally
  <2>4. tally \in [Team -> Tally] /\ marks \in [Team -> [Criterion -> Tally]]
    BY <2>3 DEF RankingInit
  <2>5. current \in 1..Len(Tracks) + 1 /\ next \in 1..TeamCount + 1
    BY TracksAreDistinct, RankingAssumption DEF RankingInit
  <2>6. ordered \in Seq(Candidate) /\ ranking \in [Track -> Seq(Placement)]
    BY DEF RankingInit
  <2>7. /\ phase \in {"reveal", "ranking", "finalized"}
        /\ voted \in SUBSET Voter
        /\ vote_weight \in [Team -> Nat]
        /\ top \in Nat
    BY DEF RankingInit
  <2> QED
    BY <2>1, <2>2, <2>4, <2>5, <2>6, <2>7 DEF RankingTypeOK, Beside
<1>2. TallyCountsCards
  <2>1. \A t \in Team : Recorded(t) = {}
    BY DEF RankingInit, Recorded
  <2>2. Cardinality({}) = 0
    BY FS_EmptySet
  <2> QED
    BY <2>1, <2>2 DEF RankingInit, TallyCountsCards, NoCards
<1>3. LoopInv
  BY TracksAreDistinct DEF RankingInit, LoopInv, Placed
<1>4. RankedByTheRules
  BY DEF RankingInit, RankedByTheRules
<1> QED
  BY <1>1, <1>2, <1>3, <1>4 DEF RankingInv

-----------------------------------------------------------------------------
(* Reveal.                                                                  *)

(* While cards and ballots are opened there is nothing ranked yet.          *)
LEMMA NothingRankedYet ==
    ASSUME RankingInv, phase = "reveal", UNCHANGED <<phase, loop>>
    PROVE  LoopInv' /\ RankedByTheRules'
<1>1. /\ phase' = phase /\ current' = current /\ next' = next
      /\ ordered' = ordered
  BY DEF loop
<1>2. current = 1 /\ next = 1 /\ ordered = << >>
  BY DEF RankingInv, LoopInv
<1>3. LoopInv'
  BY <1>1, <1>2, TracksAreDistinct DEF LoopInv, Placed
<1>4. RankedByTheRules'
  BY <1>1, <1>2 DEF RankedByTheRules
<1> QED
  BY <1>3, <1>4

LEMMA RevealScoreStep ==
    ASSUME RankingInv, NEW j \in Judge, NEW t \in Team, NEW card \in Card,
           RevealScore(j, t, card)
    PROVE  RankingInv'
<1> DEFINE w == WeightedTotal(card)
<1>1. w \in 0..MaxWeightedScore /\ card \in [Criterion -> 0..MaxCriterionScore]
  BY RankingAssumption
<1>2. /\ RankingTypeOK /\ TallyCountsCards
      /\ phase = "reveal" /\ UNCHANGED <<phase, loop>>
  BY DEF RankingInv, RevealScore
<1>3. LoopInv' /\ RankedByTheRules'
  BY <1>2, NothingRankedYet
<1>4. /\ score' = [score EXCEPT ![t][j] = w]
      /\ tally' = [tally EXCEPT ![t] = Bumped(tally[t], w)]
      /\ marks' = [marks EXCEPT
            ![t] = [c \in Criterion |-> Bumped(marks[t][c], card[c])]]
      /\ UNCHANGED <<phase, submission, voted, vote_weight, top, loop>>
      /\ score[t][j] = Unscored
  BY DEF RevealScore
<1> HIDE DEF w
<1>5. w \in Nat /\ \A c \in Criterion : card[c] \in Nat
  BY <1>1, FullMarksAreNatural, RankingAssumption
<1>6. RankingTypeOK'
  <2>1. score' \in [Team -> [Judge -> {Unscored} \cup 0..MaxWeightedScore]]
    BY <1>1, <1>2, <1>4 DEF RankingTypeOK
  <2>2. Bumped(tally[t], w) \in Tally
    BY <1>2, <1>5 DEF RankingTypeOK, Tally, Bumped
  <2>3. tally' \in [Team -> Tally]
    BY <1>2, <1>4, <2>2 DEF RankingTypeOK
  <2>4. [c \in Criterion |-> Bumped(marks[t][c], card[c])] \in [Criterion -> Tally]
    BY <1>2, <1>5 DEF RankingTypeOK, Tally, Bumped
  <2>5. marks' \in [Team -> [Criterion -> Tally]]
    BY <1>2, <1>4, <2>4 DEF RankingTypeOK
  <2> QED
    BY <1>2, <1>4, <2>1, <2>3, <2>5 DEF RankingTypeOK, loop
<1>7. TallyCountsCards'
  <2> SUFFICES ASSUME NEW u \in Team
               PROVE  tally'[u].count = Cardinality(Recorded(u)')
    BY DEF TallyCountsCards
  <2>1. CASE u = t
    <3>1. w # Unscored
      BY <1>5 DEF Unscored
    <3>2. Recorded(t)' = Recorded(t) \cup {j} /\ j \notin Recorded(t)
      BY <1>2, <1>4, <3>1 DEF Recorded, RankingTypeOK
    <3>3. IsFiniteSet(Recorded(t))
      BY FS_Subset, RankingAssumption DEF Recorded
    <3>4. Cardinality(Recorded(t)') = Cardinality(Recorded(t)) + 1
      BY <3>2, <3>3, FS_AddElement
    <3>5. tally'[t].count = tally[t].count + 1
      BY <1>2, <1>4 DEF Bumped, RankingTypeOK
    <3> QED
      BY <1>2, <2>1, <3>4, <3>5 DEF TallyCountsCards
  <2>2. CASE u # t
    <3>1. Recorded(u)' = Recorded(u)
      BY <1>2, <1>4, <2>2 DEF Recorded, RankingTypeOK
    <3>2. tally'[u] = tally[u]
      BY <1>2, <1>4, <2>2 DEF RankingTypeOK
    <3> QED
      BY <1>2, <3>1, <3>2 DEF TallyCountsCards
  <2> QED
    BY <2>1, <2>2
<1> QED
  BY <1>3, <1>6, <1>7 DEF RankingInv

LEMMA RevealBallotStep ==
    ASSUME RankingInv, NEW v \in Voter, NEW chosen \in Ballot,
           RevealBallot(v, chosen)
    PROVE  RankingInv'
<1>1. PICK T \in SUBSET Team : chosen \in [T -> Nat \ {0}]
  BY RankingAssumption
<1>2. /\ RankingTypeOK /\ TallyCountsCards
      /\ phase = "reveal" /\ UNCHANGED <<phase, loop>>
      /\ UNCHANGED <<submission, score, tally, marks>>
      /\ voted' = voted \cup {v}
      /\ AddVoteWeight(chosen)
  BY DEF RankingInv, RevealBallot
<1>3. LoopInv' /\ RankedByTheRules'
  BY <1>2, NothingRankedYet
<1>4. TallyCountsCards'
  BY <1>2 DEF TallyCountsCards, Recorded
<1>5. vote_weight' \in [Team -> Nat]
  <2>1. \A t \in Team : vote_weight[t] \in Nat
    BY <1>2 DEF RankingTypeOK
  <2>2. \A t \in Counted(chosen) : chosen[t] \in Nat
    BY <1>1 DEF Counted
  <2>3. \A t \in Team :
           vote_weight[t] + (IF t \in Counted(chosen) THEN chosen[t] ELSE 0) \in Nat
    BY <2>1, <2>2
  <2> QED
    BY <1>2, <2>3 DEF AddVoteWeight
<1>6. top' \in Nat
  <2>1. Counted(chosen) \subseteq Team
    BY <1>1 DEF Counted
  <2> QED
    BY <1>2, <1>5, <2>1 DEF AddVoteWeight, RankingTypeOK
<1>7. RankingTypeOK'
  BY <1>2, <1>5, <1>6 DEF RankingTypeOK, loop
<1> QED
  BY <1>3, <1>4, <1>7 DEF RankingInv

LEMMA DisqualifyStep ==
    ASSUME RankingInv, NEW t \in Team, Disqualify(t)
    PROVE  RankingInv'
<1>1. /\ RankingTypeOK /\ TallyCountsCards
      /\ phase = "reveal" /\ UNCHANGED <<phase, loop>>
      /\ UNCHANGED revealed
      /\ submission[t].valid
      /\ submission' = [submission EXCEPT ![t].valid = FALSE]
  BY DEF RankingInv, Disqualify
<1>2. LoopInv' /\ RankedByTheRules'
  BY <1>1, NothingRankedYet
<1>3. TallyCountsCards'
  BY <1>1 DEF TallyCountsCards, Recorded, revealed
<1>4. submission' \in [Team -> Beside]
  <2>1. submission \in [Team -> Beside]
    BY <1>1 DEF RankingTypeOK, Beside
  <2>2. submission[t] # NoEntry
    BY <1>1 DEF NoEntry
  <2>3. submission[t] \in [track : Track, submitted_at : Nat, valid : BOOLEAN]
    BY <2>1, <2>2 DEF Beside
  <2>4. [submission[t] EXCEPT !.valid = FALSE] \in Beside
    BY <2>3 DEF Beside
  <2> QED
    BY <1>1, <2>1, <2>4
<1>5. RankingTypeOK'
  BY <1>1, <1>4 DEF RankingTypeOK, revealed, loop, Beside
<1> QED
  BY <1>2, <1>3, <1>5 DEF RankingInv

-----------------------------------------------------------------------------
(* finalize_results.                                                        *)

(* Nothing a ranking is computed from changes while it is computed.         *)
LEMMA StorageStands ==
    ASSUME RankingInv, UNCHANGED Settled
    PROVE  /\ TallyCountsCards'
           /\ \A t, r : Ranked(t, r)' = Ranked(t, r)
           /\ \A t : CandidateOf(t)' = CandidateOf(t)
           /\ \A r : Standing(r)' = Standing(r)
<1>1. /\ submission' = submission /\ score' = score /\ tally' = tally
      /\ marks' = marks /\ vote_weight' = vote_weight /\ top' = top
  BY DEF Settled, revealed
<1>2. TallyCountsCards'
  BY <1>1 DEF RankingInv, TallyCountsCards, Recorded
<1>3. \A t, r : Ranked(t, r)' = Ranked(t, r)
  BY <1>1 DEF Ranked, ReachesQuorum
<1>4. \A t : CandidateOf(t)' = CandidateOf(t)
  BY <1>1 DEF CandidateOf, CommunityScore
<1>5. \A r : Standing(r)' = Standing(r)
  BY <1>1 DEF Standing, Recorded
<1> QED
  BY <1>2, <1>3, <1>4, <1>5

LEMMA FinalizeStep ==
    ASSUME RankingInv, Finalize
    PROVE  RankingInv'
<1>1. /\ UNCHANGED Settled /\ phase = "reveal" /\ phase' = "ranking"
      /\ UNCHANGED loop
  BY DEF Finalize, Settled
<1>2. current = 1 /\ next = 1 /\ ordered = << >> /\ RankingTypeOK
  BY <1>1 DEF RankingInv, LoopInv
<1>3. TallyCountsCards'
  BY <1>1, StorageStands
<1>4. LoopInv' /\ RankedByTheRules'
  BY <1>1, <1>2, TracksAreDistinct
  DEF LoopInv, Placed, RankedByTheRules, loop
<1>5. RankingTypeOK'
  BY <1>1, <1>2 DEF RankingTypeOK, Settled, revealed, loop
<1> QED
  BY <1>3, <1>4, <1>5 DEF RankingInv

LEMMA CloseStep ==
    ASSUME RankingInv, Close
    PROVE  RankingInv'
<1>1. /\ UNCHANGED Settled /\ phase' = "finalized" /\ UNCHANGED loop
      /\ current > Len(Tracks)
  BY DEF Close, Settled
<1>2. RankingTypeOK /\ LoopInv /\ RankedByTheRules
  BY DEF RankingInv
<1>3. TallyCountsCards'
  BY <1>1, StorageStands
<1>4. LoopInv'
  <2>1. current' = current /\ next' = next /\ ordered' = ordered
    BY <1>1 DEF loop
  <2>2. next = 1 /\ ordered = << >>
    BY <1>1, <1>2 DEF LoopInv
  <2> QED
    BY <1>1, <2>1, <2>2 DEF LoopInv, Placed
<1>5. RankedByTheRules'
  <2>1. current' = current /\ ranking' = ranking
    BY <1>1 DEF loop
  <2>2. \A r : Standing(r)' = Standing(r)
    BY <1>1, StorageStands
  <2> QED
    BY <1>2, <2>1, <2>2 DEF RankedByTheRules, Follows, Beats
<1>6. RankingTypeOK'
  BY <1>1, <1>2 DEF RankingTypeOK, Settled, revealed, loop
<1> QED
  BY <1>3, <1>4, <1>5, <1>6 DEF RankingInv

(* What is placed where the loop stops leaves what is ordered in order.     *)
LEMMA InsertionKeepsOrder ==
    ASSUME ordered \in Seq(Candidate), NEW c \in Candidate,
           NEW at \in 0..Len(ordered), StopsAt(at, c),
           \A k \in DOMAIN ordered : ordered[k].team # c.team,
           \A k \in DOMAIN ordered, l \in DOMAIN ordered :
              k < l => Above(ordered[k], ordered[l])
    PROVE  LET longer == InsertedAt(at, c)
           IN  /\ longer \in Seq(Candidate)
               /\ DOMAIN longer = 1..Len(ordered) + 1
               /\ \A k \in DOMAIN longer :
                     longer[k] = c \/ \E l \in DOMAIN ordered : longer[k] = ordered[l]
               /\ \E k \in DOMAIN longer : longer[k] = c
               /\ \A l \in DOMAIN ordered :
                     \E k \in DOMAIN longer : longer[k] = ordered[l]
               /\ \A k \in DOMAIN longer, l \in DOMAIN longer :
                     k < l => Above(longer[k], longer[l])
<1> DEFINE n      == Len(ordered)
           longer == InsertedAt(at, c)
<1>1. /\ n \in Nat /\ at \in 0..n /\ DOMAIN ordered = 1..n
      /\ \A k \in 1..n : ordered[k] \in Candidate
  OBVIOUS
<1>2. /\ longer = [k \in 1..n + 1 |->
            IF k <= at THEN ordered[k]
            ELSE IF k = at + 1 THEN c ELSE ordered[k - 1]]
  BY DEF InsertedAt
<1> HIDE DEF longer, n
<1>3. DOMAIN longer = 1..n + 1
  BY <1>2
<1>4. /\ \A k \in 1..at : longer[k] = ordered[k]
      /\ longer[at + 1] = c
      /\ \A k \in at + 2..n + 1 : longer[k] = ordered[k - 1] /\ k - 1 \in 1..n
  BY <1>1, <1>2
<1>5. \A k \in 1..n + 1 : k \in 1..at \/ k = at + 1 \/ k \in at + 2..n + 1
  BY <1>1
<1>6. \A k \in at + 1..n : Above(c, ordered[k])
  BY DEF StopsAt, n
<1>7. \A k \in 1..at : Above(ordered[k], c)
  <2> SUFFICES ASSUME NEW k \in 1..at
               PROVE  Above(ordered[k], c)
    OBVIOUS
  <2>1. at > 0 /\ at \in 1..n /\ k \in 1..n
    BY <1>1
  <2>2. ordered[at] \in Candidate /\ ordered[k] \in Candidate
    BY <1>1, <2>1
  <2>3. ~Above(c, ordered[at]) /\ ordered[at].team # c.team
    BY <1>1, <2>1 DEF StopsAt
  <2>4. Above(ordered[at], c)
    BY <2>2, <2>3, ChainSeparates
  <2>5. CASE k = at
    BY <2>4, <2>5
  <2>6. CASE k # at
    <3>1. k < at
      BY <1>1, <2>1, <2>6
    <3>2. Above(ordered[k], ordered[at])
      BY <1>1, <2>1, <3>1
    <3> QED
      BY <2>2, <2>4, <3>2, AboveIsTransitive
  <2> QED
    BY <2>5, <2>6
<1>8. longer \in Seq(Candidate)
  <2>1. \A k \in 1..n + 1 : longer[k] \in Candidate
    <3> SUFFICES ASSUME NEW k \in 1..n + 1
                 PROVE  longer[k] \in Candidate
      OBVIOUS
    <3>1. CASE k \in 1..at
      BY <1>1, <1>4, <3>1
    <3>2. CASE k = at + 1
      BY <1>4, <3>2
    <3>3. CASE k \in at + 2..n + 1
      BY <1>1, <1>4, <3>3
    <3> QED
      BY <1>5, <3>1, <3>2, <3>3
  <2>2. longer \in [1..n + 1 -> Candidate]
    BY <1>2, <1>3, <2>1
  <2>3. n + 1 \in Nat
    BY <1>1
  <2> QED
    BY <2>2, <2>3
<1>9. \A k \in 1..n + 1 :
         longer[k] = c \/ \E l \in 1..n : longer[k] = ordered[l]
  <2> SUFFICES ASSUME NEW k \in 1..n + 1, longer[k] # c
               PROVE  \E l \in 1..n : longer[k] = ordered[l]
    OBVIOUS
  <2>1. CASE k \in 1..at
    <3>1. k \in 1..n
      BY <1>1, <2>1
    <3> QED
      BY <1>4, <2>1, <3>1
  <2>2. CASE k \in at + 2..n + 1
    BY <1>4, <2>2
  <2> QED
    BY <1>4, <1>5, <2>1, <2>2
<1>10. \E k \in 1..n + 1 : longer[k] = c
  <2>1. at + 1 \in 1..n + 1
    BY <1>1
  <2> QED
    BY <1>4, <2>1
<1>11. \A l \in 1..n : \E k \in 1..n + 1 : longer[k] = ordered[l]
  <2> SUFFICES ASSUME NEW l \in 1..n
               PROVE  \E k \in 1..n + 1 : longer[k] = ordered[l]
    OBVIOUS
  <2>1. CASE l <= at
    <3>1. l \in 1..at /\ l \in 1..n + 1
      BY <1>1, <2>1
    <3> QED
      BY <1>4, <3>1
  <2>2. CASE l > at
    <3>1. l + 1 \in at + 2..n + 1 /\ l + 1 \in 1..n + 1 /\ (l + 1) - 1 = l
      BY <1>1, <2>2
    <3> QED
      BY <1>4, <3>1
  <2> QED
    BY <1>1, <2>1, <2>2
<1>12. \A k \in 1..n + 1, l \in 1..n + 1 : k < l => Above(longer[k], longer[l])
  <2> SUFFICES ASSUME NEW k \in 1..n + 1, NEW l \in 1..n + 1, k < l
               PROVE  Above(longer[k], longer[l])
    OBVIOUS
  <2>1. CASE k \in 1..at /\ l \in 1..at
    <3>1. k \in 1..n /\ l \in 1..n
      BY <1>1, <2>1
    <3> QED
      BY <1>1, <1>4, <2>1, <3>1
  <2>2. CASE k \in 1..at /\ l = at + 1
    BY <1>4, <1>7, <2>2
  <2>3. CASE k \in 1..at /\ l \in at + 2..n + 1
    <3>1. k \in 1..n /\ l - 1 \in 1..n /\ k < l - 1
      BY <1>1, <2>3
    <3> QED
      BY <1>1, <1>4, <2>3, <3>1
  <2>4. CASE k = at + 1
    <3>1. l \in at + 2..n + 1 /\ l - 1 \in at + 1..n
      BY <1>1, <2>4
    <3> QED
      BY <1>4, <1>6, <2>4, <3>1
  <2>5. CASE k \in at + 2..n + 1
    <3>1. /\ l \in at + 2..n + 1
          /\ k - 1 \in 1..n /\ l - 1 \in 1..n /\ k - 1 < l - 1
      BY <1>1, <2>5
    <3> QED
      BY <1>1, <1>4, <2>5, <3>1
  <2> QED
    BY <1>1, <1>5, <2>1, <2>2, <2>3, <2>4, <2>5
<1> QED
  BY <1>1, <1>3, <1>8, <1>9, <1>10, <1>11, <1>12 DEF longer, n

LEMMA PlaceStep ==
    ASSUME RankingInv, Place
    PROVE  RankingInv'
<1>1. /\ UNCHANGED Settled /\ phase = "ranking" /\ UNCHANGED phase
      /\ current <= Len(Tracks) /\ next <= TeamCount
      /\ current' = current /\ ranking' = ranking /\ next' = next + 1
  BY DEF Place, Settled
<1>2. RankingTypeOK /\ TallyCountsCards /\ LoopInv /\ RankedByTheRules
  BY DEF RankingInv
<1>3. /\ next \in Team /\ next \in Nat /\ next' - 1 = next /\ TeamCount \in Nat
      /\ next >= 1 /\ ~(current > Len(Tracks))
  BY <1>1, <1>2, RankingAssumption, TracksAreDistinct DEF RankingTypeOK, Team
<1>4. TallyCountsCards'
  BY <1>1, StorageStands
<1>5. RankedByTheRules'
  <2>1. \A r : Standing(r)' = Standing(r)
    BY <1>1, StorageStands
  <2>2. current' = current /\ ranking' = ranking
    BY <1>1
  <2> QED
    BY <1>2, <2>1, <2>2 DEF RankedByTheRules, Follows, Beats
<1> DEFINE r == Tracks[current]
<1>6. r \in Track
  BY <1>1, <1>2, TracksAreDistinct DEF RankingTypeOK
<1>7. ordered' \in Seq(Candidate) /\ LoopInv'
  <2>1. CASE ~Ranked(next, r)
    <3>1. ordered' = ordered
      BY <2>1 DEF Place
    <3>2. ordered' \in Seq(Candidate)
      BY <1>2, <3>1 DEF RankingTypeOK
    <3>3. \A k \in DOMAIN ordered :
             ordered[k].team \in 1..next /\ Ranked(ordered[k].team, r)
      BY <1>2, <1>3 DEF LoopInv
    <3>4. \A t \in 1..next : Ranked(t, r) => t \in Placed
      <4> SUFFICES ASSUME NEW t \in 1..next, Ranked(t, r)
                   PROVE  t \in Placed
        OBVIOUS
      <4>1. t # next
        BY <2>1
      <4>2. t \in 1..next - 1
        BY <1>3, <4>1
      <4> QED
        BY <1>2, <4>2 DEF LoopInv
    <3>5. Placed' = Placed
      BY <3>1 DEF Placed
    <3>6. \A k \in DOMAIN ordered, l \in DOMAIN ordered :
             k < l => Above(ordered[k], ordered[l])
      BY <1>2 DEF LoopInv
    <3>7. LoopInv'
      BY <1>1, <1>3, <3>1, <3>3, <3>4, <3>5, <3>6
      DEF LoopInv, Ranked, ReachesQuorum, Settled, revealed
    <3> QED
      BY <3>2, <3>7
  <2>2. CASE Ranked(next, r)
    <3> DEFINE c == CandidateOf(next)
    <3>1. Entered(next)
      BY <1>6, <2>2, RankingAssumption DEF Entered, Ranked, NoEntry
    <3>2. c \in Candidate /\ c.team = next
      BY <1>2, <1>3, <3>1, CandidatesAreTyped
    <3> HIDE DEF c
    <3>3. PICK at \in 0..Len(ordered) :
             StopsAt(at, c) /\ ordered' = InsertedAt(at, c)
      BY <2>2 DEF Place, Insert, c
    <3>4. ordered \in Seq(Candidate)
      BY <1>2 DEF RankingTypeOK
    <3>5. \A k \in DOMAIN ordered :
             /\ ordered[k].team \in 1..next - 1
             /\ Ranked(ordered[k].team, r)
      BY <1>2 DEF LoopInv
    <3>6. \A k \in DOMAIN ordered : ordered[k].team # c.team
      BY <1>3, <3>2, <3>5
    <3>7. \A k \in DOMAIN ordered, l \in DOMAIN ordered :
             k < l => Above(ordered[k], ordered[l])
      BY <1>2 DEF LoopInv
    <3>8. /\ ordered' \in Seq(Candidate)
          /\ \A k \in DOMAIN ordered' :
                ordered'[k] = c \/ \E l \in DOMAIN ordered : ordered'[k] = ordered[l]
          /\ \E k \in DOMAIN ordered' : ordered'[k] = c
          /\ \A l \in DOMAIN ordered :
                \E k \in DOMAIN ordered' : ordered'[k] = ordered[l]
          /\ \A k \in DOMAIN ordered', l \in DOMAIN ordered' :
                k < l => Above(ordered'[k], ordered'[l])
      BY <3>2, <3>3, <3>4, <3>6, <3>7, InsertionKeepsOrder
    <3>9. \A k \in DOMAIN ordered' :
             ordered'[k].team \in 1..next /\ Ranked(ordered'[k].team, r)
      <4>1. 1..next - 1 \subseteq 1..next /\ next \in 1..next
        BY <1>3
      <4> SUFFICES ASSUME NEW k \in DOMAIN ordered'
                   PROVE  /\ ordered'[k].team \in 1..next
                          /\ Ranked(ordered'[k].team, r)
        OBVIOUS
      <4>2. CASE ordered'[k] = c
        BY <2>2, <3>2, <4>1, <4>2
      <4>3. CASE \E l \in DOMAIN ordered : ordered'[k] = ordered[l]
        BY <3>5, <4>1, <4>3
      <4> QED
        BY <3>8, <4>2, <4>3
    <3>10. \A t \in 1..next : Ranked(t, r) => t \in Placed'
      <4> SUFFICES ASSUME NEW t \in 1..next, Ranked(t, r)
                   PROVE  \E k \in DOMAIN ordered' : ordered'[k].team = t
        BY DEF Placed
      <4>1. CASE t = next
        BY <3>2, <3>8, <4>1
      <4>2. CASE t # next
        <5>1. t \in 1..next - 1
          BY <1>3, <4>2
        <5>2. PICK l \in DOMAIN ordered : ordered[l].team = t
          BY <1>2, <5>1 DEF LoopInv, Placed
        <5> QED
          BY <3>8, <5>2
      <4> QED
        BY <4>1, <4>2
    <3>11. LoopInv'
      BY <1>1, <1>3, <3>8, <3>9, <3>10
      DEF LoopInv, Ranked, ReachesQuorum, Settled, revealed
    <3> QED
      BY <3>8, <3>11
  <2> QED
    BY <2>1, <2>2
<1>8. RankingTypeOK'
  <2>1. next' \in 1..TeamCount + 1
    BY <1>1, <1>3
  <2> QED
    BY <1>1, <1>2, <1>7, <2>1 DEF RankingTypeOK, Settled, revealed
<1> QED
  BY <1>4, <1>5, <1>7, <1>8 DEF RankingInv

LEMMA SaveRankingStep ==
    ASSUME RankingInv, SaveRanking
    PROVE  RankingInv'
<1> DEFINE r == Tracks[current]
<1>1. /\ UNCHANGED Settled /\ phase = "ranking" /\ UNCHANGED phase
      /\ current <= Len(Tracks) /\ next > TeamCount
      /\ current' = current + 1 /\ next' = 1 /\ ordered' = << >>
      /\ ranking' = [ranking EXCEPT ![r] = Placements]
  BY DEF SaveRanking, Settled
<1>2. RankingTypeOK /\ TallyCountsCards /\ LoopInv /\ RankedByTheRules
  BY DEF RankingInv
<1>3. /\ current \in 1..Len(Tracks) /\ Len(Tracks) \in Nat
      /\ r \in Track
      /\ \A n \in 1..current - 1 : Tracks[n] # r /\ Tracks[n] \in Track
  BY <1>1, <1>2, TracksAreDistinct DEF RankingTypeOK
<1>4. 1..next - 1 = Team
  BY <1>1, <1>2, RankingAssumption DEF RankingTypeOK, Team
<1>5. TallyCountsCards'
  BY <1>1, StorageStands
<1>6. LoopInv'
  BY <1>1 DEF LoopInv, Placed
<1> DEFINE n == Len(ordered)
<1>7. /\ n \in Nat /\ DOMAIN ordered = 1..n
      /\ \A k \in 1..n : ordered[k] \in Candidate
  BY <1>2 DEF RankingTypeOK
<1>8. \A k \in 1..n, l \in 1..n : k < l => Above(ordered[k], ordered[l])
  BY <1>2, <1>7 DEF LoopInv
<1>9. /\ DOMAIN Placements = 1..n
      /\ \A k \in 1..n :
            /\ Placements[k].candidate = ordered[k]
            /\ Placements[k].rank = k
            /\ Placements[k].decided_by =
                  IF k = 1 THEN "Score" ELSE DecidedBy(ordered[k - 1], ordered[k])
  BY DEF Placements
<1>10. \A k \in 1..n : k > 1 => Follows(Placements, k)
  <2> SUFFICES ASSUME NEW k \in 1..n, k > 1
               PROVE  Follows(Placements, k)
    OBVIOUS
  <2>1. k - 1 \in 1..n /\ k - 1 < k /\ k # 1
    BY <1>7
  <2>2. Above(ordered[k - 1], ordered[k])
    BY <1>8, <2>1
  <2>3. Beats(ordered[k - 1], ordered[k])
    BY <2>2, AboveIsRecorded
  <2>4. PICK l \in DOMAIN Steps :
           /\ Steps[l] = DecidedBy(ordered[k - 1], ordered[k])
           /\ Separates(l, ordered[k - 1], ordered[k])
    BY <2>2, AboveIsRecorded
  <2>5. /\ Placements[k - 1].candidate = ordered[k - 1]
        /\ Placements[k].candidate = ordered[k]
        /\ Placements[k].decided_by = DecidedBy(ordered[k - 1], ordered[k])
    BY <1>9, <2>1
  <2> QED
    BY <2>3, <2>4, <2>5 DEF Follows, Separates
<1>11. Placements \in Seq(Placement)
  <2>1. \A k \in 1..n : Placements[k].decided_by \in {"Score"} \cup Rule
    <3> SUFFICES ASSUME NEW k \in 1..n
                 PROVE  Placements[k].decided_by \in {"Score"} \cup Rule
      OBVIOUS
    <3>1. CASE k = 1
      BY <1>9, <3>1
    <3>2. CASE k # 1
      <4>1. k - 1 \in 1..n /\ k - 1 < k
        BY <1>7, <3>2
      <4>2. Above(ordered[k - 1], ordered[k])
        BY <1>8, <4>1
      <4>3. PICK l \in DOMAIN Steps :
               Steps[l] = DecidedBy(ordered[k - 1], ordered[k])
        BY <4>2, AboveIsRecorded
      <4>4. Steps[l] \in {"Score"} \cup Rule
        BY <4>3, StepsAreRules
      <4> QED
        BY <1>9, <3>2, <4>3, <4>4
    <3> QED
      BY <3>1, <3>2
  <2>2. Placements =
          [k \in 1..n |-> [candidate |-> ordered[k], rank |-> k,
                           decided_by |-> Placements[k].decided_by]]
    BY <1>9 DEF Placements
  <2>3. \A k \in 1..n : Placements[k] \in Placement
    <3> SUFFICES ASSUME NEW k \in 1..n
                 PROVE  Placements[k] \in Placement
      OBVIOUS
    <3>1. Placements[k].decided_by \in {"Score"} \cup Rule
      BY <2>1
    <3>2. Placements[k] = [candidate |-> ordered[k], rank |-> k,
                           decided_by |-> Placements[k].decided_by]
      BY <2>2
    <3>3. ordered[k] \in Candidate /\ k \in Nat
      BY <1>7
    <3> QED
      BY <3>1, <3>2, <3>3 DEF Placement
  <2>4. Placements \in [1..n -> Placement]
    BY <2>3 DEF Placements
  <2> QED
    BY <1>7, <2>4
<1>12. {Placements[k].candidate.team : k \in DOMAIN Placements} = Standing(r)
  <2>1. {Placements[k].candidate.team : k \in DOMAIN Placements} = Placed
    BY <1>7, <1>9 DEF Placed
  <2>2. \A k \in DOMAIN ordered : ordered[k].team \in Team /\ Ranked(ordered[k].team, r)
    BY <1>2, <1>4 DEF LoopInv
  <2>3. \A t \in Team : Ranked(t, r) => t \in Placed
    BY <1>2, <1>4 DEF LoopInv
  <2>4. Placed = {t \in Team : Ranked(t, r)}
    <3>1. \A t \in Placed : t \in Team /\ Ranked(t, r)
      BY <2>2 DEF Placed
    <3> QED
      BY <2>3, <3>1
  <2>5. {t \in Team : Ranked(t, r)} = Standing(r)
    BY <1>2 DEF Ranked, ReachesQuorum, Standing, TallyCountsCards
  <2> QED
    BY <2>1, <2>4, <2>5
<1>13. \A k \in DOMAIN Placements, l \in DOMAIN Placements :
          k < l => Beats(Placements[k].candidate, Placements[l].candidate)
  BY <1>8, <1>9, AboveIsRecorded
<1> DEFINE Good(places, standing) ==
              /\ {places[k].candidate.team : k \in DOMAIN places} = standing
              /\ \A k \in DOMAIN places, l \in DOMAIN places :
                    k < l => Beats(places[k].candidate, places[l].candidate)
              /\ \A k \in DOMAIN places : k > 1 => Follows(places, k)
<1>14. Good(Placements, Standing(r))
  BY <1>9, <1>10, <1>12, <1>13
<1>15. \A m \in 1..current - 1 : Good(ranking[Tracks[m]], Standing(Tracks[m]))
  BY <1>2 DEF RankedByTheRules
<1> HIDE DEF Good, n
<1>16. \A m \in 1..current' - 1 : Good(ranking'[Tracks[m]], Standing(Tracks[m]))
  <2> SUFFICES ASSUME NEW m \in 1..current' - 1
               PROVE  Good(ranking'[Tracks[m]], Standing(Tracks[m]))
    OBVIOUS
  <2>1. CASE m = current
    <3>1. ranking'[r] = Placements
      BY <1>1, <1>2, <1>3 DEF RankingTypeOK
    <3> QED
      BY <1>14, <2>1, <3>1
  <2>2. CASE m # current
    <3>1. m \in 1..current - 1
      BY <1>1, <1>3, <2>2
    <3>2. ranking'[Tracks[m]] = ranking[Tracks[m]]
      BY <1>1, <1>2, <1>3, <3>1 DEF RankingTypeOK
    <3> QED
      BY <1>15, <3>1, <3>2
  <2> QED
    BY <2>1, <2>2
<1>17. RankedByTheRules'
  <2>1. \A x : Standing(x)' = Standing(x)
    BY <1>1, StorageStands
  <2> QED
    BY <1>16, <2>1 DEF RankedByTheRules, Good, Follows, Beats
<1>18. RankingTypeOK'
  <2>1. ranking' \in [Track -> Seq(Placement)]
    BY <1>1, <1>2, <1>3, <1>11 DEF RankingTypeOK
  <2>2. current' \in 1..Len(Tracks) + 1 /\ next' \in 1..TeamCount + 1
    BY <1>1, <1>3, RankingAssumption
  <2>3. ordered' \in Seq(Candidate)
    BY <1>1
  <2> QED
    BY <1>1, <1>2, <2>1, <2>2, <2>3 DEF RankingTypeOK, Settled, revealed
<1> QED
  BY <1>5, <1>6, <1>17, <1>18 DEF RankingInv

LEMMA RankingInductive == RankingInv /\ [RankingNext]_vars => RankingInv'
<1> SUFFICES ASSUME RankingInv, [RankingNext]_vars
             PROVE  RankingInv'
  OBVIOUS
<1>1. CASE Revealing
  BY <1>1, RevealScoreStep, RevealBallotStep, DisqualifyStep DEF Revealing
<1>2. CASE Finalize
  BY <1>2, FinalizeStep
<1>3. CASE Place
  BY <1>3, PlaceStep
<1>4. CASE SaveRanking
  BY <1>4, SaveRankingStep
<1>5. CASE Close
  BY <1>5, CloseStep
<1>6. CASE UNCHANGED vars
  <2>1. /\ UNCHANGED <<phase, submission, score, tally, marks, voted>>
        /\ UNCHANGED <<vote_weight, top, current, next, ordered, ranking>>
    BY <1>6 DEF vars, revealed, loop
  <2>2. RankingTypeOK'
    BY <2>1 DEF RankingInv, RankingTypeOK
  <2>3. UNCHANGED Settled
    BY <2>1 DEF Settled, revealed
  <2>4. TallyCountsCards'
    BY <2>3, StorageStands
  <2>5. LoopInv'
    BY <2>1 DEF RankingInv, LoopInv, Placed, Ranked, ReachesQuorum
  <2>6. RankedByTheRules'
    <3>1. \A r : Standing(r)' = Standing(r)
      BY <2>3, StorageStands
    <3>2. current' = current /\ ranking' = ranking
      BY <2>1
    <3>3. RankedByTheRules
      BY DEF RankingInv
    <3> QED
      BY <3>1, <3>2, <3>3 DEF RankedByTheRules, Follows, Beats
  <2> QED
    BY <2>2, <2>4, <2>5, <2>6 DEF RankingInv
<1> QED
  BY <1>1, <1>2, <1>3, <1>4, <1>5, <1>6 DEF RankingNext

-----------------------------------------------------------------------------
(* The ranking read off the storage.                                        *)

(* The total of a tally is the sum of the recorded cards, although the      *)
(* contract keeps it apart from them (storage::save_score).                 *)
TallySumsCards ==
    \A t \in Team : tally[t].total = SumFunctionOnSet(score[t], Recorded(t))

\* A candidate as the storage has it now.
Current(c) == c.team \in Team /\ Entered(c.team) /\ c = CandidateOf(c.team)

(* What finalize_results placed, in this track and in those before, is what *)
(* the storage says of the teams, not what it once said.                    *)
CandidatesAreCurrent ==
    /\ \A k \in DOMAIN ordered : Current(ordered[k])
    /\ \A n \in 1..current - 1 :
          \A k \in DOMAIN ranking[Tracks[n]] :
             Current(ranking[Tracks[n]][k].candidate)

RecordInv == TallySumsCards /\ CandidatesAreCurrent

(* The cards recorded for a team are finitely many natural numbers.         *)
LEMMA CardsAreNatural ==
    ASSUME RankingTypeOK, NEW t \in Team
    PROVE  /\ IsFiniteSet(Recorded(t))
           /\ NaturalsOn(score[t], Recorded(t))
           /\ \A j \in Recorded(t) : j \in Judge
<1>1. IsFiniteSet(Recorded(t)) /\ \A j \in Recorded(t) : j \in Judge
  BY FS_Subset, RankingAssumption DEF Recorded
<1>2. score[t] \in [Judge -> {Unscored} \cup 0..MaxWeightedScore]
  BY DEF RankingTypeOK
<1>3. NaturalsOn(score[t], Recorded(t))
  BY <1>1, <1>2, FullMarksAreNatural DEF NaturalsOn, Recorded
<1> QED
  BY <1>1, <1>3

LEMMA RecordInitial == RankingInit => RecordInv
<1> SUFFICES ASSUME RankingInit
             PROVE  RecordInv
  OBVIOUS
<1>1. TallySumsCards
  <2>1. \A t \in Team : Recorded(t) = {} /\ tally[t].total = 0
    BY DEF RankingInit, Recorded, NoCards
  <2> QED
    BY <2>1, SumEmpty DEF TallySumsCards
<1>2. CandidatesAreCurrent
  BY DEF RankingInit, CandidatesAreCurrent
<1> QED
  BY <1>1, <1>2 DEF RecordInv

(* While cards and ballots are opened there is no candidate yet.            *)
LEMMA NoCandidateYet ==
    ASSUME RankingInv, phase = "reveal", UNCHANGED <<phase, loop>>
    PROVE  CandidatesAreCurrent'
<1>1. current' = current /\ ordered' = ordered
  BY DEF loop
<1>2. current = 1 /\ ordered = << >>
  BY DEF RankingInv, LoopInv
<1> QED
  BY <1>1, <1>2 DEF CandidatesAreCurrent

LEMMA RevealScoreRecords ==
    ASSUME RankingInv, RecordInv, NEW j \in Judge, NEW t \in Team,
           NEW card \in Card, RevealScore(j, t, card)
    PROVE  RecordInv'
<1> DEFINE w == WeightedTotal(card)
<1>1. w \in Nat /\ w # Unscored
  BY FullMarksAreNatural, RankingAssumption DEF Unscored
<1>2. /\ RankingTypeOK /\ TallySumsCards
      /\ score[t][j] = Unscored
      /\ score' = [score EXCEPT ![t][j] = w]
      /\ tally' = [tally EXCEPT ![t] = Bumped(tally[t], w)]
  BY DEF RankingInv, RecordInv, RevealScore
<1>3. CandidatesAreCurrent'
  BY NoCandidateYet DEF RevealScore
<1> HIDE DEF w
<1>4. ASSUME NEW u \in Team
      PROVE  tally'[u].total = SumFunctionOnSet(score'[u], Recorded(u)')
  <2>1. CASE u = t
    <3>1. /\ Recorded(t)' = Recorded(t) \cup {j} /\ j \notin Recorded(t)
          /\ score'[t][j] = w
          /\ \A i \in Recorded(t) : score'[t][i] = score[t][i]
      BY <1>1, <1>2 DEF Recorded, RankingTypeOK
    <3>2. IsFiniteSet(Recorded(t)) /\ NaturalsOn(score[t], Recorded(t))
      BY <1>2, CardsAreNatural
    <3>3. Extends(score'[t], score[t], Recorded(t), j)
      BY <3>1 DEF Extends
    <3>4. PICK f, g : f = score[t] /\ g = score'[t]
      OBVIOUS
    <3>5. SumFunctionOnSet(g, Recorded(t) \cup {j}) =
             SumFunctionOnSet(f, Recorded(t)) + g[j]
      <4> DEFINE S == Recorded(t)
      <4>1. /\ IsFiniteSet(S) /\ NaturalsOn(f, S) /\ Extends(g, f, S, j)
            /\ g[j] \in Nat
        BY <1>1, <3>1, <3>2, <3>3, <3>4
      <4> HIDE DEF S
      <4>2. SumFunctionOnSet(g, S \cup {j}) = SumFunctionOnSet(f, S) + g[j]
        BY <4>1, SumExtended
      <4> QED
        BY <4>2 DEF S
    <3>6. SumFunctionOnSet(score'[t], Recorded(t)') =
             SumFunctionOnSet(score[t], Recorded(t)) + w
      BY <3>1, <3>4, <3>5
    <3>7. tally'[t].total = tally[t].total + w
      BY <1>2 DEF Bumped, RankingTypeOK
    <3>8. tally[t].total = SumFunctionOnSet(score[t], Recorded(t))
      BY <1>2 DEF TallySumsCards
    <3> QED
      BY <2>1, <3>6, <3>7, <3>8
  <2>2. CASE u # t
    <3>1. /\ Recorded(u)' = Recorded(u) /\ tally'[u] = tally[u]
          /\ score'[u] = score[u]
      BY <1>2, <2>2 DEF Recorded, RankingTypeOK
    <3> QED
      BY <1>2, <3>1 DEF TallySumsCards
  <2> QED
    BY <2>1, <2>2
<1>5. TallySumsCards'
  BY <1>4 DEF TallySumsCards
<1> QED
  BY <1>3, <1>5 DEF RecordInv

LEMMA ScoresStand ==
    ASSUME TallySumsCards, UNCHANGED <<score, tally>>
    PROVE  TallySumsCards'
<1>1. score' = score /\ tally' = tally
  OBVIOUS
<1>2. \A t : Recorded(t)' = Recorded(t)
  BY <1>1 DEF Recorded
<1> QED
  BY <1>1, <1>2 DEF TallySumsCards

LEMMA CurrentStands ==
    ASSUME RankingInv, UNCHANGED Settled
    PROVE  \A c : Current(c)' = Current(c)
<1>1. \A t : CandidateOf(t)' = CandidateOf(t)
  BY StorageStands
<1>2. \A t : Entered(t)' = Entered(t)
  BY DEF Entered, Settled
<1> QED
  BY <1>1, <1>2 DEF Current

(* Placing a team adds its candidate to those placed.                       *)
LEMMA PlaceRecords ==
    ASSUME RankingInv, RecordInv, Place
    PROVE  RecordInv'
<1>1. /\ UNCHANGED Settled /\ current <= Len(Tracks) /\ next <= TeamCount
      /\ current' = current /\ ranking' = ranking
      /\ RankingTypeOK /\ CandidatesAreCurrent /\ TallySumsCards
  BY DEF Place, Settled, RankingInv, RecordInv
<1>2. TallySumsCards'
  BY <1>1, ScoresStand DEF Settled, revealed
<1>3. \A c : Current(c)' = Current(c)
  BY <1>1, CurrentStands
<1>4. next \in Team /\ current \in 1..Len(Tracks) /\ Len(Tracks) \in Nat
  BY <1>1, RankingAssumption, TracksAreDistinct DEF RankingTypeOK, Team
<1>5. \A k \in DOMAIN ordered' : Current(ordered'[k])
  <2>1. CASE ~Ranked(next, Tracks[current])
    <3>1. ordered' = ordered
      BY <2>1 DEF Place
    <3> QED
      BY <1>1, <3>1 DEF CandidatesAreCurrent
  <2>2. CASE Ranked(next, Tracks[current])
    <3> DEFINE c == CandidateOf(next)
    <3>1. PICK at \in 0..Len(ordered) : ordered' = InsertedAt(at, c)
      BY <2>2 DEF Place, Insert
    <3>2. Entered(next)
      BY <1>4, <2>2, TracksAreDistinct, RankingAssumption
      DEF Entered, Ranked, NoEntry
    <3>3. Current(c)
      BY <1>1, <1>4, <3>2, CandidatesAreTyped DEF Current
    <3> HIDE DEF c
    <3>4. Len(ordered) \in Nat /\ DOMAIN ordered = 1..Len(ordered)
      BY <1>1 DEF RankingTypeOK
    <3>5. ASSUME NEW k \in DOMAIN ordered'
          PROVE  ordered'[k] = c \/ \E l \in DOMAIN ordered : ordered'[k] = ordered[l]
      <4>1. /\ k \in 1..Len(ordered) + 1
            /\ ordered'[k] = IF k <= at THEN ordered[k]
                             ELSE IF k = at + 1 THEN c ELSE ordered[k - 1]
        BY <3>1, <3>5 DEF InsertedAt
      <4>2. CASE k <= at
        <5>1. k \in 1..Len(ordered)
          BY <3>4, <4>1, <4>2
        <5> QED
          BY <3>4, <4>1, <4>2, <5>1
      <4>3. CASE ~(k <= at) /\ k # at + 1
        <5>1. k - 1 \in 1..Len(ordered)
          BY <3>4, <4>1, <4>3
        <5> QED
          BY <3>4, <4>1, <4>3, <5>1
      <4> QED
        BY <4>1, <4>2, <4>3
    <3> QED
      BY <1>1, <3>3, <3>5 DEF CandidatesAreCurrent
  <2> QED
    BY <2>1, <2>2
<1>6. CandidatesAreCurrent'
  BY <1>1, <1>3, <1>5 DEF CandidatesAreCurrent
<1> QED
  BY <1>2, <1>6 DEF RecordInv

(* Saving a ranking keeps the candidates it was built of.                   *)
LEMMA SaveRankingRecords ==
    ASSUME RankingInv, RecordInv, SaveRanking
    PROVE  RecordInv'
<1>1. /\ UNCHANGED Settled /\ current <= Len(Tracks)
      /\ current' = current + 1 /\ ordered' = << >>
      /\ ranking' = [ranking EXCEPT ![Tracks[current]] = Placements]
      /\ RankingTypeOK /\ CandidatesAreCurrent /\ TallySumsCards
  BY DEF SaveRanking, Settled, RankingInv, RecordInv
<1>2. TallySumsCards'
  BY <1>1, ScoresStand DEF Settled, revealed
<1>3. \A c : Current(c)' = Current(c)
  BY <1>1, CurrentStands
<1>4. /\ current \in 1..Len(Tracks) /\ Len(Tracks) \in Nat
      /\ Tracks[current] \in Track
      /\ \A n \in 1..current - 1 : Tracks[n] # Tracks[current] /\ Tracks[n] \in Track
  BY <1>1, TracksAreDistinct DEF RankingTypeOK
<1>5. /\ DOMAIN Placements = DOMAIN ordered
      /\ \A k \in DOMAIN ordered : Placements[k].candidate = ordered[k]
  <2>1. DOMAIN ordered = 1..Len(ordered)
    BY <1>1 DEF RankingTypeOK
  <2> QED
    BY <2>1 DEF Placements
<1>6. ASSUME NEW n \in 1..current' - 1, NEW k \in DOMAIN ranking'[Tracks[n]]
      PROVE  Current(ranking'[Tracks[n]][k].candidate)
  <2>1. CASE n = current
    <3>1. ranking'[Tracks[n]] = Placements
      BY <1>1, <1>4, <2>1 DEF RankingTypeOK
    <3> QED
      BY <1>1, <1>5, <1>6, <3>1 DEF CandidatesAreCurrent
  <2>2. CASE n # current
    <3>1. n \in 1..current - 1
      BY <1>1, <1>4, <2>2
    <3>2. ranking'[Tracks[n]] = ranking[Tracks[n]]
      BY <1>1, <1>4, <3>1 DEF RankingTypeOK
    <3> QED
      BY <1>1, <1>6, <3>1, <3>2 DEF CandidatesAreCurrent
  <2> QED
    BY <2>1, <2>2
<1>7. ASSUME NEW n \in 1..current' - 1, NEW k \in DOMAIN ranking'[Tracks[n]]
      PROVE  Current(ranking[Tracks[n]][k].candidate)'
  <2>1. PICK c : c = ranking'[Tracks[n]][k].candidate
    OBVIOUS
  <2>2. Current(c)
    BY <1>6, <1>7, <2>1
  <2>3. Current(c)'
    BY <1>3, <2>2
  <2> QED
    BY <2>1, <2>3 DEF Current, Entered
<1>8. \A k \in DOMAIN ordered' : Current(ordered[k])'
  BY <1>1
<1>9. CandidatesAreCurrent'
  BY <1>7, <1>8, Zenon DEF CandidatesAreCurrent
<1> QED
  BY <1>2, <1>9 DEF RecordInv

LEMMA RecordInductive ==
    RankingInv /\ RecordInv /\ [RankingNext]_vars => RecordInv'
<1> SUFFICES ASSUME RankingInv, RecordInv, [RankingNext]_vars
             PROVE  RecordInv'
  OBVIOUS
<1>0. TallySumsCards /\ CandidatesAreCurrent
  BY DEF RecordInv
<1>1. ASSUME NEW j \in Judge, NEW t \in Team, NEW card \in Card,
             RevealScore(j, t, card)
      PROVE  RecordInv'
  BY <1>1, RevealScoreRecords
<1>2. ASSUME NEW v \in Voter, NEW chosen \in Ballot, RevealBallot(v, chosen)
      PROVE  RecordInv'
  <2>1. /\ phase = "reveal" /\ UNCHANGED <<phase, loop>>
        /\ UNCHANGED <<score, tally>>
    BY <1>2 DEF RevealBallot
  <2> QED
    BY <1>0, <2>1, NoCandidateYet, ScoresStand DEF RecordInv
<1>3. ASSUME NEW t \in Team, Disqualify(t)
      PROVE  RecordInv'
  <2>1. /\ phase = "reveal" /\ UNCHANGED <<phase, loop>>
        /\ UNCHANGED <<score, tally>>
    BY <1>3 DEF Disqualify, revealed
  <2> QED
    BY <1>0, <2>1, NoCandidateYet, ScoresStand DEF RecordInv
<1>4. CASE Finalize \/ Close \/ UNCHANGED vars
  <2>1. UNCHANGED Settled /\ UNCHANGED loop
    BY <1>4 DEF Finalize, Close, vars, Settled
  <2>2. TallySumsCards'
    BY <1>0, <2>1, ScoresStand DEF Settled, revealed
  <2>3. \A c : Current(c)' = Current(c)
    BY <2>1, CurrentStands
  <2>4. current' = current /\ ordered' = ordered /\ ranking' = ranking
    BY <2>1 DEF loop
  <2>5. CandidatesAreCurrent'
    BY <1>0, <2>3, <2>4 DEF CandidatesAreCurrent
  <2> QED
    BY <2>2, <2>5 DEF RecordInv
<1>5. CASE Place
  BY <1>5, PlaceRecords
<1>6. CASE SaveRanking
  BY <1>6, SaveRankingRecords
<1> QED
  BY <1>1, <1>2, <1>3, <1>4, <1>5, <1>6 DEF RankingNext, Revealing

(* Means of natural tallies are natural, and so is what is made of them.    *)
LEMMA AverageIsNatural ==
    ASSUME NEW sum \in Tally
    PROVE  Average(sum) \in Nat
<1>1. sum.total \in Nat /\ sum.count \in Nat
  BY DEF Tally
<1>2. CASE sum.count # 0
  <2>1. sum.total \div sum.count \in Nat
    BY <1>1, <1>2, DivisionGrows
  <2> QED
    BY <1>2, <2>1 DEF Average
<1> QED
  BY <1>2 DEF Average

(* The judges' average a ranking uses is the mean of the recorded cards.    *)
LEMMA AverageIsTheMean ==
    ASSUME RankingInv, RecordInv, NEW t \in Team
    PROVE  Average(tally[t]) = MeanCard(t)
<1> DEFINE S == Recorded(t)
<1>1. /\ tally[t].count = Cardinality(S)
      /\ tally[t].total = SumFunctionOnSet(score[t], S)
  BY DEF RankingInv, RecordInv, TallyCountsCards, TallySumsCards
<1>2. MapThenSumSet(LAMBDA j : score[t][j], S) = SumFunctionOnSet(score[t], S)
  BY Zenon DEF MapThenSumSet, SumFunctionOnSet, FoldFunctionOnSet
<1>3. IsFiniteSet(S)
  BY CardsAreNatural DEF RankingInv
<1>4. Cardinality(S) = 0 <=> S = {}
  BY <1>3, FS_EmptySet
<1> HIDE DEF S
<1>5. CASE S = {}
  BY <1>1, <1>4, <1>5 DEF Average, MeanCard, S
<1>6. CASE S # {}
  <2>1. Average(tally[t]) = SumFunctionOnSet(score[t], S) \div Cardinality(S)
    BY <1>1, <1>4, <1>6 DEF Average
  <2>2. MeanCard(t) = MapThenSumSet(LAMBDA j : score[t][j], S) \div Cardinality(S)
    BY <1>6, Zenon DEF MeanCard, S
  <2> QED
    BY <1>2, <2>1, <2>2
<1> QED
  BY <1>5, <1>6

(* More votes do not make the community's share less.                       *)
LEMMA CommunityGrows ==
    ASSUME top \in Nat, NEW a \in Nat, NEW b \in Nat, a <= b
    PROVE  /\ CommunityScore(a) \in Nat /\ CommunityScore(b) \in Nat
           /\ CommunityScore(a) <= CommunityScore(b)
<1>1. CASE top = 0
  BY <1>1 DEF CommunityScore
<1>2. CASE top # 0
  <2>1. /\ a * MaxWeightedScore \in Nat /\ b * MaxWeightedScore \in Nat
        /\ a * MaxWeightedScore <= b * MaxWeightedScore
    BY FullMarksAreNatural, ProductGrows
  <2>2. top > 0
    BY <1>2
  <2> DEFINE p == a * MaxWeightedScore
             q == b * MaxWeightedScore
  <2>3. p \in Nat /\ q \in Nat /\ p <= q
    BY <2>1
  <2> HIDE DEF p, q
  <2>4. /\ p \div top \in Nat /\ q \div top \in Nat
        /\ p \div top <= q \div top
    BY <2>2, <2>3, DivisionGrows
  <2> QED
    BY <1>2, <2>4 DEF CommunityScore, p, q
<1> QED
  BY <1>1, <1>2

(* Better means and more votes do not make the final score less.            *)
LEMMA FinalScoreGrows ==
    ASSUME NEW a \in Nat, NEW b \in Nat, NEW x \in Nat, NEW y \in Nat,
           a <= b, x <= y
    PROVE  /\ FinalScore(a, x) \in Nat /\ FinalScore(b, y) \in Nat
           /\ FinalScore(a, x) <= FinalScore(b, y)
<1>1. /\ a * JudgeBps \in Nat /\ b * JudgeBps \in Nat
      /\ a * JudgeBps <= b * JudgeBps
  BY ProductGrows, RankingAssumption
<1>2. /\ x * CommunityBps \in Nat /\ y * CommunityBps \in Nat
      /\ x * CommunityBps <= y * CommunityBps
  BY ProductGrows, RankingAssumption
<1> DEFINE p == a * JudgeBps + x * CommunityBps
           q == b * JudgeBps + y * CommunityBps
<1>3. p \in Nat /\ q \in Nat /\ p <= q
  BY <1>1, <1>2
<1>4. SplitTotal \in Nat /\ SplitTotal > 0
  BY FullMarksAreNatural
<1> HIDE DEF p, q
<1>5. /\ p \div SplitTotal \in Nat /\ q \div SplitTotal \in Nat
      /\ p \div SplitTotal <= q \div SplitTotal
  BY <1>3, <1>4, DivisionGrows
<1> QED
  BY <1>5 DEF FinalScore, p, q

(* No step of the chain puts a candidate above one whose project is no      *)
(* worse.                                                                   *)
LEMMA NoStepPutsTheWorseAhead ==
    ASSUME RankingInv, RecordInv, NEW a \in Team, NEW b \in Team,
           Entered(a), Entered(b), NoWorse(b, a),
           NEW s \in {"Score"} \cup Rule
    PROVE  ~Ahead(CandidateOf(a), CandidateOf(b), s)
<1> DEFINE x == CandidateOf(a)
           y == CandidateOf(b)
<1>1. RankingTypeOK
  BY DEF RankingInv
<1>2. /\ top \in Nat
      /\ vote_weight[a] \in Nat /\ vote_weight[b] \in Nat
      /\ tally[a] \in Tally /\ tally[b] \in Tally
  BY <1>1 DEF RankingTypeOK
<1>3. /\ Average(tally[a]) \in Nat /\ Average(tally[b]) \in Nat
      /\ Average(tally[a]) <= Average(tally[b])
  <2>1. Average(tally[a]) = MeanCard(a) /\ Average(tally[b]) = MeanCard(b)
    BY AverageIsTheMean
  <2>2. Average(tally[a]) \in Nat /\ Average(tally[b]) \in Nat
    BY <1>2, AverageIsNatural
  <2>3. MeanCard(b) >= MeanCard(a)
    BY Zenon DEF NoWorse
  <2> QED
    BY <2>1, <2>2, <2>3
<1>4. /\ CommunityScore(vote_weight[a]) \in Nat /\ CommunityScore(vote_weight[b]) \in Nat
      /\ CommunityScore(vote_weight[a]) <= CommunityScore(vote_weight[b])
  <2>1. vote_weight[b] >= vote_weight[a]
    BY Zenon DEF NoWorse
  <2>2. vote_weight[a] <= vote_weight[b]
    BY <1>2, <2>1
  <2> QED
    BY <1>2, <2>2, CommunityGrows
<1>5. /\ x.final_score \in Nat /\ y.final_score \in Nat
      /\ x.final_score <= y.final_score
  <2> DEFINE A(t) == Average(tally[t])
             C(t) == CommunityScore(vote_weight[t])
  <2>1. /\ A(a) \in Nat /\ A(b) \in Nat /\ C(a) \in Nat /\ C(b) \in Nat
        /\ A(a) <= A(b) /\ C(a) <= C(b)
    BY <1>3, <1>4
  <2>2. x.final_score = FinalScore(A(a), C(a)) /\ y.final_score = FinalScore(A(b), C(b))
    BY DEF CandidateOf
  <2> HIDE DEF A, C
  <2> QED
    BY <2>1, <2>2, FinalScoreGrows
<1>6. /\ x.judge_average = Average(tally[a]) /\ y.judge_average = Average(tally[b])
      /\ x.community = CommunityScore(vote_weight[a])
      /\ y.community = CommunityScore(vote_weight[b])
      /\ x.submitted_at = submission[a].submitted_at /\ x.team = a
      /\ y.submitted_at = submission[b].submitted_at /\ y.team = b
      /\ \A c \in Criterion : /\ x.criterion_averages[c] = Average(marks[a][c])
                              /\ y.criterion_averages[c] = Average(marks[b][c])
  BY DEF CandidateOf
<1> HIDE DEF x, y
<1>7. CASE s = "Score"
  BY <1>5, <1>7 DEF Ahead, x, y
<1>8. CASE s = "JudgeScore"
  <2>1. ~(x.judge_average > y.judge_average)
    BY <1>3, <1>6
  <2> QED
    BY <1>8, <2>1 DEF Ahead, x, y
<1>9. CASE s = "CommunityScore"
  <2>1. ~(x.community > y.community)
    BY <1>4, <1>6
  <2> QED
    BY <1>9, <2>1 DEF Ahead, x, y
<1>10. CASE s = "SubmissionOrder"
  <2>1. /\ submission[a].submitted_at \in Nat /\ submission[b].submitted_at \in Nat
        /\ a \in Int /\ b \in Int
    BY <1>1 DEF RankingTypeOK, Entered, Team
  <2>2. \/ submission[b].submitted_at < submission[a].submitted_at
        \/ submission[b].submitted_at = submission[a].submitted_at /\ b < a
    BY Zenon DEF NoWorse
  <2>3. ~Earlier(x, y)
    BY <1>6, <2>1, <2>2 DEF Earlier
  <2> QED
    BY <1>10, <2>3 DEF Ahead, x, y
<1>11. CASE s \in Criterion
  <2>1. s \notin {"Score", "JudgeScore", "CommunityScore", "SubmissionOrder"}
    BY <1>11, RankingAssumption
  <2>2. marks[a][s] \in Tally /\ marks[b][s] \in Tally
    BY <1>1, <1>11 DEF RankingTypeOK
  <2>3. Average(marks[a][s]) \in Nat /\ Average(marks[b][s]) \in Nat
    BY <2>2, AverageIsNatural
  <2>4. Average(marks[b][s]) >= Average(marks[a][s])
    BY <1>11 DEF NoWorse
  <2>5. ~(x.criterion_averages[s] > y.criterion_averages[s])
    BY <1>6, <1>11, <2>3, <2>4
  <2> QED
    BY <2>1, <2>5 DEF Ahead, x, y
<1> QED
  BY <1>7, <1>8, <1>9, <1>10, <1>11 DEF Rule

LEMMA OrderRespectsTheBetter ==
    RankingInv /\ RecordInv => BetterIsNotPlacedLower
<1> SUFFICES ASSUME RankingInv, RecordInv,
                    NEW n \in 1..current - 1,
                    NEW k \in DOMAIN ranking[Tracks[n]],
                    NEW l \in DOMAIN ranking[Tracks[n]], k < l,
                    NoWorse(ranking[Tracks[n]][l].candidate.team,
                            ranking[Tracks[n]][k].candidate.team)
             PROVE  FALSE
  BY DEF BetterIsNotPlacedLower
<1> DEFINE x == ranking[Tracks[n]][k].candidate
           y == ranking[Tracks[n]][l].candidate
<1>1. Current(x) /\ Current(y)
  BY DEF RecordInv, CandidatesAreCurrent
<1>2. Beats(x, y)
  BY DEF RankingInv, RankedByTheRules
<1>3. NoWorse(y.team, x.team)
  OBVIOUS
<1> HIDE DEF x, y
<1>4. PICK i \in DOMAIN Steps : Ahead(x, y, Steps[i])
  BY <1>2 DEF Beats
<1>5. Steps[i] \in {"Score"} \cup Rule
  BY StepsAreRules
<1>6. /\ x.team \in Team /\ y.team \in Team
      /\ Entered(x.team) /\ Entered(y.team)
      /\ x = CandidateOf(x.team) /\ y = CandidateOf(y.team)
  BY <1>1 DEF Current
<1>7. ~Ahead(CandidateOf(x.team), CandidateOf(y.team), Steps[i])
  BY <1>3, <1>5, <1>6, NoStepPutsTheWorseAhead
<1> QED
  BY <1>4, <1>6, <1>7

-----------------------------------------------------------------------------
(* The theorems.                                                            *)

(* The invariant holds from the first reveal to the closed result.          *)
THEOREM RankingInvariance == RankingSpec => []RankingInv
<1>1. RankingInit => RankingInv
  BY RankingInitial
<1>2. RankingInv /\ [RankingNext]_vars => RankingInv'
  BY RankingInductive
<1> QED
  BY <1>1, <1>2, PTL DEF RankingSpec

(* Whatever is revealed, the tallies, the totals, the candidates and the    *)
(* placements stay what the contract's types allow.                         *)
THEOREM RankingTypeCorrect == RankingSpec => []RankingTypeOK
<1>1. RankingInv => RankingTypeOK
  BY DEF RankingInv
<1> QED
  BY <1>1, RankingInvariance, PTL

(* Whatever is revealed and in whatever order, every ranking finalize       *)
(* saves holds exactly the entries that stand and reached the quorum, in    *)
(* the order of the locked chain, each with the step that decided it.       *)
THEOREM ResultsFollowTheRules == RankingSpec => []RankedByTheRules
<1>1. RankingInv => RankedByTheRules
  BY DEF RankingInv
<1> QED
  BY <1>1, RankingInvariance, PTL

(* The tallies a result is worked out from agree with the cards they stand  *)
(* for, and the places with the storage, from the first reveal on.          *)
THEOREM RecordInvariance == RankingSpec => [](RankingInv /\ RecordInv)
<1>1. RankingInit => RankingInv /\ RecordInv
  BY RankingInitial, RecordInitial
<1>2. RankingInv /\ RecordInv /\ [RankingNext]_vars => (RankingInv /\ RecordInv)'
  BY RankingInductive, RecordInductive
<1> QED
  BY <1>1, <1>2, PTL DEF RankingSpec

(* Neither the order of the reveals, nor a disqualification under a running *)
(* maximum, nor any of the divisions places a project below one that is no  *)
(* better on its cards, its votes, its criteria and its time of entry.      *)
THEOREM TheBetterComeFirst == RankingSpec => []BetterIsNotPlacedLower
<1>1. RankingInv /\ RecordInv => BetterIsNotPlacedLower
  BY OrderRespectsTheBetter
<1> QED
  BY <1>1, RecordInvariance, PTL

=============================================================================
