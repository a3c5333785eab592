------------------------------ MODULE Ranking ------------------------------
(***************************************************************************)
(* How a hackathon's result is worked out: the scorecards and ballots that *)
(* are counted during Reveal, and the ranking of every track               *)
(* finalize_results computes from them (contracts/hackathon-core:          *)
(* contract.rs, results.rs, scorecard.rs, ballot.rs, storage.rs).          *)
(*                                                                         *)
(* What reached the published root is any card and any ballot here:        *)
(* SealedReveal models the sealing.  Entry models who may vote, how a case *)
(* is decided, and that no case is open when the ranking is closed.        *)
(* finalize_results is one invocation; its loop is a step per team, which  *)
(* nothing interrupts, so that what holds between two turns can be stated. *)
(***************************************************************************)
EXTENDS Integers, Sequences, FiniteSets, FiniteSetsExt

CONSTANTS
    TeamCount,            \* DataKey::TeamCount
    Tracks,               \* the tracks in the order they are ranked
    Judge, Voter,         \* the judges, and whoever passes may_vote
    Bench,                \* the judges of each track (bench_for)
    Recused,              \* the <<judge, team>> pairs who stepped aside
    Criterion, Weight,    \* the rubric, and Criterion.weight_bps
    MaxCriterionScore, WeightTotal,  \* MAX_CRITERION_SCORE, WEIGHT_TOTAL_BPS
    Card, Ballot,         \* the scorecards and ballots tried
    JudgeBps, CommunityBps,  \* VotePolicy; they make up VOTE_SPLIT_TOTAL_BPS
    Power, MaxChoices,    \* VotePolicy.power and max_choices
    Quorum,               \* Constitution.judge_quorum
    Chain,                \* Constitution.tie_break
    Fields                \* the entries a run starts from

Team  == 1..TeamCount
Track == {Tracks[k] : k \in DOMAIN Tracks}

JudgeScoreCounts == JudgeBps > 0
VoteEnabled      == CommunityBps > 0
SplitTotal       == JudgeBps + CommunityBps

MaxWeightedScore == MaxCriterionScore * WeightTotal

NoEntry == [track |-> "none", submitted_at |-> 0, valid |-> FALSE]

Rule == {"JudgeScore", "CommunityScore", "SubmissionOrder"} \cup Criterion

\* Scorecard::weighted_total: the rubric drives the sum.
WeightedTotal(card) == MapThenSumSet(LAMBDA c : card[c] * Weight[c], Criterion)

\* Vote::validate, validate_tie_break, and what the rubric makes of a card:
\* the weights make up WeightTotal, so that no card exceeds the full marks.
ASSUME RankingAssumption ==
    /\ TeamCount \in Nat
    /\ Tracks \in Seq(Track)
    /\ \A k, l \in DOMAIN Tracks : Tracks[k] = Tracks[l] => k = l
    /\ "none" \notin Track
    /\ IsFiniteSet(Judge)
    /\ Bench \in [Track -> SUBSET Judge]
    /\ MaxCriterionScore \in Nat \ {0}
    /\ WeightTotal \in Nat \ {0}
    /\ Card \subseteq [Criterion -> 0..MaxCriterionScore]
    /\ \A card \in Card : WeightedTotal(card) \in 0..MaxWeightedScore
    /\ JudgeBps \in Nat
    /\ CommunityBps \in Nat
    /\ SplitTotal > 0
    /\ VoteEnabled => MaxChoices > 0 /\ Power >= MaxChoices
    /\ Power \in Nat
    /\ Quorum \in Nat \ {0}
    /\ \A chosen \in Ballot :
          \E T \in SUBSET Team : T # {} /\ chosen \in [T -> Nat \ {0}]
    /\ Criterion \cap {"Score", "JudgeScore", "CommunityScore",
                       "SubmissionOrder"} = {}
    /\ Chain \in Seq(Rule)
    /\ Len(Chain) > 0
    /\ \A k \in DOMAIN Chain : Chain[k] = "SubmissionOrder" <=> k = Len(Chain)
    /\ Fields \subseteq [Team -> {NoEntry} \cup
          [track : Track, submitted_at : Nat, valid : BOOLEAN]]

VARIABLES
    phase,         \* State.phase, "ranking" while finalize_results runs
    submission,    \* DataKey::Submission
    score,         \* DataKey::Score, 0-1 weighted total per team and judge
    tally,         \* DataKey::ScoreTally
    marks,         \* DataKey::CriterionTally
    voted,         \* DataKey::BallotCounted
    vote_weight,   \* DataKey::VoteWeight
    top,           \* DataKey::TopVoteWeight
    current, next, \* the loops of finalize_results and rank_track
    ordered,       \* the candidates placed so far
    ranking        \* DataKey::Ranking

revealed == <<score, tally, marks, voted, vote_weight, top>>
loop     == <<current, next, ordered, ranking>>
vars     == <<phase, submission, revealed, loop>>

Unscored == -1
NoCards  == [count |-> 0, total |-> 0]

RankingInit ==
    /\ phase = "reveal"
    /\ submission \in Fields
    /\ score = [t \in Team |-> [j \in Judge |-> Unscored]]
    /\ tally = [t \in Team |-> NoCards]
    /\ marks = [t \in Team |-> [c \in Criterion |-> NoCards]]
    /\ voted = {}
    /\ vote_weight = [t \in Team |-> 0]
    /\ top = 0
    /\ current = 1
    /\ next = 1
    /\ ordered = << >>
    /\ ranking = [r \in Track |-> << >>]

-----------------------------------------------------------------------------
(* Reveal.                                                                  *)

Entered(t) == submission[t] # NoEntry

\* ScoreTally and CriterionTally, one more card in each.
Bumped(old, given) == [count |-> old.count + 1, total |-> old.total + given]

\* Self::may_judge and the recusal.
MayScore(j, t) == j \in Bench[submission[t].track] /\ <<j, t>> \notin Recused

\* reveal_score.
RevealScore(j, t, card) ==
    /\ phase = "reveal"
    /\ score[t][j] = Unscored
    /\ Entered(t)
    /\ MayScore(j, t)
    /\ score' = [score EXCEPT ![t][j] = WeightedTotal(card)]
    /\ tally' = [tally EXCEPT ![t] = Bumped(@, WeightedTotal(card))]
    /\ marks' = [marks EXCEPT
          ![t] = [c \in Criterion |-> Bumped(marks[t][c], card[c])]]
    /\ UNCHANGED <<phase, submission, voted, vote_weight, top, loop>>

\* validate_ballot: every point placed, on no more teams than allowed.
WellFormed(chosen) ==
    /\ Cardinality(DOMAIN chosen) <= MaxChoices
    /\ MapThenSumSet(LAMBDA t : chosen[t], DOMAIN chosen) = Power

\* The choices that still stand are counted, the others are dropped.
Counted(chosen) == {t \in DOMAIN chosen : submission[t].valid}

\* storage::add_vote_weight, for every choice of the ballot.
AddVoteWeight(chosen) ==
    /\ vote_weight' = [t \in Team |->
          vote_weight[t] + IF t \in Counted(chosen) THEN chosen[t] ELSE 0]
    /\ top' \in {top} \cup {vote_weight'[t] : t \in Counted(chosen)}
    /\ top' >= top
    /\ \A t \in Counted(chosen) : top' >= vote_weight'[t]

\* reveal_ballot; one that names a team without a project is refused.
RevealBallot(v, chosen) ==
    /\ VoteEnabled
    /\ phase = "reveal"
    /\ v \notin voted
    /\ WellFormed(chosen)
    /\ \A t \in DOMAIN chosen : Entered(t)
    /\ voted' = voted \cup {v}
    /\ AddVoteWeight(chosen)
    /\ UNCHANGED <<phase, submission, score, tally, marks, loop>>

\* resolve_disqualification, upheld.
Disqualify(t) ==
    /\ phase = "reveal"
    /\ submission[t].valid
    /\ submission' = [submission EXCEPT ![t].valid = FALSE]
    /\ UNCHANGED <<phase, revealed, loop>>

-----------------------------------------------------------------------------
(* finalize_results.                                                        *)

\* ScoreTally::average; nothing is a zero where it is read.
Average(sum) == IF sum.count = 0 THEN 0 ELSE sum.total \div sum.count

\* results::community_score.
CommunityScore(votes) ==
    IF top = 0 THEN 0 ELSE (votes * MaxWeightedScore) \div top

\* results::final_score.
FinalScore(judges, community) ==
    (judges * JudgeBps + community * CommunityBps) \div SplitTotal

CandidateOf(t) ==
    [team               |-> t,
     final_score        |-> FinalScore(Average(tally[t]),
                                       CommunityScore(vote_weight[t])),
     judge_average      |-> Average(tally[t]),
     community          |-> CommunityScore(vote_weight[t]),
     submitted_at       |-> submission[t].submitted_at,
     criterion_averages |-> [c \in Criterion |-> Average(marks[t][c])]]

\* What separates two candidates: their scores, then the chain.
Steps == <<"Score">> \o Chain

\* Mutant of Earlier: results::compare without its reversal.
Later(a, b) ==
    \/ a.submitted_at > b.submitted_at
    \/ a.submitted_at = b.submitted_at /\ a.team > b.team

Earlier(a, b) ==
    \/ a.submitted_at < b.submitted_at
    \/ a.submitted_at = b.submitted_at /\ a.team < b.team

\* One step of results::compare puts a above b.
Ahead(a, b, step) ==
    CASE step = "Score"           -> a.final_score > b.final_score
      [] step = "JudgeScore"      -> a.judge_average > b.judge_average
      [] step = "CommunityScore"  -> a.community > b.community
      [] step = "SubmissionOrder" -> Earlier(a, b)
      [] OTHER -> a.criterion_averages[step] > b.criterion_averages[step]

Level(a, b, step) == ~Ahead(a, b, step) /\ ~Ahead(b, a, step)

\* The step results::compare stops at.
Separates(k, a, b) ==
    /\ k \in DOMAIN Steps
    /\ ~Level(a, b, Steps[k])
    /\ \A l \in 1..k - 1 : Level(a, b, Steps[l])

Above(a, b) == \E k \in DOMAIN Steps : Separates(k, a, b) /\ Ahead(a, b, Steps[k])

DecidedBy(a, b) == Steps[CHOOSE k \in DOMAIN Steps : Separates(k, a, b)]

\* Mutant of ReachesQuorum: the quorum has to be exceeded.
ReachesMoreThanQuorum(t) == JudgeScoreCounts => tally[t].count > Quorum

ReachesQuorum(t) == JudgeScoreCounts => tally[t].count >= Quorum

\* Left out of a ranking: another track's, ruled out, or short of the quorum.
Ranked(t, r) ==
    submission[t].track = r /\ submission[t].valid /\ ReachesQuorum(t)

InsertedAt(at, c) ==
    [k \in 1..Len(ordered) + 1 |->
        IF k <= at THEN ordered[k] ELSE IF k = at + 1 THEN c ELSE ordered[k - 1]]

\* Where the inner loop of rank_track stops: below the last one not beaten.
StopsAt(at, c) ==
    /\ \A k \in at + 1..Len(ordered) : Above(c, ordered[k])
    /\ at > 0 => ~Above(c, ordered[at])

Insert(c) == \E at \in 0..Len(ordered) :
    StopsAt(at, c) /\ ordered' = InsertedAt(at, c)

Placements ==
    [k \in 1..Len(ordered) |->
        [candidate  |-> ordered[k],
         rank       |-> k,
         decided_by |-> IF k = 1 THEN "Score"
                        ELSE DecidedBy(ordered[k - 1], ordered[k])]]

\* finalize_results starts ...
Finalize ==
    /\ phase = "reveal"
    /\ phase' = "ranking"
    /\ UNCHANGED <<submission, revealed, loop>>

\* ... takes one team after another in rank_track ...
Place ==
    /\ phase = "ranking"
    /\ current <= Len(Tracks)
    /\ next <= TeamCount
    /\ next' = next + 1
    /\ IF Ranked(next, Tracks[current]) THEN Insert(CandidateOf(next))
                                        ELSE UNCHANGED ordered
    /\ UNCHANGED <<phase, submission, revealed, current, ranking>>

\* ... saves what it built and takes the next track ...
SaveRanking ==
    /\ phase = "ranking"
    /\ current <= Len(Tracks)
    /\ next > TeamCount
    /\ ranking' = [ranking EXCEPT ![Tracks[current]] = Placements]
    /\ current' = current + 1
    /\ next' = 1
    /\ ordered' = << >>
    /\ UNCHANGED <<phase, submission, revealed>>

\* ... and closes the result.
Close ==
    /\ phase = "ranking"
    /\ current > Len(Tracks)
    /\ phase' = "finalized"
    /\ UNCHANGED <<submission, revealed, loop>>

Revealing ==
    \/ \E j \in Judge, t \in Team, card \in Card : RevealScore(j, t, card)
    \/ \E v \in Voter, chosen \in Ballot : RevealBallot(v, chosen)
    \/ \E t \in Team : Disqualify(t)

RankingNext == Revealing \/ Finalize \/ Place \/ SaveRanking \/ Close

RankingSpec == RankingInit /\ [][RankingNext]_vars

-----------------------------------------------------------------------------
(* The properties.                                                          *)

Tally == [count : Nat, total : Nat]

Candidate ==
    [team : Team, final_score : Int, judge_average : Int, community : Int,
     submitted_at : Nat, criterion_averages : [Criterion -> Int]]

Placement ==
    [candidate : Candidate, rank : Nat,
     decided_by : {"Score"} \cup Rule]

(* Every key of storage holds what the contract's types allow, and the      *)
(* loops stay within the teams and the tracks.                              *)
RankingTypeOK ==
    /\ phase \in {"reveal", "ranking", "finalized"}
    /\ submission \in [Team -> {NoEntry} \cup
          [track : Track, submitted_at : Nat, valid : BOOLEAN]]
    /\ score \in [Team -> [Judge -> {Unscored} \cup 0..MaxWeightedScore]]
    /\ tally \in [Team -> Tally]
    /\ marks \in [Team -> [Criterion -> Tally]]
    /\ voted \in SUBSET Voter
    /\ vote_weight \in [Team -> Nat]
    /\ top \in Nat
    /\ current \in 1..Len(Tracks) + 1
    /\ next \in 1..TeamCount + 1
    /\ ordered \in Seq(Candidate)
    /\ ranking \in [Track -> Seq(Placement)]

\* The judges whose card of a team was recorded.
Recorded(t) == {j \in Judge : score[t][j] # Unscored}

\* The entries a finished ranking has to hold, read off the storage.
Standing(r) ==
    {t \in Team : /\ submission[t].track = r
                  /\ submission[t].valid
                  /\ JudgeScoreCounts => Cardinality(Recorded(t)) >= Quorum}

\* Above, whoever wrote it: the first step on which two entries differ.
Beats(a, b) ==
    \E k \in DOMAIN Steps :
        /\ Ahead(a, b, Steps[k])
        /\ \A l \in 1..k - 1 : Level(a, b, Steps[l])

Follows(places, k) ==
    /\ Beats(places[k - 1].candidate, places[k].candidate)
    /\ \E l \in DOMAIN Steps :
          /\ Steps[l] = places[k].decided_by
          /\ ~Level(places[k - 1].candidate, places[k].candidate, Steps[l])
          /\ \A m \in 1..l - 1 :
                Level(places[k - 1].candidate, places[k].candidate, Steps[m])

(* Once a track is ranked, its ranking holds exactly the entries that stand *)
(* and that enough judges' recorded cards speak for, each of them once,     *)
(* every one ahead of all that come after it on the first step of the       *)
(* locked chain they differ on, and the step recorded against a place is    *)
(* the one that decided it ("A participant asking why they came fourth      *)
(* deserves to read the actual reason", results.rs).                        *)
RankedByTheRules ==
    \A n \in 1..current - 1 :
        LET places == ranking[Tracks[n]]
        IN  /\ {places[k].candidate.team : k \in DOMAIN places} = Standing(Tracks[n])
            /\ \A k \in DOMAIN places, l \in DOMAIN places :
                  k < l => Beats(places[k].candidate, places[l].candidate)
            /\ \A k \in DOMAIN places :
                  k > 1 => Follows(places, k)

\* The mean of the cards recorded for a team.
MeanCard(t) ==
    IF Recorded(t) = {} THEN 0
    ELSE MapThenSumSet(LAMBDA j : score[t][j], Recorded(t))
         \div Cardinality(Recorded(t))

NoWorse(a, b) ==
    /\ MeanCard(a) >= MeanCard(b)
    /\ vote_weight[a] >= vote_weight[b]
    /\ \A c \in Criterion : Average(marks[a][c]) >= Average(marks[b][c])
    /\ \/ submission[a].submitted_at < submission[b].submitted_at
       \/ submission[a].submitted_at = submission[b].submitted_at /\ a < b

(* Whatever the order the cards and ballots are opened in and whoever is    *)
(* ruled out in between, a project no worse than another on its recorded    *)
(* cards, its votes, every criterion and its time of entry is never placed  *)
(* below it: neither the shrinking of the field under a running maximum     *)
(* (storage::add_vote_weight) nor the divisions can turn the two around.    *)
BetterIsNotPlacedLower ==
    \A n \in 1..current - 1 :
        LET places == ranking[Tracks[n]]
        IN  \A k \in DOMAIN places, l \in DOMAIN places :
                k < l => ~NoWorse(places[l].candidate.team, places[k].candidate.team)

=============================================================================
