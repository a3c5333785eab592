----------------------------- MODULE MCRanking -----------------------------
(***************************************************************************)
(* A small result for Ranking: three teams in two tracks, two judges, two  *)
(* voters, a rubric of two criteria and full marks of four.                *)
(***************************************************************************)
EXTENDS Ranking, TLC

CONSTANTS j1, j2, v1, v2

MCTracks  == <<"payments", "identity">>
MCBench   == [r \in {"payments", "identity"} |-> {j1, j2}]
MCRecused == {<<j2, 2>>, <<j2, 3>>}

\* Two cards of the same total differ on the criterion that weighs more.
MCWeight == [c \in {"technical", "novelty"} |-> IF c = "technical" THEN 2 ELSE 1]

MCCards ==
    {[technical |-> 2, novelty |-> 0], [technical |-> 1, novelty |-> 0],
     [technical |-> 0, novelty |-> 2]}

MCBallots == {[t \in {1} |-> 2], [t \in {2} |-> 2], [t \in {2, 3} |-> 1]}

MCChain == <<"JudgeScore", "technical", "CommunityScore", "SubmissionOrder">>

\* The second team entered before the first or together with it; the third is
\* in either track, or entered nothing.
Entry(r, at) == [track |-> r, submitted_at |-> at, valid |-> TRUE]

MCFields ==
    {<<Entry("payments", 2), Entry("payments", s), third>> :
        s \in 1..2,
        third \in {NoEntry, Entry("payments", 1), Entry("identity", 1)}}

Voters == Permutations(Voter)

=============================================================================
