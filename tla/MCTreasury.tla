----------------------------- MODULE MCTreasury -----------------------------
(***************************************************************************)
(* Small hackathons for Treasury.                                          *)
(***************************************************************************)
EXTENDS Treasury, TLC

CONSTANTS j1, s1, s2, m1, m2, m3, a, b, t1, n1

\* The shortest workable schedule: every window is a second or two long.
MCSchedules ==
    {[m \in Moment |->
        CASE m \in {"registration_opens_at", "submission_opens_at"} -> 1
          [] m \in {"registration_closes_at", "submission_closes_at"} -> 2
          [] m \in {"screening_closes_at", "community_vote_opens_at"} -> 3
          [] OTHER -> 4]}

\* A pair, whose shares of an odd prize differ, and a solo entry.
MCRoster == a :> <<m1, m2>> @@ b :> <<m3>>
PairOnly == a :> <<m1, m2>>

TwoPlaces == t1 :> (1 :> 6 @@ 2 :> 4)
OddPlaces == t1 :> (1 :> 7 @@ 2 :> 5)
OnePlace  == t1 :> (1 :> 5)

SponsorTables == {1 :> 5}

MCBench == [t \in FrozenTrack |-> {j1}]

SponsorSymmetry == Permutations(Sponsor)

=============================================================================
