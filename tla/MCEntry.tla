------------------------------ MODULE MCEntry ------------------------------
(***************************************************************************)
(* A small hackathon for Entry: two people, two teams, a frozen track and  *)
(* a sponsor's that borrows its bench.                                     *)
(***************************************************************************)
EXTENDS Entry, TLC

CONSTANTS j1, j2, p1, p2, t1, n1

\* A second in every window, and one between the end of registration and the
\* end of submissions.
MCSchedules ==
    {[m \in Moment |->
        CASE m = "registration_opens_at" -> 1
          [] m \in {"registration_closes_at", "submission_opens_at"} -> 2
          [] m = "submission_closes_at" -> 3
          [] m \in {"screening_closes_at", "community_vote_opens_at"} -> 4
          [] OTHER -> 5]}

MCBench == [t \in FrozenTrack |-> Judge]

PeopleAndJudges == Permutations(Person) \cup Permutations(Judge)

=============================================================================
