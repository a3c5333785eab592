------------------------------ MODULE MCSealed ------------------------------
(***************************************************************************)
(* A few entries for SealedReveal.                                         *)
(***************************************************************************)
EXTENDS SealedReveal

CONSTANTS j1

\* Every window a second long.
MCSchedules ==
    {[m \in Moment |->
        CASE m \in {"registration_opens_at", "submission_opens_at"}    -> 1
          [] m \in {"registration_closes_at", "submission_closes_at"}  -> 2
          [] m \in {"screening_closes_at", "community_vote_opens_at"}  -> 3
          [] m \in {"judging_closes_at", "community_vote_closes_at"}   -> 4]}

\* Ann sends a card and a revision of it that the rubric refuses; Vic sends a
\* ballot.
Entry ==
    [card     |-> [kind |-> "scorecards", slot |-> "ann"],
     revision |-> [kind |-> "scorecards", slot |-> "ann"],
     ballot   |-> [kind |-> "ballots",    slot |-> "vic"]]

MCKindOf == [l \in Leaf |-> Entry[l].kind]
MCSlotOf == [l \in Leaf |-> Entry[l].slot]

=============================================================================
