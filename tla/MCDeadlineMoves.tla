-------------------------- MODULE MCDeadlineMoves --------------------------
EXTENDS DeadlineMoves

MCInForce ==
    {[m \in Moment |->
         CASE m = "registration_opens_at"    -> 1
           [] m = "submission_opens_at"      -> 1
           [] m = "registration_closes_at"   -> 2
           [] m = "submission_closes_at"     -> 3
           [] m = "screening_closes_at"      -> 4
           [] m = "judging_closes_at"        -> 6
           [] m = "community_vote_opens_at"  -> 4
           [] m = "community_vote_closes_at" -> 5]}

MCListable == {"registration_closes_at", "submission_closes_at"}

\* Nothing spent yet, or one move of one second on one of the two deadlines.
MCSpendings ==
    {Unused} \cup
    {[Unused EXCEPT ![d] = [times |-> 1, seconds |-> 1]] : d \in MCListable}

=============================================================================
