---------------------------- MODULE MCLifecycle ----------------------------
(***************************************************************************)
(* Small schedules for Lifecycle.                                          *)
(***************************************************************************)
EXTENDS Lifecycle

CONSTANTS j1, j2

MCSchedule(reg, sub, screen, judge, open, close) ==
    [m \in Moment |->
        CASE m = "registration_opens_at"    -> 1
          [] m = "submission_opens_at"      -> 1
          [] m = "registration_closes_at"   -> reg
          [] m = "submission_closes_at"     -> sub
          [] m = "screening_closes_at"      -> screen
          [] m = "judging_closes_at"        -> judge
          [] m = "community_vote_opens_at"  -> open
          [] m = "community_vote_closes_at" -> close]

\* A tight schedule, where every extension collides with its neighbour, and
\* one with a second of room between some of the deadlines.
Tight == MCSchedule(2, 2, 3, 4, 3, 4)
Roomy == MCSchedule(2, 3, 4, 6, 4, 5)

TightOrRoomy == {Tight, Roomy}

=============================================================================
