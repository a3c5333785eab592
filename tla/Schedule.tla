------------------------------ MODULE Schedule ------------------------------
(***************************************************************************)
(* The eight timestamps of a hackathon and the rules for moving them       *)
(* (contracts/hackathon-core/src/constitution/schedule.rs).                *)
(*                                                                         *)
(* A schedule is a function from moments to ledger timestamps.  The code's *)
(* enum Deadline names the six moments an organizer may move; here a       *)
(* deadline IS the moment it names, so Schedule::deadline is application   *)
(* and Schedule::with_deadline is EXCEPT.                                  *)
(***************************************************************************)
EXTENDS Naturals

CONSTANTS
    VoteEnabled,     \* whether the locked vote split gives the community a share
    MaxExtensions,   \* ExtensionPolicy.max_extensions_per_deadline
    MaxSeconds       \* ExtensionPolicy.max_total_seconds_per_deadline

\* ExtensionPolicy::validate refuses a count without a budget and the reverse.
ValidPolicy ==
    /\ MaxExtensions \in Nat
    /\ MaxSeconds \in Nat
    /\ (MaxExtensions > 0) <=> (MaxSeconds > 0)

ASSUME PolicyAssumption == VoteEnabled \in BOOLEAN /\ ValidPolicy

Deadline == {"registration_closes_at", "submission_closes_at",
             "screening_closes_at", "judging_closes_at",
             "community_vote_closes_at", "community_vote_opens_at"}

Moment == Deadline \cup {"registration_opens_at", "submission_opens_at"}

SchedulesIn(Time) == [Moment -> Time]

Usage == [times : Nat, seconds : Nat]

Unused == [d \in Deadline |-> [times |-> 0, seconds |-> 0]]

-----------------------------------------------------------------------------

(* Schedule::validate: the order a schedule has to run in. *)
Workable(s) ==
    /\ s["registration_opens_at"] # 0
    /\ s["registration_opens_at"] < s["registration_closes_at"]
    /\ s["registration_opens_at"] <= s["submission_opens_at"]
    /\ s["submission_opens_at"] < s["submission_closes_at"]
    /\ s["registration_closes_at"] <= s["submission_closes_at"]
    /\ s["submission_closes_at"] < s["screening_closes_at"]
    /\ s["screening_closes_at"] < s["judging_closes_at"]
    /\ VoteEnabled =>
          /\ s["screening_closes_at"] <= s["community_vote_opens_at"]
          /\ s["community_vote_opens_at"] < s["community_vote_closes_at"]
          /\ s["community_vote_closes_at"] <= s["judging_closes_at"]

(* Schedule::check_extension: a deadline moves forward, and only before it  *)
(* has passed.                                                              *)
MayMove(s, d, moved_to, at) == at < s[d] /\ moved_to > s[d]

(* ExtensionPolicy::check: one more extension of `added` seconds fits what  *)
(* the deadline has left of its allowance.                                  *)
Fits(usage, added) ==
    /\ usage.times < MaxExtensions
    /\ usage.seconds + added <= MaxSeconds

(* ExtensionUsage::record *)
Record(usage, added) ==
    [times |-> usage.times + 1, seconds |-> usage.seconds + added]

-----------------------------------------------------------------------------

(***************************************************************************)
(* What one call of move_deadlines may do to one deadline, whatever the    *)
(* order its moves are listed in: `times` moves that gain `seconds`        *)
(* between them.  Every move gains at least one second, so a deadline      *)
(* moved k times gains at least k.                                         *)
(***************************************************************************)
Shift == {g \in [times : 0..MaxExtensions, seconds : 0..MaxSeconds] :
            /\ g.times <= g.seconds
            /\ (g.times = 0) => (g.seconds = 0)}

Still == [times |-> 0, seconds |-> 0]

\* Mutant of Allowed: a deadline may move after it has passed.
AllowedLate(s, used, gains, at) ==
    \A d \in Deadline : gains[d] # Still =>
        /\ used[d].times + gains[d].times <= MaxExtensions
        /\ used[d].seconds + gains[d].seconds <= MaxSeconds

(* A move is checked against the deadline and the usage the call has        *)
(* reached, and touches no other deadline, so the moves of one deadline     *)
(* pass together exactly when the deadline has not passed and the whole of  *)
(* them fits the allowance.                                                 *)
Allowed(s, used, gains, at) ==
    \A d \in Deadline : gains[d] # Still =>
        /\ at < s[d]
        /\ used[d].times + gains[d].times <= MaxExtensions
        /\ used[d].seconds + gains[d].seconds <= MaxSeconds

Moved(s, gains) ==
    [m \in Moment |-> IF m \in Deadline THEN s[m] + gains[m].seconds ELSE s[m]]

Spent(used, gains) ==
    [d \in Deadline |-> [times |-> used[d].times + gains[d].times,
                         seconds |-> used[d].seconds + gains[d].seconds]]

=============================================================================
