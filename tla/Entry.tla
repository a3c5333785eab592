------------------------------- MODULE Entry -------------------------------
(***************************************************************************)
(* Who takes part in a hackathon and what stands on its ranking: requests  *)
(* to take part, teams, the projects they enter, screening, and the case   *)
(* that takes an entry out of the running                                  *)
(* (contracts/hackathon-core: roster.rs, submission.rs, and the entry      *)
(* points of contract.rs that change what they hold).                      *)
(*                                                                         *)
(* Entry runs inside Lifecycle and supplies the question finalize_results  *)
(* asks: whether a case is undecided.  The write-up of a project is its    *)
(* time of revision here, and the reasons and answers filed about it are   *)
(* left out: nothing the contract decides reads them.                      *)
(***************************************************************************)
EXTENDS Lifecycle

CONSTANTS
    Person,                \* who may ask to take part
    MaxTeams,              \* bound: the teams founded
    MaxTeamSize, MultiTeam,  \* TeamPolicy
    AdmitsImmediately,     \* RegistrationPolicy::admits_immediately
    FrozenTrack,           \* Constitution.tracks
    SponsorTrack,          \* the names sponsors asked for
    BorrowsFrom,           \* SponsorshipPolicy.borrows_from
    Bench,                 \* the judges assigned to each frozen track
    DisqThreshold,         \* DiscretionPolicy.disqualification_threshold
    AppealWindow,          \* DiscretionPolicy.appeal_window
    Movable,               \* bound: the deadlines extended here
    Entrant                \* bound: the teams that enter a project

Team  == 1..MaxTeams
Track == FrozenTrack \cup SponsorTrack

\* TeamPolicy::validate, DiscretionPolicy::validate, and a bench per track.
ASSUME EntryAssumption ==
    /\ MaxTeams \in Nat
    /\ MaxTeamSize \in 1..10
    /\ MultiTeam \in BOOLEAN
    /\ AdmitsImmediately \in BOOLEAN
    /\ FrozenTrack \cap SponsorTrack = {}
    /\ SponsorTrack # {} => BorrowsFrom \in FrozenTrack
    /\ Bench \in [FrozenTrack -> SUBSET Judge]
    /\ DisqThreshold \in 1..Cardinality(Judge)
    /\ AppealWindow \in Nat \ {0}
    /\ Movable \subseteq Deadline
    /\ Entrant \subseteq Team

VARIABLES
    registration,      \* DataKey::Registration
    team_count,        \* DataKey::TeamCount
    members,           \* Team.members; nobody where no team was founded
    membership,        \* DataKey::Membership, the teams of a person
    accepted,          \* the sponsors' tracks the organizer accepted
    submission,        \* DataKey::Submission
    disqualification   \* DataKey::Disqualification and its approvals

roster  == <<registration, team_count, members, membership>>
entries == <<accepted, submission, disqualification>>
contest == <<lifecycle, roster, entries>>

-----------------------------------------------------------------------------

NoRequest == [status |-> "none", decided_at |-> 0]
Pending   == [status |-> "pending", decided_at |-> 0]
Decided(verdict) == [status |-> verdict, decided_at |-> now]

NoTrack == "no track"
NoEntry == [status |-> "none", track |-> NoTrack, submitted_at |-> 0, updated_at |-> 0]
Unopened == [opened |-> FALSE, opened_at |-> 0, approvals |-> 0, signed |-> {},
             appealed |-> FALSE, resolved |-> FALSE]

EntryTypeOK ==
    /\ TypeOK
    /\ registration \in [Person -> [status : {"none", "pending", "approved", "rejected"},
                                    decided_at : Nat]]
    /\ team_count \in 0..MaxTeams
    /\ members \in [Team -> SUBSET Person]
    /\ membership \in [Person -> SUBSET Team]
    /\ accepted \subseteq SponsorTrack
    /\ submission \in [Team -> [status : {"none", "valid", "invalidated", "disqualified"},
                                track : Track \cup {NoTrack},
                                submitted_at : Nat, updated_at : Nat]]
    /\ disqualification \in [Team -> [opened : BOOLEAN, opened_at : Nat, approvals : Nat,
                                      signed : SUBSET Judge,
                                      appealed : BOOLEAN, resolved : BOOLEAN]]

EntryInit ==
    /\ Init
    /\ registration = [p \in Person |-> NoRequest]
    /\ team_count = 0
    /\ members = [t \in Team |-> {}]
    /\ membership = [p \in Person |-> {}]
    /\ accepted = {}
    /\ submission = [t \in Team |-> NoEntry]
    /\ disqualification = [t \in Team |-> Unopened]

-----------------------------------------------------------------------------
(* Who takes part. *)

\* Mutant of MayVote: whoever was let in votes, whenever that was.
MayVoteOnceIn(p) == registration[p].status = "approved"

(* Registration::may_vote: let in by the registration deadline in force *)
MayVote(p) ==
    /\ registration[p].status = "approved"
    /\ registration[p].decided_at <= schedule["registration_closes_at"]

Approved(p) == registration[p].status = "approved"

(* apply: once, inside the registration window of an open event *)
Apply(p) ==
    /\ phase = "Open"
    /\ schedule["registration_opens_at"] <= now
    /\ now <= schedule["registration_closes_at"]
    /\ registration[p] = NoRequest
    /\ registration' = [registration EXCEPT ![p] =
                          IF AdmitsImmediately THEN Decided("approved") ELSE Pending]
    /\ UNCHANGED <<lifecycle, team_count, members, membership, entries>>

(* approve_applications, reject_applications: each listed applicant who     *)
(* still waits is decided and the rest are passed over, in any phase.       *)
(* approve_application and reject_application are the lists of one.         *)
Decide(applicants, verdict) ==
    /\ \E p \in applicants : registration[p].status = "pending"
    /\ registration' = [p \in Person |->
                          IF p \in applicants /\ registration[p].status = "pending"
                          THEN Decided(verdict) ELSE registration[p]]
    /\ UNCHANGED <<lifecycle, team_count, members, membership, entries>>

(* require_free_to_join *)
FreeToJoin(p) == MultiTeam \/ membership[p] = {}

(* create_team *)
CreateTeam(p) ==
    LET id == team_count + 1 IN
    /\ phase = "Open" /\ Approved(p) /\ FreeToJoin(p)
    /\ id \in Team
    /\ team_count' = id
    /\ members' = [members EXCEPT ![id] = {p}]
    /\ membership' = [membership EXCEPT ![p] = @ \cup {id}]
    /\ UNCHANGED <<lifecycle, registration, entries>>

\* Mutant of AddMember: the teams of the newcomer are left as they were.
AddMemberOneSided(p, t) ==
    /\ phase = "Open" /\ Approved(p) /\ FreeToJoin(p)
    /\ t <= team_count
    /\ p \notin members[t]
    /\ Cardinality(members[t]) < MaxTeamSize
    /\ members' = [members EXCEPT ![t] = @ \cup {p}]
    /\ UNCHANGED <<lifecycle, registration, team_count, membership, entries>>

(* add_member: captain and newcomer both sign *)
AddMember(p, t) ==
    /\ phase = "Open" /\ Approved(p) /\ FreeToJoin(p)
    /\ t <= team_count
    /\ p \notin members[t]
    /\ Cardinality(members[t]) < MaxTeamSize
    /\ members' = [members EXCEPT ![t] = @ \cup {p}]
    /\ membership' = [membership EXCEPT ![p] = @ \cup {t}]
    /\ UNCHANGED <<lifecycle, registration, team_count, entries>>

-----------------------------------------------------------------------------
(* What they enter. *)

(* accept_track, as far as entries go *)
AcceptTrack(n) ==
    /\ phase = "Open"
    /\ n \notin accepted
    /\ accepted' = accepted \cup {n}
    /\ UNCHANGED <<lifecycle, roster, submission, disqualification>>

Valid(t) == submission[t].status = "valid"

\* Mutant of Submit: the phase is asked for and the deadline is not.
SubmitWhileOpen(t, track) ==
    /\ phase = "Open"
    /\ members[t] # {}
    /\ track \in FrozenTrack \cup accepted
    /\ submission' = [submission EXCEPT ![t] =
          [status       |-> IF @.status = "none" THEN "valid" ELSE @.status,
           track        |-> track,
           submitted_at |-> IF @.status = "none" THEN now ELSE @.submitted_at,
           updated_at   |-> now]]
    /\ UNCHANGED <<lifecycle, roster, accepted, disqualification>>

(* submit_project, by any member, who signs for the whole team: a first     *)
(* entry, or a revision that keeps its place in the order and its standing  *)
Submit(t, track) ==
    /\ phase = "Open"
    /\ schedule["submission_opens_at"] <= now
    /\ now <= schedule["submission_closes_at"]
    /\ members[t] # {}
    /\ track \in FrozenTrack \cup accepted
    /\ submission' = [submission EXCEPT ![t] =
          [status       |-> IF @.status = "none" THEN "valid" ELSE @.status,
           track        |-> track,
           submitted_at |-> IF @.status = "none" THEN now ELSE @.submitted_at,
           updated_at   |-> now]]
    /\ UNCHANGED <<lifecycle, roster, accepted, disqualification>>

Undecided(t) == disqualification[t].opened /\ ~ disqualification[t].resolved

\* Mutant of Invalidate: screening does not look for a case.
InvalidateDespiteACase(t) ==
    /\ phase = "Screening"
    /\ Valid(t)
    /\ submission' = [submission EXCEPT ![t].status = "invalidated"]
    /\ UNCHANGED <<lifecycle, roster, accepted, disqualification>>

(* invalidate_submission: the screening round, but not beside an open case *)
Invalidate(t) ==
    /\ phase = "Screening"
    /\ ~ Undecided(t)
    /\ Valid(t)
    /\ submission' = [submission EXCEPT ![t].status = "invalidated"]
    /\ UNCHANGED <<lifecycle, roster, accepted, disqualification>>

-----------------------------------------------------------------------------
(* The case against an entry. *)

(* require_disqualification_phase *)
Removing == {"Screening", "Judging", "Reveal"}

(* DisqualificationCase::appeal_window_open *)
WindowOpen(t) == now < disqualification[t].opened_at + AppealWindow

(* may_judge: a sponsor's running track is judged by the bench it borrows *)
BenchOf(track) ==
    IF track \in FrozenTrack THEN Bench[track]
    ELSE IF track \in accepted THEN Bench[BorrowsFrom] ELSE {}

(* open_disqualification: at most one case per entry, ever *)
OpenDisqualification(t) ==
    /\ phase \in Removing
    /\ Valid(t)
    /\ ~ disqualification[t].opened
    /\ disqualification' = [disqualification EXCEPT ![t] =
          [opened |-> TRUE, opened_at |-> now, approvals |-> 0, signed |-> {},
           appealed |-> FALSE, resolved |-> FALSE]]
    /\ UNCHANGED <<lifecycle, roster, accepted, submission>>

(* submit_appeal: any member, once, inside the window, in any phase *)
SubmitAppeal(t) ==
    /\ members[t] # {}
    /\ Undecided(t)
    /\ WindowOpen(t)
    /\ ~ disqualification[t].appealed
    /\ disqualification' = [disqualification EXCEPT ![t].appealed = TRUE]
    /\ UNCHANGED <<lifecycle, roster, accepted, submission>>

Signed(case, j) ==
    [case EXCEPT !.signed = case.signed \cup {j}, !.approvals = case.approvals + 1]

\* Mutant of ApproveDisqualification: a judge may sign again.
ApproveDisqualificationAgain(j, t) ==
    /\ j \in BenchOf(submission[t].track)
    /\ Undecided(t)
    /\ disqualification[t].approvals < DisqThreshold
    /\ disqualification' = [disqualification EXCEPT ![t] = Signed(@, j)]
    /\ UNCHANGED <<lifecycle, roster, accepted, submission>>

(* approve_disqualification: a judge of the entry's own track, once; no     *)
(* phase is asked for                                                       *)
ApproveDisqualification(j, t) ==
    /\ submission[t].status # "none"
    /\ j \in BenchOf(submission[t].track)
    /\ Undecided(t)
    /\ j \notin disqualification[t].signed
    /\ disqualification' = [disqualification EXCEPT ![t] = Signed(@, j)]
    /\ UNCHANGED <<lifecycle, roster, accepted, submission>>

(* resolve_disqualification: anyone, once the window has run out.  Below    *)
(* the threshold the entry stands.                                          *)
ResolveDisqualification(t) ==
    LET upheld == disqualification[t].approvals >= DisqThreshold IN
    /\ phase \in Removing
    /\ Undecided(t)
    /\ ~ WindowOpen(t)
    /\ upheld => Valid(t)
    /\ disqualification' = [disqualification EXCEPT ![t].resolved = TRUE]
    /\ submission' = IF upheld
                     THEN [submission EXCEPT ![t].status = "disqualified"]
                     ELSE submission
    /\ UNCHANGED <<lifecycle, roster, accepted>>

(* finalize_results looks through the cases of every team. *)
CloseRanking ==
    /\ FinalizeResults(\E t \in 1..team_count : Undecided(t))
    /\ UNCHANGED <<roster, entries>>

-----------------------------------------------------------------------------

(* The entry points that neither read nor change a roster or an entry. *)
Elsewhere ==
    /\ \/ Tick \/ Configure \/ LockRules \/ BindVault \/ SetUp
       \/ \E funded \in BOOLEAN : Publish(funded)
       \/ AdvancePhase
       \/ \E gains \in Calls :
             (\A d \in Deadline \ Movable : gains[d] = Still) /\ MoveDeadlines(gains)
       \/ OpenSettlement \/ PauseSettlement \/ ResumeSettlement
       \/ \E settled \in BOOLEAN : Complete(settled)
       \/ Cancel \/ OpenCancellation \/ ResolveCancellation
       \/ \E j \in Judge : ApproveCancellation(j)
    /\ UNCHANGED <<roster, entries>>

Joining ==
    \/ \E p \in Person : Apply(p) \/ CreateTeam(p) \/ \E t \in Team : AddMember(p, t)
    \/ \E who \in SUBSET Person, verdict \in {"approved", "rejected"} : Decide(who, verdict)

Entering ==
    \/ \E n \in SponsorTrack : AcceptTrack(n)
    \/ \E t \in Entrant, track \in Track : Submit(t, track)

Removal ==
    \E t \in Team :
        \/ Invalidate(t) \/ OpenDisqualification(t) \/ SubmitAppeal(t)
        \/ ResolveDisqualification(t)
        \/ \E j \in Judge : ApproveDisqualification(j, t)

EntryNext == Elsewhere \/ Joining \/ Entering \/ Removal \/ CloseRanking

EntrySpec == EntryInit /\ [][EntryNext]_contest

-----------------------------------------------------------------------------
(***************************************************************************)
(* What the roster and the entries promise.                                *)
(***************************************************************************)

(* The two records of who is on which team agree: Team.members, which a     *)
(* prize is split by, and the membership of a person, which decides whether *)
(* they may join another.  Nobody is on two teams where the rules allow     *)
(* one, no team outgrows the announced size, everybody on one was let in.   *)
TeamsAreConsistent ==
    /\ \A p \in Person, t \in Team : p \in members[t] <=> t \in membership[p]
    /\ \A p \in Person, t, u \in Team :
          t \in membership[p] /\ u \in membership[p] => MultiTeam \/ t = u
    /\ \A t \in Team : Cardinality(members[t]) <= MaxTeamSize
    /\ \A t \in Team : \A p \in members[t] : Approved(p)

(* The registration deadline in force fixes the electorate: once it has     *)
(* passed nobody gains or loses a vote, whatever the organizer still        *)
(* decides about the queue and however deadlines are extended (roster.rs:   *)
(* otherwise a hundred friends could be waved through on the morning of     *)
(* the vote).                                                               *)
ElectorateFixed ==
    [][phase # "Draft" /\ now > schedule["registration_closes_at"] =>
          \A p \in Person : MayVote(p)' <=> MayVote(p)]_contest

Ranked == {"Finalization", "Settlement", "Completed"}

(* A case that is open is against an entry that stands, and none is open    *)
(* once the ranking is closed.  Otherwise resolving it would be refused for *)
(* good with the threshold reached, and finalize_results, which waits for   *)
(* every case, with it.                                                     *)
CasesAreAgainstStandingEntries ==
    \A t \in Team : Undecided(t) => Valid(t) /\ t <= team_count /\ phase \notin Ranked

(* An entry leaves the running on one of two ways: in screening with no     *)
(* case against it, or over the signatures of DisqThreshold different       *)
(* judges of its own track after the team's window to answer; and it never  *)
(* comes back.                                                              *)
RemovalsAreDue ==
    [][\A t \in Team : submission[t].status # "none" /\ Valid(t)' # Valid(t) =>
          /\ Valid(t)
          /\ \/ phase = "Screening" /\ ~ Undecided(t) /\ submission'[t].status = "invalidated"
             \/ /\ submission'[t].status = "disqualified"
                /\ now >= disqualification[t].opened_at + AppealWindow
                /\ Cardinality(disqualification[t].signed
                               \cap BenchOf(submission[t].track)) >= DisqThreshold
      ]_contest

(* What the ranking was computed from stays as it was, so no payment is put *)
(* back in doubt: once it is closed no entry changes.  After the submission *)
(* window an entry changes only by leaving the running, and before it never *)
(* loses the place its first arrival earned.                                *)
EntriesStand ==
    [][\A t \in Team : submission[t].status # "none" =>
          /\ submission'[t].submitted_at = submission[t].submitted_at
          /\ phase \in Ranked => submission'[t] = submission[t]
          /\ now > schedule["submission_closes_at"] =>
                submission'[t] = [submission[t] EXCEPT !.status = submission'[t].status]
      ]_contest

=============================================================================
