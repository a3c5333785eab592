--------------------------- MODULE Contest_proofs ---------------------------
(***************************************************************************)
(* Proofs about the two parts of a contest that run over the lifecycle     *)
(* from its opening to its ranking: the entries and the cases against them *)
(* (Entry), for any number of people, teams, tracks and judges and however *)
(* deadlines are extended; and the sealed scorecards and ballots           *)
(* (SealedReveal), for every set of them, whoever sends them and however   *)
(* often the sealer's laps are cut off.                                    *)
(***************************************************************************)
EXTENDS Entry, SealedReveal, Lifecycle_proofs

\* What the assumptions on the constants say is open to every step.
USE DEF ValidPolicy, ValidRules, ValidEntries

-----------------------------------------------------------------------------
(***************************************************************************)
(* Entries and the cases against them.                                     *)
(***************************************************************************)

(* Every action of Entry is an action of Lifecycle, or leaves all of its    *)
(* variables alone.                                                         *)
LEMMA EntryStepOfTheLifecycle == [EntryNext]_contest => [Next]_lifecycle
<1> SUFFICES ASSUME [EntryNext]_contest
             PROVE  [Next]_lifecycle
  OBVIOUS
<1>1. CASE Elsewhere
  BY <1>1 DEF Elsewhere, Next
<1>2. CASE CloseRanking
  <2>1. (\E t \in 1..team_count : Undecided(t)) \in BOOLEAN
    OBVIOUS
  <2> QED
    BY <1>2, <2>1 DEF CloseRanking, Next
<1>3. CASE Joining
  BY <1>3 DEF Joining, Apply, CreateTeam, AddMember, Decide
<1>4. CASE Entering
  BY <1>4 DEF Entering, AcceptTrack, Submit
<1>5. CASE Removal
  BY <1>5 DEF Removal, Invalidate, OpenDisqualification, SubmitAppeal,
     ResolveDisqualification, ApproveDisqualification
<1>6. CASE UNCHANGED contest
  BY <1>6 DEF contest
<1> QED
  BY <1>1, <1>2, <1>3, <1>4, <1>5, <1>6 DEF EntryNext

(* Whoever takes part, a hackathon lives the life of Lifecycle, so every    *)
(* theorem about the one holds of the other.                                *)
THEOREM EntryRunsTheLifecycle == EntrySpec => Spec
<1>1. EntryInit => Init
  BY DEF EntryInit
<1> QED
  BY <1>1, EntryStepOfTheLifecycle, PTL DEF EntrySpec, Spec

(* No step returns to a phase before screening, and only finalize_results   *)
(* closes a ranking.                                                        *)
BeforeScreening == {"Draft", "Funding", "Open"}

LEMMA ElsewherePhase ==
    ASSUME TypeOK, Elsewhere
    PROVE  /\ phase' \in BeforeScreening => phase \in BeforeScreening
           /\ phase' \in Ranked => phase \in Ranked
BY DEF TypeOK, Phase, Terminal, Elsewhere, BeforeScreening, Ranked, Tick, Configure,
   LockRules, BindVault, SetUp, Publish, AdvancePhase, Advance, Successor, MoveDeadlines,
   ClosingDeadline, OpenSettlement, PauseSettlement, ResumeSettlement, Complete,
   Cancel, OpenCancellation, ApproveCancellation, ResolveCancellation, Running

-----------------------------------------------------------------------------
(***************************************************************************)
(* The inductive invariant.  A team has members once it is founded; a case *)
(* is opened only after the entries are pinned, so the track whose judges  *)
(* sign it no longer changes; and the count of its signatures is the       *)
(* number of judges who signed.                                            *)
(***************************************************************************)

TeamsInv ==
    /\ TeamsAreConsistent
    /\ \A t \in Team : IsFiniteSet(members[t])
    /\ \A t \in Team : members[t] # {} => t <= team_count

CasesInv ==
    /\ CasesAreAgainstStandingEntries
    /\ \A t \in Team : submission[t].status # "none" => t <= team_count
    /\ \A t \in Team : phase \in BeforeScreening => ~ disqualification[t].opened
    /\ \A t \in Team : disqualification[t].approvals = Cardinality(disqualification[t].signed)
    /\ \A t \in Team : Undecided(t) =>
          disqualification[t].signed \subseteq BenchOf(submission[t].track)

EntryInv == EntryTypeOK /\ TeamsInv /\ CasesInv

(* The constants every proof below starts from. *)
LEMMA EntryShape ==
    /\ MaxTeams \in Nat /\ Team = 1..MaxTeams /\ Team \subseteq Nat
    /\ MaxTeamSize \in Nat /\ MaxTeamSize >= 1
    /\ AppealWindow \in Nat /\ DisqThreshold \in Nat
    /\ IsFiniteSet(Judge)
<1>1. Cardinality(Judge) \in Nat
  BY RulesAssumption, FS_CardinalityType
<1> QED
  BY <1>1, EntryAssumption, RulesAssumption DEF Team

(* The initial states satisfy the invariant. *)
LEMMA InitEntryInv == EntryInit => EntryInv
<1> SUFFICES ASSUME EntryInit PROVE EntryInv
  OBVIOUS
<1> USE EntryShape DEF EntryInit
<1>1. EntryTypeOK
  <2>1. TypeOK
    BY InitInv DEF Inv
  <2>2. registration \in [Person -> [status : {"none", "pending", "approved", "rejected"},
                                      decided_at : Nat]]
    BY DEF NoRequest
  <2>3. submission \in [Team -> [status : {"none", "valid", "invalidated", "disqualified"},
                                 track : Track \cup {NoTrack},
                                 submitted_at : Nat, updated_at : Nat]]
    BY DEF NoEntry
  <2>4. disqualification \in [Team -> [opened : BOOLEAN, opened_at : Nat, approvals : Nat,
                                       signed : SUBSET Judge,
                                       appealed : BOOLEAN, resolved : BOOLEAN]]
    BY DEF Unopened
  <2>5. team_count \in 0..MaxTeams /\ members \in [Team -> SUBSET Person]
        /\ membership \in [Person -> SUBSET Team] /\ accepted \subseteq SponsorTrack
    OBVIOUS
  <2> QED
    BY <2>1, <2>2, <2>3, <2>4, <2>5 DEF EntryTypeOK
<1>2. TeamsInv
  <2>1. IsFiniteSet({}) /\ Cardinality({}) = 0
    BY FS_EmptySet
  <2> QED
    BY <2>1 DEF TeamsInv, TeamsAreConsistent
<1>3. CasesInv
  <2>1. Cardinality({}) = 0
    BY FS_EmptySet
  <2> QED
    BY <2>1 DEF CasesInv, CasesAreAgainstStandingEntries, Undecided, Unopened, NoEntry
<1> QED
  BY <1>1, <1>2, <1>3 DEF EntryInv

-----------------------------------------------------------------------------

(* The rows of the three tables, under names of their own so that a step    *)
(* expands only the row it writes.                                          *)
RequestRow == [status : {"none", "pending", "approved", "rejected"}, decided_at : Nat]
EntryRow == [status : {"none", "valid", "invalidated", "disqualified"},
             track : Track \cup {NoTrack}, submitted_at : Nat, updated_at : Nat]
CaseRow == [opened : BOOLEAN, opened_at : Nat, approvals : Nat, signed : SUBSET Judge,
            appealed : BOOLEAN, resolved : BOOLEAN]

Tables ==
    /\ registration \in [Person -> RequestRow]
    /\ team_count \in 0..MaxTeams
    /\ members \in [Team -> SUBSET Person]
    /\ membership \in [Person -> SUBSET Team]
    /\ accepted \subseteq SponsorTrack
    /\ submission \in [Team -> EntryRow]
    /\ disqualification \in [Team -> CaseRow]

(* Every value a call writes into a table is a row of it. *)
LEMMA RowsWritten ==
    ASSUME TypeOK
    PROVE  /\ \A v \in {"approved", "rejected"} : Decided(v) \in RequestRow
           /\ Pending \in RequestRow
           /\ \A e \in EntryRow, v \in {"invalidated", "disqualified"} :
                 [e EXCEPT !.status = v] \in EntryRow
           /\ \A c \in CaseRow : /\ [c EXCEPT !.appealed = TRUE] \in CaseRow
                                 /\ [c EXCEPT !.resolved = TRUE] \in CaseRow
           /\ \A c \in CaseRow, j \in Judge : Signed(c, j) \in CaseRow
<1>1. now \in Nat
  BY RulesAssumption DEF TypeOK
<1>2. \A v \in {"approved", "rejected"} : Decided(v) \in RequestRow
  BY <1>1 DEF Decided, RequestRow
<1>3. Pending \in RequestRow
  BY DEF Pending, RequestRow
<1>4. \A e \in EntryRow, v \in {"invalidated", "disqualified"} :
         [e EXCEPT !.status = v] \in EntryRow
  BY DEF EntryRow
<1>5. \A c \in CaseRow : /\ [c EXCEPT !.appealed = TRUE] \in CaseRow
                         /\ [c EXCEPT !.resolved = TRUE] \in CaseRow
  BY DEF CaseRow
<1>6. ASSUME NEW c \in CaseRow, NEW j \in Judge
      PROVE  Signed(c, j) \in CaseRow
  <2>1. c.approvals + 1 \in Nat /\ c.signed \cup {j} \in SUBSET Judge
    BY DEF CaseRow
  <2> QED
    BY <2>1 DEF Signed, CaseRow
<1> QED
  BY <1>2, <1>3, <1>4, <1>5, <1>6

(* What each step writes keeps its type. *)
LEMMA StepEntryType ==
    ASSUME EntryInv, TypeOK', [EntryNext]_contest
    PROVE  EntryTypeOK'
<1>a. TypeOK /\ Tables
  BY DEF EntryInv, EntryTypeOK, Tables, RequestRow, EntryRow, CaseRow
<1>b. SUFFICES Tables'
  BY DEF EntryTypeOK, Tables, RequestRow, EntryRow, CaseRow
<1>0. now \in Nat
  BY <1>a, RulesAssumption DEF TypeOK
<1>1. CASE Elsewhere \/ CloseRanking \/ UNCHANGED contest
  BY <1>a, <1>1 DEF Elsewhere, CloseRanking, contest, roster, entries, Tables
<1>2. ASSUME NEW p \in Person, Apply(p)
      PROVE  Tables'
  <2>1. (IF AdmitsImmediately THEN Decided("approved") ELSE Pending) \in RequestRow
    BY <1>a, RowsWritten
  <2> QED
    BY <1>a, <1>2, <2>1 DEF Apply, entries, Tables
<1>3. ASSUME NEW p \in Person, CreateTeam(p)
      PROVE  Tables'
  <2>1. /\ team_count + 1 \in Team
        /\ team_count' = team_count + 1
        /\ members' = [members EXCEPT ![team_count + 1] = {p}]
        /\ membership' = [membership EXCEPT ![p] = @ \cup {team_count + 1}]
        /\ UNCHANGED <<registration, accepted, submission, disqualification>>
    BY <1>3 DEF CreateTeam, entries
  <2>2. team_count' \in 0..MaxTeams
    BY <1>a, <2>1, EntryShape DEF Tables
  <2> QED
    BY <1>a, <2>1, <2>2 DEF Tables
<1>4. ASSUME NEW p \in Person, NEW t \in Team, AddMember(p, t)
      PROVE  Tables'
  BY <1>a, <1>4 DEF AddMember, entries, Tables
<1>5. ASSUME NEW who \in SUBSET Person, NEW verdict \in {"approved", "rejected"},
             Decide(who, verdict)
      PROVE  Tables'
  <2>1. Decided(verdict) \in RequestRow
    BY <1>a, RowsWritten
  <2> QED
    BY <1>a, <1>5, <2>1 DEF Decide, entries, Tables
<1>6. ASSUME NEW n \in SponsorTrack, AcceptTrack(n)
      PROVE  Tables'
  BY <1>a, <1>6 DEF AcceptTrack, roster, Tables
<1>7. ASSUME NEW t \in Entrant, NEW track \in Track, Submit(t, track)
      PROVE  Tables'
  <2>1. t \in Team
    BY EntryAssumption
  <2>2. submission' \in [Team -> EntryRow]
    <3>1. submission \in [Team -> EntryRow]
      BY <1>a DEF Tables
    <3> QED
      BY <1>0, <1>7, <2>1, <3>1 DEF Submit, EntryRow
  <2> QED
    BY <1>a, <1>7, <2>2 DEF Submit, roster, Tables
<1>8. ASSUME NEW t \in Team, Invalidate(t)
      PROVE  Tables'
  <2>1. [submission[t] EXCEPT !.status = "invalidated"] \in EntryRow
    BY <1>a, RowsWritten DEF Tables
  <2> QED
    BY <1>a, <1>8, <2>1 DEF Invalidate, roster, Tables
<1>9. ASSUME NEW t \in Team, OpenDisqualification(t)
      PROVE  Tables'
  <2> DEFINE case == [opened |-> TRUE, opened_at |-> now, approvals |-> 0, signed |-> {},
                      appealed |-> FALSE, resolved |-> FALSE]
  <2>1. case \in CaseRow
    BY <1>0 DEF CaseRow
  <2>2. disqualification' = [disqualification EXCEPT ![t] = case]
    BY <1>9 DEF OpenDisqualification
  <2> HIDE DEF case
  <2> QED
    BY <1>a, <1>9, <2>1, <2>2 DEF OpenDisqualification, roster, Tables
<1>10. ASSUME NEW t \in Team, SubmitAppeal(t)
       PROVE  Tables'
  <2>1. [disqualification[t] EXCEPT !.appealed = TRUE] \in CaseRow
    BY <1>a, RowsWritten DEF Tables
  <2> QED
    BY <1>a, <1>10, <2>1 DEF SubmitAppeal, roster, Tables
<1>11. ASSUME NEW t \in Team, ResolveDisqualification(t)
       PROVE  Tables'
  <2>1. /\ [disqualification[t] EXCEPT !.resolved = TRUE] \in CaseRow
        /\ [submission[t] EXCEPT !.status = "disqualified"] \in EntryRow
    BY <1>a, RowsWritten DEF Tables
  <2>2. /\ disqualification' = [disqualification EXCEPT ![t].resolved = TRUE]
        /\ \/ submission' = submission
           \/ submission' = [submission EXCEPT ![t].status = "disqualified"]
        /\ UNCHANGED <<registration, team_count, members, membership, accepted>>
    BY <1>11 DEF ResolveDisqualification, roster
  <2>3. disqualification' \in [Team -> CaseRow]
    BY <1>a, <2>1, <2>2 DEF Tables
  <2>4. submission' \in [Team -> EntryRow]
    BY <1>a, <2>1, <2>2 DEF Tables
  <2> QED
    BY <1>a, <2>2, <2>3, <2>4 DEF Tables
<1>12. ASSUME NEW t \in Team, NEW j \in Judge, ApproveDisqualification(j, t)
       PROVE  Tables'
  <2>1. Signed(disqualification[t], j) \in CaseRow
    BY <1>a, RowsWritten DEF Tables
  <2> QED
    BY <1>a, <1>12, <2>1 DEF ApproveDisqualification, roster, Tables
<1>13. CASE Joining
  BY <1>13, <1>2, <1>3, <1>4, <1>5 DEF Joining
<1>14. CASE Entering
  BY <1>14, <1>6, <1>7 DEF Entering
<1>15. CASE Removal
  BY <1>15, <1>8, <1>9, <1>10, <1>11, <1>12 DEF Removal
<1> QED
  BY <1>1, <1>13, <1>14, <1>15 DEF EntryNext

(* Joining one at a time, with both records written, keeps the teams as the *)
(* rules announced them.                                                    *)
LEMMA StepTeams ==
    ASSUME EntryInv, [EntryNext]_contest
    PROVE  TeamsInv'
<1> USE EntryShape DEF EntryInv, EntryTypeOK
<1>1. CASE UNCHANGED roster
  BY <1>1 DEF roster, TeamsInv, TeamsAreConsistent, Approved
<1>2. CASE \/ \E p \in Person : Apply(p)
           \/ \E who \in SUBSET Person, verdict \in {"approved", "rejected"} : Decide(who, verdict)
  <2>1. \A p \in Person : Approved(p) => Approved(p)'
    <3>1. CASE \E p \in Person : Apply(p)
      BY <3>1 DEF Apply, Approved, NoRequest
    <3>2. CASE \E who \in SUBSET Person, verdict \in {"approved", "rejected"} : Decide(who, verdict)
      BY <3>2 DEF Decide, Approved
    <3> QED
      BY <1>2, <3>1, <3>2
  <2>2. UNCHANGED <<team_count, members, membership>>
    BY <1>2 DEF Apply, Decide
  <2> QED
    BY <2>1, <2>2 DEF TeamsInv, TeamsAreConsistent
<1>3. CASE \E p \in Person : CreateTeam(p)
  <2> PICK p \in Person : CreateTeam(p)
    BY <1>3
  <2> DEFINE id == team_count + 1
  <2>1. /\ id \in Team /\ id \in Nat /\ team_count' = id /\ team_count \in Nat
        /\ members' = [members EXCEPT ![id] = {p}]
        /\ membership' = [membership EXCEPT ![p] = @ \cup {id}]
        /\ Approved(p) /\ FreeToJoin(p) /\ registration' = registration
    BY DEF CreateTeam
  <2>2. members[id] = {}
    BY <2>1 DEF TeamsInv
  <2>3. IsFiniteSet({p}) /\ Cardinality({p}) = 1
    BY FS_Singleton
  <2> HIDE DEF id
  <2>4. \A q \in Person, t \in Team : q \in members'[t] <=> t \in membership'[q]
    BY <2>1, <2>2 DEF TeamsInv, TeamsAreConsistent
  <2>5. \A q \in Person, t, u \in Team :
           t \in membership'[q] /\ u \in membership'[q] => MultiTeam \/ t = u
    BY <2>1 DEF TeamsInv, TeamsAreConsistent, FreeToJoin
  <2>6. \A t \in Team : /\ IsFiniteSet(members'[t])
                        /\ Cardinality(members'[t]) <= MaxTeamSize
                        /\ \A q \in members'[t] : Approved(q)'
    BY <2>1, <2>3 DEF TeamsInv, TeamsAreConsistent, Approved
  <2>7. \A t \in Team : members'[t] # {} => t <= team_count'
    <3> SUFFICES ASSUME NEW t \in Team, members'[t] # {} PROVE t <= team_count'
      OBVIOUS
    <3>1. CASE t = id
      BY <2>1, <3>1
    <3>2. CASE t # id
      <4>1. t <= team_count
        BY <2>1, <3>2 DEF TeamsInv
      <4> QED
        BY <2>1, <4>1 DEF id
    <3> QED
      BY <3>1, <3>2
  <2> QED
    BY <2>4, <2>5, <2>6, <2>7 DEF TeamsInv, TeamsAreConsistent
<1>4. CASE \E p \in Person, t \in Team : AddMember(p, t)
  <2> PICK p \in Person, t \in Team : AddMember(p, t)
    BY <1>4
  <2>1. /\ members' = [members EXCEPT ![t] = @ \cup {p}]
        /\ membership' = [membership EXCEPT ![p] = @ \cup {t}]
        /\ p \notin members[t] /\ t <= team_count /\ team_count' = team_count
        /\ Cardinality(members[t]) < MaxTeamSize
        /\ Approved(p) /\ FreeToJoin(p) /\ registration' = registration
    BY DEF AddMember
  <2>2. /\ IsFiniteSet(members[t] \cup {p})
        /\ Cardinality(members[t] \cup {p}) = Cardinality(members[t]) + 1
        /\ Cardinality(members[t]) \in Nat
    BY <2>1, FS_AddElement, FS_CardinalityType DEF TeamsInv
  <2>3. \A q \in Person, u \in Team : q \in members'[u] <=> u \in membership'[q]
    BY <2>1 DEF TeamsInv, TeamsAreConsistent
  <2>4. \A q \in Person, u, v \in Team :
           u \in membership'[q] /\ v \in membership'[q] => MultiTeam \/ u = v
    <3> SUFFICES ASSUME NEW q \in Person, NEW u \in Team, NEW v \in Team,
                        u \in membership'[q], v \in membership'[q], ~ MultiTeam
                 PROVE  u = v
      OBVIOUS
    <3>1. CASE q = p
      BY <2>1, <3>1 DEF FreeToJoin
    <3>2. CASE q # p
      BY <2>1, <3>2 DEF TeamsInv, TeamsAreConsistent
    <3> QED
      BY <3>1, <3>2
  <2>5. \A u \in Team : /\ IsFiniteSet(members'[u])
                        /\ Cardinality(members'[u]) <= MaxTeamSize
                        /\ \A q \in members'[u] : Approved(q)'
                        /\ members'[u] # {} => u <= team_count'
    <3>1. \A u \in Team : /\ IsFiniteSet(members[u])
                          /\ Cardinality(members[u]) <= MaxTeamSize
                          /\ \A q \in members[u] : Approved(q)
                          /\ members[u] # {} => u <= team_count
      BY DEF TeamsInv, TeamsAreConsistent
    <3>2. \A q : Approved(q)' <=> Approved(q)
      BY <2>1 DEF Approved
    <3>3. /\ DOMAIN members = Team
          /\ members' = [members EXCEPT ![t] = members[t] \cup {p}]
      BY <2>1
    <3>4. Cardinality(members[t] \cup {p}) <= MaxTeamSize
      BY <2>1, <2>2, EntryShape
    <3> SUFFICES ASSUME NEW u \in Team
                 PROVE  /\ IsFiniteSet(members'[u])
                        /\ Cardinality(members'[u]) <= MaxTeamSize
                        /\ \A q \in members'[u] : Approved(q)
                        /\ members'[u] # {} => u <= team_count
      BY <2>1, <3>2
    <3>5. CASE u = t
      BY <2>1, <2>2, <3>1, <3>3, <3>4, <3>5
    <3>6. CASE u # t
      BY <3>1, <3>3, <3>6
    <3> QED
      BY <3>5, <3>6
  <2> QED
    BY <2>3, <2>4, <2>5 DEF TeamsInv, TeamsAreConsistent
<1>5. CASE Elsewhere \/ CloseRanking \/ Entering \/ Removal \/ UNCHANGED contest
  <2>1. UNCHANGED roster
    BY <1>5 DEF Elsewhere, CloseRanking, Entering, AcceptTrack, Submit, Removal, Invalidate,
       OpenDisqualification, SubmitAppeal, ResolveDisqualification,
       ApproveDisqualification, contest
  <2> QED
    BY <1>1, <2>1
<1> QED
  BY <1>2, <1>3, <1>4, <1>5 DEF EntryNext, Joining

(* A case is opened against an entry that stands, keeps its judges while it *)
(* is open, and is resolved together with what it does to the entry.        *)
LEMMA StepCases ==
    ASSUME EntryInv, [EntryNext]_contest
    PROVE  CasesInv'
<1> USE EntryShape DEF EntryInv, EntryTypeOK
<1>1. CASE Elsewhere \/ UNCHANGED contest
  <2>1. UNCHANGED <<team_count, accepted, submission, disqualification>>
    BY <1>1 DEF Elsewhere, contest, roster, entries
  <2>2. /\ phase' \in BeforeScreening => phase \in BeforeScreening
        /\ phase' \in Ranked => phase \in Ranked
    BY <1>1, ElsewherePhase DEF contest, lifecycle
  <2> QED
    BY <2>1, <2>2 DEF CasesInv, CasesAreAgainstStandingEntries, Undecided, Valid, BenchOf
<1>2. CASE CloseRanking
  <2>1. /\ UNCHANGED <<team_count, accepted, submission, disqualification>>
        /\ phase = "Reveal" /\ phase' = "Finalization"
        /\ \A t \in 1..team_count : ~ Undecided(t)
    BY <1>2 DEF CloseRanking, FinalizeResults, Advance, Successor, roster, entries
  <2>2. \A t \in Team : ~ Undecided(t)
    <3> SUFFICES ASSUME NEW t \in Team, Undecided(t) PROVE FALSE
      OBVIOUS
    <3>1. t <= team_count
      BY DEF CasesInv, CasesAreAgainstStandingEntries
    <3>2. t \in 1..team_count
      BY <3>1
    <3> QED
      BY <2>1, <3>2
  <2> QED
    BY <2>1, <2>2 DEF CasesInv, CasesAreAgainstStandingEntries, Undecided, Valid,
       BenchOf, BeforeScreening
<1>3. CASE Joining
  <2>1. /\ UNCHANGED <<phase, accepted, submission, disqualification>>
        /\ team_count' = team_count \/ team_count' = team_count + 1
    BY <1>3 DEF Joining, Apply, CreateTeam, AddMember, Decide, lifecycle, entries
  <2>2. \A t \in Team : t <= team_count => t <= team_count'
    <3>1. team_count \in Nat
      OBVIOUS
    <3> QED
      BY <2>1, <3>1
  <2> QED
    BY <2>1, <2>2 DEF CasesInv, CasesAreAgainstStandingEntries, Undecided, Valid, BenchOf
<1>4. CASE Entering
  \* The event is open, so there is no case whose bench could change.
  <2>1. /\ phase = "Open" /\ phase' = phase
        /\ UNCHANGED <<team_count, disqualification>>
    BY <1>4 DEF Entering, AcceptTrack, Submit, roster, lifecycle
  <2>2. \A t \in Team : ~ disqualification[t].opened
    BY <2>1 DEF CasesInv, BeforeScreening
  <2>3. \A t \in Team : submission'[t].status # "none" => t <= team_count
    BY <1>4 DEF Entering, AcceptTrack, Submit, CasesInv, TeamsInv
  <2> QED
    BY <2>1, <2>2, <2>3 DEF CasesInv, CasesAreAgainstStandingEntries, Undecided
<1>5. CASE Removal
  <2> PICK t \in Team : \/ Invalidate(t) \/ OpenDisqualification(t) \/ SubmitAppeal(t)
                        \/ ResolveDisqualification(t)
                        \/ \E j \in Judge : ApproveDisqualification(j, t)
    BY <1>5 DEF Removal
  <2>0. UNCHANGED <<phase, team_count, accepted>>
    BY DEF Invalidate, OpenDisqualification, SubmitAppeal, ResolveDisqualification,
       ApproveDisqualification, lifecycle, roster
  <2>1. CASE Invalidate(t)
    <3>1. /\ disqualification' = disqualification /\ ~ Undecided(t) /\ Valid(t)
          /\ submission' = [submission EXCEPT ![t].status = "invalidated"]
      BY <2>1 DEF Invalidate
    <3>2. \A u \in Team : submission'[u].track = submission[u].track
      BY <3>1
    <3> QED
      BY <2>0, <3>1, <3>2 DEF CasesInv, CasesAreAgainstStandingEntries, Undecided, Valid, BenchOf
  <2>2. CASE OpenDisqualification(t)
    <3>1. Cardinality({}) = 0
      BY FS_EmptySet
    <3>2. /\ submission' = submission /\ Valid(t) /\ phase \in Removing
          /\ disqualification' = [disqualification EXCEPT ![t] =
                [opened |-> TRUE, opened_at |-> now, approvals |-> 0, signed |-> {},
                 appealed |-> FALSE, resolved |-> FALSE]]
      BY <2>2 DEF OpenDisqualification
    <3> QED
      BY <2>0, <3>1, <3>2 DEF CasesInv, CasesAreAgainstStandingEntries, Undecided, Valid,
         BenchOf, BeforeScreening, Ranked, Removing
  <2>3. CASE SubmitAppeal(t)
    <3>1. /\ submission' = submission
          /\ disqualification' = [disqualification EXCEPT ![t].appealed = TRUE]
      BY <2>3 DEF SubmitAppeal
    <3>2. \A u \in Team : /\ disqualification'[u].opened = disqualification[u].opened
                          /\ disqualification'[u].resolved = disqualification[u].resolved
                          /\ disqualification'[u].approvals = disqualification[u].approvals
                          /\ disqualification'[u].signed = disqualification[u].signed
      BY <3>1
    <3>3. \A u \in Team : Undecided(u)' <=> Undecided(u)
      BY <3>2 DEF Undecided
    <3>4. \A track : BenchOf(track)' = BenchOf(track)
      BY <2>0 DEF BenchOf
    <3>5. \A u \in Team : Valid(u)' <=> Valid(u)
      BY <3>1 DEF Valid
    <3> QED
      BY <2>0, <3>1, <3>2, <3>3, <3>4, <3>5 DEF CasesInv, CasesAreAgainstStandingEntries
  <2>4. CASE ResolveDisqualification(t)
    <3>1. /\ disqualification' = [disqualification EXCEPT ![t].resolved = TRUE]
          /\ \/ submission' = submission
             \/ submission' = [submission EXCEPT ![t].status = "disqualified"]
          /\ Undecided(t)
      BY <2>4 DEF ResolveDisqualification
    <3>2. /\ \A u \in Team : u # t => submission'[u] = submission[u]
          /\ \A u \in Team : u # t => disqualification'[u] = disqualification[u]
          /\ disqualification'[t] = [disqualification[t] EXCEPT !.resolved = TRUE]
      BY <3>1
    <3>3. t <= team_count
      BY <3>1 DEF CasesInv, CasesAreAgainstStandingEntries
    <3>4. \A u \in Team : Undecided(u)' => Undecided(u) /\ u # t
      BY <3>2 DEF Undecided
    <3>5. \A track : BenchOf(track)' = BenchOf(track)
      BY <2>0 DEF BenchOf
    <3>6. CasesAreAgainstStandingEntries'
      BY <2>0, <3>2, <3>4 DEF CasesInv, CasesAreAgainstStandingEntries, Valid
    <3>7. \A u \in Team : submission'[u].status # "none" => u <= team_count'
      BY <2>0, <3>2, <3>3 DEF CasesInv
    <3>8. \A u \in Team : Undecided(u)' =>
             disqualification'[u].signed \subseteq BenchOf(submission[u].track)
      BY <3>2, <3>4 DEF CasesInv
    <3>a. \A u \in Team : /\ disqualification'[u].opened = disqualification[u].opened
                          /\ disqualification'[u].approvals = disqualification[u].approvals
                          /\ disqualification'[u].signed = disqualification[u].signed
      BY <3>1
    <3>b. \A u \in Team : phase \in BeforeScreening => ~ disqualification[u].opened
      BY DEF CasesInv
    <3>c. \A u \in Team : disqualification[u].approvals = Cardinality(disqualification[u].signed)
      BY DEF CasesInv
    <3>d. phase' = phase
      BY <2>0
    <3>9. \A u \in Team :
             /\ phase' \in BeforeScreening => ~ disqualification'[u].opened
             /\ disqualification'[u].approvals = Cardinality(disqualification'[u].signed)
      <4> HIDE DEF EntryInv, EntryTypeOK
      <4> QED
        BY <3>a, <3>b, <3>c, <3>d, Zenon
    <3> QED
      BY <3>2, <3>4, <3>5, <3>6, <3>7, <3>8, <3>9 DEF CasesInv
  <2>5. CASE \E j \in Judge : ApproveDisqualification(j, t)
    <3> PICK j \in Judge : ApproveDisqualification(j, t)
      BY <2>5
    <3> DEFINE case == disqualification[t]
    <3>1. /\ submission' = submission
          /\ j \in BenchOf(submission[t].track) /\ j \notin case.signed
          /\ disqualification' = [disqualification EXCEPT ![t] = Signed(@, j)]
          /\ Undecided(t)
      BY DEF ApproveDisqualification
    <3>2. IsFiniteSet(case.signed)
      BY FS_Subset
    <3>3. Cardinality(case.signed \cup {j}) = case.approvals + 1
      <4>1. case.approvals = Cardinality(case.signed)
        BY DEF CasesInv
      <4>2. Cardinality(case.signed \cup {j}) = Cardinality(case.signed) + 1
        BY <3>1, <3>2, FS_AddElement
      <4> QED
        BY <4>1, <4>2
    <3>4. /\ disqualification'[t].signed = case.signed \cup {j}
          /\ disqualification'[t].approvals = case.approvals + 1
          /\ disqualification'[t].opened = disqualification[t].opened
          /\ disqualification'[t].resolved = disqualification[t].resolved
          /\ \A u \in Team : u # t => disqualification'[u] = disqualification[u]
      BY <3>1 DEF Signed
    <3> HIDE DEF case
    <3>5. case.signed \subseteq BenchOf(submission[t].track)
      BY <3>1 DEF CasesInv, case
    <3>6. \A u \in Team : Undecided(u)' => Undecided(u)
      BY <3>4 DEF Undecided
    <3>7. \A track : BenchOf(track)' = BenchOf(track)
      BY <2>0 DEF BenchOf
    <3>8. CasesAreAgainstStandingEntries'
      BY <2>0, <3>1, <3>6 DEF CasesInv, CasesAreAgainstStandingEntries, Valid
    <3>9. \A u \in Team :
             /\ phase' \in BeforeScreening => ~ disqualification'[u].opened
             /\ disqualification'[u].approvals = Cardinality(disqualification'[u].signed)
      BY <2>0, <3>3, <3>4 DEF CasesInv
    <3>10. \A u \in Team : Undecided(u)' =>
              disqualification'[u].signed \subseteq BenchOf(submission[u].track)
      BY <3>1, <3>4, <3>5, <3>6 DEF CasesInv
    <3> QED
      BY <2>0, <3>1, <3>7, <3>8, <3>9, <3>10 DEF CasesInv
  <2> QED
    BY <2>1, <2>2, <2>3, <2>4, <2>5
<1> QED
  BY <1>1, <1>2, <1>3, <1>4, <1>5 DEF EntryNext

(* Every reachable state satisfies the invariant. *)
THEOREM EntryInvariance == EntrySpec => []EntryInv
<1>1. EntryInit => EntryInv
  BY InitEntryInv
<1>2. EntryInv /\ TypeOK' /\ [EntryNext]_contest => EntryInv'
  BY StepEntryType, StepTeams, StepCases DEF EntryInv
<1> QED
  BY <1>1, <1>2, EntryRunsTheLifecycle, TypeCorrect, PTL DEF EntrySpec

-----------------------------------------------------------------------------

(* The roster, the entries and the cases keep their type. *)
THEOREM EntryTypeCorrect == EntrySpec => []EntryTypeOK
<1>1. EntryInv => EntryTypeOK
  BY DEF EntryInv
<1> QED
  BY <1>1, EntryInvariance, PTL

(* Team.members and the membership index agree, within the announced rules. *)
THEOREM RosterAgrees == EntrySpec => []TeamsAreConsistent
<1>1. EntryInv => TeamsAreConsistent
  BY DEF EntryInv, TeamsInv
<1> QED
  BY <1>1, EntryInvariance, PTL

(* An open case is against an entry that stands, before the ranking: what   *)
(* finalize_results waits for can always be resolved.                       *)
THEOREM CasesCanBeResolved == EntrySpec => []CasesAreAgainstStandingEntries
<1>1. EntryInv => CasesAreAgainstStandingEntries
  BY DEF EntryInv, CasesInv
<1> QED
  BY <1>1, EntryInvariance, PTL

(* approve_application after the registration deadline gives nobody a vote, *)
(* and no extension moves a deadline that has passed.                       *)
THEOREM ElectorateStands == EntrySpec => ElectorateFixed
<1> DEFINE Late == phase # "Draft" /\ now > schedule["registration_closes_at"]
<1>1. Inv /\ EntryInv /\ [EntryNext]_contest =>
         (Late => \A p \in Person : MayVote(p)' <=> MayVote(p))
  <2> SUFFICES ASSUME Inv, EntryInv, [EntryNext]_contest, Late, NEW p \in Person
               PROVE  MayVote(p)' <=> MayVote(p)
    OBVIOUS
  <2>1. now \in Nat /\ schedule["registration_closes_at"] \in Nat
    BY RulesAssumption, ScheduleShape DEF Inv, TypeOK, Deadline
  <2>2. schedule'["registration_closes_at"] = schedule["registration_closes_at"]
    BY <2>1, EntryStepOfTheLifecycle, StepStands DEF Deadline
  <2>3. CASE registration' = registration
    BY <2>2, <2>3 DEF MayVote
  <2>4. CASE \E q \in Person : Apply(q)
    BY <2>1, <2>4 DEF Apply
  <2>5. CASE \E who \in SUBSET Person, verdict \in {"approved", "rejected"} : Decide(who, verdict)
    <3>1. \/ registration'[p] = registration[p]
          \/ registration[p].status = "pending" /\ registration'[p].decided_at = now
      BY <2>5 DEF Decide, Decided
    <3> QED
      BY <2>1, <2>2, <3>1 DEF MayVote
  <2> QED
    BY <2>3, <2>4, <2>5 DEF EntryNext, Elsewhere, CloseRanking, Joining, CreateTeam,
       AddMember, Entering, AcceptTrack, Submit, Removal, Invalidate, OpenDisqualification,
       SubmitAppeal, ResolveDisqualification, ApproveDisqualification, contest, roster
<1> QED
  BY <1>1, EntryInvariance, EntryRunsTheLifecycle, Invariance, PTL
  DEF EntrySpec, ElectorateFixed

(* An entry that stands leaves the running in screening with no case open,  *)
(* or over enough signatures of its own track's judges after the window.    *)
LEMMA RemovalStep ==
    ASSUME EntryInv, [EntryNext]_contest, NEW t \in Team,
           submission[t].status # "none", Valid(t)' # Valid(t)
    PROVE  /\ Valid(t)
           /\ \/ phase = "Screening" /\ ~ Undecided(t) /\ submission'[t].status = "invalidated"
              \/ /\ submission'[t].status = "disqualified"
                 /\ now >= disqualification[t].opened_at + AppealWindow
                 /\ Cardinality(disqualification[t].signed
                                \cap BenchOf(submission[t].track)) >= DisqThreshold
<1> USE EntryShape DEF EntryInv, EntryTypeOK
<1>1. CASE \E u \in Team : Invalidate(u)
  BY <1>1 DEF Invalidate, Valid
<1>2. CASE \E u \in Team : ResolveDisqualification(u)
  <2> PICK u \in Team : ResolveDisqualification(u)
    BY <1>2
  <2>1. u = t /\ Valid(t) /\ submission'[t].status = "disqualified"
    BY DEF ResolveDisqualification, Valid
  <2>2. now >= disqualification[t].opened_at + AppealWindow
    <3>1. now \in Nat /\ disqualification[t].opened_at \in Nat
      BY RulesAssumption DEF TypeOK
    <3> QED
      BY <2>1, <3>1 DEF ResolveDisqualification, WindowOpen
  <2>3. disqualification[t].signed \cap BenchOf(submission[t].track) = disqualification[t].signed
    BY <2>1 DEF ResolveDisqualification, CasesInv
  <2>4. disqualification[t].approvals >= DisqThreshold
    BY <2>1 DEF ResolveDisqualification, Valid
  <2> QED
    BY <2>1, <2>2, <2>3, <2>4 DEF CasesInv
<1>3. CASE \E u \in Entrant, track \in Track : Submit(u, track)
  BY <1>3 DEF Submit, Valid
<1>4. CASE UNCHANGED submission
  BY <1>4 DEF Valid
<1> QED
  BY <1>1, <1>2, <1>3, <1>4 DEF EntryNext, Elsewhere, CloseRanking, Joining, Apply, CreateTeam,
     AddMember, Decide, Entering, AcceptTrack, Removal, OpenDisqualification, SubmitAppeal,
     ApproveDisqualification, contest, entries

(* Nobody is removed without the process the rules announced. *)
THEOREM RemovalsFollowTheRules == EntrySpec => RemovalsAreDue
<1> DEFINE Due(t) ==
      submission[t].status # "none" /\ Valid(t)' # Valid(t) =>
          /\ Valid(t)
          /\ \/ phase = "Screening" /\ ~ Undecided(t) /\ submission'[t].status = "invalidated"
             \/ /\ submission'[t].status = "disqualified"
                /\ now >= disqualification[t].opened_at + AppealWindow
                /\ Cardinality(disqualification[t].signed
                               \cap BenchOf(submission[t].track)) >= DisqThreshold
<1>1. EntryInv /\ [EntryNext]_contest => \A t \in Team : Due(t)
  BY RemovalStep
<1> QED
  BY <1>1, EntryInvariance, PTL DEF EntrySpec, RemovalsAreDue

(* Only screening, a case and a revision in the window write an entry, none *)
(* of them once the ranking is closed.                                      *)
LEMMA EntryStep ==
    ASSUME EntryInv, [EntryNext]_contest, NEW t \in Team, submission[t].status # "none"
    PROVE  /\ submission'[t].submitted_at = submission[t].submitted_at
           /\ phase \in Ranked => submission'[t] = submission[t]
           /\ now > schedule["submission_closes_at"] =>
                 submission'[t] = [submission[t] EXCEPT !.status = submission'[t].status]
<1> USE EntryShape DEF EntryInv, EntryTypeOK
<1>1. CASE \E u \in Team : Invalidate(u) \/ ResolveDisqualification(u)
  <2>1. phase \notin Ranked
    BY <1>1 DEF Invalidate, ResolveDisqualification, Ranked, Removing
  <2>2. \/ submission'[t] = submission[t]
        \/ \E s \in {"invalidated", "disqualified"} :
              submission'[t] = [submission[t] EXCEPT !.status = s]
    <3> PICK u \in Team : Invalidate(u) \/ ResolveDisqualification(u)
      BY <1>1
    <3>1. \/ submission' = submission
          \/ submission' = [submission EXCEPT ![u].status = "invalidated"]
          \/ submission' = [submission EXCEPT ![u].status = "disqualified"]
      BY DEF Invalidate, ResolveDisqualification
    <3>2. DOMAIN submission = Team
      OBVIOUS
    <3>3. CASE u = t
      BY <3>1, <3>2, <3>3, Zenon
    <3>4. CASE u # t
      <4>1. submission'[t] = submission[t]
        BY <3>1, <3>2, <3>4, Zenon
      <4> QED
        BY <4>1
    <3> QED
      BY <3>3, <3>4
  <2> QED
    BY <2>1, <2>2
<1>2. CASE \E u \in Entrant, track \in Track : Submit(u, track)
  <2>1. now \in Nat /\ schedule["submission_closes_at"] \in Nat
    BY RulesAssumption, ScheduleShape DEF TypeOK, Deadline
  <2>2. ~ (now > schedule["submission_closes_at"]) /\ phase = "Open"
    BY <1>2, <2>1 DEF Submit
  <2> QED
    BY <1>2, <2>2 DEF Submit, Ranked
<1>3. CASE UNCHANGED submission
  BY <1>3
<1> QED
  BY <1>1, <1>2, <1>3 DEF EntryNext, Elsewhere, CloseRanking, Joining, Apply, CreateTeam,
     AddMember, Decide, Entering, AcceptTrack, Removal, OpenDisqualification, SubmitAppeal,
     ApproveDisqualification, contest, entries

(* What the ranking was computed from stays as it was. *)
THEOREM EntriesKeepTheirPlace == EntrySpec => EntriesStand
<1> DEFINE Stands(t) ==
      submission[t].status # "none" =>
          /\ submission'[t].submitted_at = submission[t].submitted_at
          /\ phase \in Ranked => submission'[t] = submission[t]
          /\ now > schedule["submission_closes_at"] =>
                submission'[t] = [submission[t] EXCEPT !.status = submission'[t].status]
<1>1. EntryInv /\ [EntryNext]_contest => \A t \in Team : Stands(t)
  BY EntryStep
<1> QED
  BY <1>1, EntryInvariance, PTL DEF EntrySpec, EntriesStand

-----------------------------------------------------------------------------
(***************************************************************************)
(* Sealed scorecards and ballots.                                          *)
(***************************************************************************)

(* Every action of SealedReveal is an action of Lifecycle, or leaves all of *)
(* its variables alone.                                                     *)
LEMMA SealedStepOfTheLifecycle == [SealedNext]_event => [Next]_lifecycle
<1> SUFFICES ASSUME [SealedNext]_event
             PROVE  [Next]_lifecycle
  OBVIOUS
<1>1. CASE Next /\ UNCHANGED sealing
  BY <1>1
<1>2. CASE Rank
  BY <1>2 DEF Rank, Next
<1>3. CASE \/ BeginSealing \/ BeginReveal \/ GiveUp \/ Abandon \/ Project \/ AnswerSeal
           \/ \E k \in Kind : SendRoot(k) \/ RebuildTree(k) \/ AskToSeal(k)
  BY <1>3 DEF BeginSealing, BeginReveal, GiveUp, Abandon, Project, AnswerSeal,
     SendRoot, RebuildTree, AskToSeal
<1>4. CASE \/ \E l \in Leaf : RevealNext(l) \/ Take(l) \/ RevealByAnyone(l)
           \/ \E s \in Slot : Recuse(s)
  BY <1>4 DEF RevealNext, Take, RevealByAnyone, Recuse
<1>5. CASE UNCHANGED event
  BY <1>5 DEF event
<1> QED
  BY <1>1, <1>2, <1>3, <1>4, <1>5 DEF SealedNext, SealerStep

(* However it is judged, a hackathon lives the life of Lifecycle, so every  *)
(* theorem about the one holds of the other.                                *)
THEOREM JudgingRunsTheLifecycle == SealedSpec => Spec
<1>1. SealedInit => Init
  BY DEF SealedInit
<1> QED
  BY <1>1, SealedStepOfTheLifecycle, PTL DEF SealedSpec, Spec

(* Judging comes before the reveal, and the reveal before the end. *)
LEMMA StageMoves ==
    ASSUME TypeOK, [Next]_lifecycle
    PROVE  \/ Stage' = Stage
           \/ Stage = "collecting" /\ Stage' = "opening"
           \/ Stage # "closed" /\ Stage' = "closed"
BY DEF TypeOK, Phase, Terminal, Stage, Next, lifecycle, Tick, Configure, LockRules,
   BindVault, SetUp, Publish, AdvancePhase, Advance, Successor, MoveDeadlines,
   FinalizeResults, OpenSettlement, PauseSettlement, ResumeSettlement, Complete,
   Cancel, OpenCancellation, ApproveCancellation, ResolveCancellation, Running

-----------------------------------------------------------------------------

(* Nothing is counted while input is still collected. *)
CountedLate == Stage = "collecting" => recorded = {}

SealedInv == TypeOK /\ SealedTypeOK /\ CountedLate /\ RecusedDoNotCount

(* A part of what a table with one row per slot holds has one per slot. *)
LEMMA OfKindShape ==
    ASSUME NEW leaves \in SUBSET Leaf, NEW k \in Kind, OnePerSlot(leaves)
    PROVE  /\ OfKind(leaves, k) \subseteq leaves
           /\ OfKind(leaves, k) \subseteq OfKind(Leaf, k)
           /\ OnePerSlot(OfKind(leaves, k))
BY DEF OfKind, OnePerSlot

(* A root sent to the contract is stored as it is, or not at all. *)
LEMMA SentShape ==
    ASSUME SealedTypeOK, NEW k \in Kind, NEW leaves \in SUBSET OfKind(Leaf, k),
           OnePerSlot(leaves), Sent(k, leaves)
    PROVE  /\ root' \in [Kind -> SUBSET Leaf]
           /\ \A i \in Kind : OnePerSlot(root'[i]) /\ root'[i] \subseteq OfKind(Leaf, i)
BY DEF SealedTypeOK, Sent, OfKind

LEMMA PublishingShape ==
    ASSUME NEW trees \in [Kind -> SUBSET Leaf],
           \A k \in Kind : OnePerSlot(trees[k]) /\ trees[k] \subseteq OfKind(Leaf, k)
    PROVE  /\ Publishing(trees) \in Laps
           /\ Publishing(trees).trees = trees
BY DEF Publishing, Laps, Idle, Nothing

(* The invariant holds before anything was sent. *)
LEMMA InitSealedInv == SealedInit => SealedInv
<1> SUFFICES ASSUME SealedInit
             PROVE  SealedInv
  OBVIOUS
<1>1. TypeOK
  BY InitInv DEF SealedInit, Inv
<1>2. Idle \in Laps /\ Idle.trees = Nothing
  BY DEF Idle, Laps, Nothing
<1>3. Nothing \in [Kind -> SUBSET Leaf] /\ \A k \in Kind : Nothing[k] = {}
  BY DEF Nothing
<1>4. SealedTypeOK
  <2>1. OnePerSlot({})
    BY DEF OnePerSlot
  <2>2. 0 \in 0..MaxFailures
    BY EntriesAssumption
  <2> QED
    BY <1>2, <1>3, <2>1, <2>2 DEF SealedInit, SealedTypeOK
<1> QED
  BY <1>1, <1>4 DEF SealedInit, SealedInv, CountedLate, RecusedDoNotCount

(* Whatever a step does, the sealer's records and the contract's keep their *)
(* type and one entry per slot.                                             *)
LEMMA StepSealedType ==
    ASSUME SealedTypeOK, [SealedNext]_event
    PROVE  SealedTypeOK'
<1> USE EntriesAssumption
<1>1. CASE (Next /\ UNCHANGED sealing) \/ UNCHANGED event
  BY <1>1 DEF event, sealing, onchain, sealer, SealedTypeOK, OnePerSlot
<1>2. CASE \E l \in Leaf : Take(l)
  <2> PICK l \in Leaf : Take(l)
    BY <1>2
  <2>1. held' \in SUBSET Leaf /\ OnePerSlot(held')
    BY DEF Take, SealedTypeOK, OnePerSlot
  <2> QED
    BY <2>1 DEF Take, onchain, SealedTypeOK, OnePerSlot
<1>3. CASE Project
  BY <1>3 DEF Project, onchain, SealedTypeOK, OnePerSlot
<1>4. CASE \E s \in Slot : Recuse(s)
  BY <1>4 DEF Recuse, sealer, SealedTypeOK, OnePerSlot
<1>5. CASE \E l \in Leaf : RevealByAnyone(l)
  BY <1>5 DEF RevealByAnyone, sealer, SealedTypeOK, OnePerSlot
<1>6. CASE \E k \in Kind : AskToSeal(k)
  <2> PICK k \in Kind : AskToSeal(k)
    BY <1>6
  <2>1. asked' \in SUBSET Leaf /\ OnePerSlot(asked')
        /\ \A l, m \in asked' : KindOf[l] = KindOf[m]
    BY OfKindShape DEF AskToSeal, SealedTypeOK, OfKind
  <2> QED
    BY <2>1 DEF AskToSeal, onchain, SealedTypeOK, OnePerSlot
<1>7. CASE AnswerSeal
  <2> PICK l \in asked : Sent(KindOf[l], asked)
    BY <1>7 DEF AnswerSeal
  <2>1. KindOf[l] \in Kind /\ asked \in SUBSET OfKind(Leaf, KindOf[l])
    BY DEF SealedTypeOK, OfKind
  <2>2. /\ root' \in [Kind -> SUBSET Leaf]
        /\ \A i \in Kind : OnePerSlot(root'[i]) /\ root'[i] \subseteq OfKind(Leaf, i)
    BY <2>1, SentShape DEF SealedTypeOK
  <2> QED
    BY <1>7, <2>2 DEF AnswerSeal, SealedTypeOK, OnePerSlot
<1>8. CASE BeginSealing
  <2> DEFINE trees == [k \in Kind |-> OfKind(held, k)]
  <2>1. /\ trees \in [Kind -> SUBSET Leaf]
        /\ \A k \in Kind : OnePerSlot(trees[k]) /\ trees[k] \subseteq OfKind(Leaf, k)
    BY OfKindShape DEF SealedTypeOK
  <2>2. lap' \in Laps /\ lap'.trees = trees
    BY <1>8, <2>1, PublishingShape DEF BeginSealing
  <2> QED
    BY <1>8, <2>1, <2>2 DEF BeginSealing, onchain, SealedTypeOK, OnePerSlot
<1>9. CASE \E k \in Kind : SendRoot(k)
  <2> PICK k \in Kind : SendRoot(k)
    BY <1>9
  <2> DEFINE trees == [lap.trees EXCEPT ![k] = {}]
  <2>1. lap.trees \in [Kind -> SUBSET Leaf]
    BY DEF SealedTypeOK, Laps
  <2>2. /\ trees \in [Kind -> SUBSET Leaf]
        /\ \A i \in Kind : OnePerSlot(trees[i]) /\ trees[i] \subseteq OfKind(Leaf, i)
    BY <2>1 DEF SealedTypeOK, OnePerSlot
  <2>3. lap' \in Laps /\ lap'.trees = trees
    BY <2>2, PublishingShape DEF SendRoot
  <2>4. /\ root' \in [Kind -> SUBSET Leaf]
        /\ \A i \in Kind : OnePerSlot(root'[i]) /\ root'[i] \subseteq OfKind(Leaf, i)
    BY <2>1, SentShape DEF SendRoot, SealedTypeOK
  <2> HIDE DEF trees
  <2> QED
    BY <2>2, <2>3, <2>4 DEF SendRoot, SealedTypeOK, OnePerSlot
<1>10. CASE BeginReveal
  <2>1. lap' \in Laps /\ lap'.trees = Nothing
    BY <1>10 DEF BeginReveal, Laps, Nothing, SealedTypeOK
  <2> QED
    BY <1>10, <2>1 DEF BeginReveal, onchain, Nothing, SealedTypeOK, OnePerSlot
<1>11. CASE \E k \in Kind : RebuildTree(k)
  <2> PICK k \in Kind : RebuildTree(k)
    BY <1>11
  <2>1. lap \in Laps /\ lap.trees \in [Kind -> SUBSET Leaf]
    BY DEF SealedTypeOK, Laps
  <2>2. /\ OfKind(held, k) \in SUBSET Leaf /\ OnePerSlot(OfKind(held, k))
        /\ OfKind(held, k) \subseteq OfKind(Leaf, k)
    BY OfKindShape DEF SealedTypeOK
  <2>3. lap' = [lap EXCEPT !.trees = [lap.trees EXCEPT ![k] = OfKind(held, k)]]
    BY DEF RebuildTree
  <2>4. lap' \in Laps /\ lap'.trees = [lap.trees EXCEPT ![k] = OfKind(held, k)]
    BY <2>1, <2>2, <2>3 DEF Laps
  <2>5. \A i \in Kind : OnePerSlot(lap'.trees[i]) /\ lap'.trees[i] \subseteq OfKind(Leaf, i)
    BY <2>1, <2>2, <2>4 DEF SealedTypeOK
  <2> QED
    BY <2>4, <2>5 DEF RebuildTree, onchain, SealedTypeOK, OnePerSlot
<1>12. CASE \E l \in Leaf : RevealNext(l)
  <2> PICK l \in Leaf : RevealNext(l)
    BY <1>12
  <2> DEFINE ok == lap.clean /\ l \in lap.trees[KindOf[l]]
                              /\ ~ Objects(l, lap.trees[KindOf[l]])
  <2>1. ok \in BOOLEAN
    OBVIOUS
  <2>2. lap' = [lap EXCEPT !.todo = @ \ {l}, !.clean = ok]
    BY DEF RevealNext
  <2> HIDE DEF ok
  <2>3. lap' \in Laps /\ lap'.trees = lap.trees
    BY <2>1, <2>2 DEF SealedTypeOK, Laps
  <2>4. recorded' \in SUBSET Leaf
    BY DEF RevealNext, SealedTypeOK
  <2> QED
    BY <2>3, <2>4 DEF RevealNext, SealedTypeOK, OnePerSlot
<1>13. CASE Rank \/ GiveUp \/ Abandon
  <2>1. Idle \in Laps /\ Idle.trees = Nothing
    BY DEF Idle, Laps, Nothing
  <2>2. lap' = Idle /\ UNCHANGED <<onchain, held, asked, collecting>>
    BY <1>13 DEF Rank, GiveUp, Abandon
  <2>3. failures' = failures \/ (failures < MaxFailures /\ failures' = failures + 1)
    BY <1>13 DEF Rank, GiveUp, Abandon
  <2>4. failures' \in 0..MaxFailures
    BY <2>3 DEF SealedTypeOK
  <2> QED
    BY <2>1, <2>2, <2>4 DEF onchain, SealedTypeOK, Nothing, OnePerSlot
<1> QED
  BY <1>1, <1>2, <1>3, <1>4, <1>5, <1>6, <1>7, <1>8, <1>9, <1>10, <1>11, <1>12, <1>13
  DEF SealedNext, SealerStep

-----------------------------------------------------------------------------

(* Only an accepted reveal counts an entry: one under the root, in Reveal.  *)
LEMMA WhoCounts ==
    ASSUME [SealedNext]_event
    PROVE  \/ recorded' = recorded
           \/ \E l \in Leaf :
                 /\ phase = "Reveal"
                 /\ l \in root[KindOf[l]]
                 /\ Countable(l)
                 /\ recorded' = recorded \cup {l}
                 /\ UNCHANGED <<lifecycle, root, recused>>
<1>1. CASE \E l \in Leaf : RevealNext(l)
  BY <1>1 DEF RevealNext, Accepts
<1>2. CASE \E l \in Leaf : RevealByAnyone(l)
  BY <1>2 DEF RevealByAnyone, Accepts
<1>3. CASE (Next /\ UNCHANGED sealing) \/ UNCHANGED event
  BY <1>3 DEF event, sealing, onchain
<1>4. CASE \/ BeginSealing \/ BeginReveal \/ Rank \/ GiveUp \/ Abandon \/ Project
           \/ AnswerSeal \/ \E k \in Kind : SendRoot(k) \/ RebuildTree(k) \/ AskToSeal(k)
  BY <1>4 DEF BeginSealing, BeginReveal, Rank, GiveUp, Abandon, Project, AnswerSeal,
     SendRoot, RebuildTree, AskToSeal, onchain
<1>5. CASE (\E l \in Leaf : Take(l)) \/ (\E s \in Slot : Recuse(s))
  BY <1>5 DEF Take, Recuse, onchain
<1> QED
  BY <1>1, <1>2, <1>3, <1>4, <1>5 DEF SealedNext, SealerStep

(* Only an accepted root is stored, where there was none, in Judging. *)
LEMMA WhoSeals ==
    ASSUME SealedTypeOK, [SealedNext]_event
    PROVE  \/ root' = root
           \/ \E k \in Kind, leaves \in SUBSET Leaf :
                 /\ phase = "Judging"
                 /\ root[k] = {}
                 /\ leaves # {} /\ OnePerSlot(leaves)
                 /\ root' = [root EXCEPT ![k] = leaves]
                 /\ UNCHANGED <<lifecycle, recorded, recused>>
<1>1. CASE \E k \in Kind : SendRoot(k)
  <2> PICK k \in Kind : SendRoot(k)
    BY <1>1
  <2>1. lap.trees[k] \in SUBSET Leaf /\ OnePerSlot(lap.trees[k])
    BY DEF SealedTypeOK, Laps
  <2> QED
    BY <2>1 DEF SendRoot, Sent, MayPublish
<1>2. CASE AnswerSeal
  <2> PICK l \in asked : Sent(KindOf[l], asked)
    BY <1>2 DEF AnswerSeal
  <2>1. KindOf[l] \in Kind /\ asked \in SUBSET Leaf /\ OnePerSlot(asked)
    BY EntriesAssumption DEF SealedTypeOK
  <2> QED
    BY <1>2, <2>1 DEF AnswerSeal, Sent, MayPublish
<1>3. CASE (Next /\ UNCHANGED sealing) \/ UNCHANGED event
  BY <1>3 DEF event, sealing, onchain
<1>4. CASE \/ BeginSealing \/ BeginReveal \/ Rank \/ GiveUp \/ Abandon \/ Project
           \/ \E k \in Kind : RebuildTree(k) \/ AskToSeal(k)
  BY <1>4 DEF BeginSealing, BeginReveal, Rank, GiveUp, Abandon, Project,
     RebuildTree, AskToSeal, onchain
<1>5. CASE \/ \E l \in Leaf : RevealNext(l) \/ RevealByAnyone(l) \/ Take(l)
           \/ \E s \in Slot : Recuse(s)
  BY <1>5 DEF RevealNext, RevealByAnyone, Take, Recuse, onchain
<1> QED
  BY <1>1, <1>2, <1>3, <1>4, <1>5 DEF SealedNext, SealerStep

(* Judges step away only in Judging. *)
LEMMA WhoRecuses ==
    ASSUME [SealedNext]_event
    PROVE  recused' = recused \/ (phase = "Judging" /\ UNCHANGED <<lifecycle, recorded>>)
<1>1. CASE \E s \in Slot : Recuse(s)
  BY <1>1 DEF Recuse
<1>2. CASE (Next /\ UNCHANGED sealing) \/ UNCHANGED event
  BY <1>2 DEF event, sealing, onchain
<1>3. CASE \/ BeginSealing \/ BeginReveal \/ Rank \/ GiveUp \/ Abandon \/ Project
           \/ AnswerSeal \/ \E k \in Kind : SendRoot(k) \/ RebuildTree(k) \/ AskToSeal(k)
  BY <1>3 DEF BeginSealing, BeginReveal, Rank, GiveUp, Abandon, Project, AnswerSeal,
     SendRoot, RebuildTree, AskToSeal, onchain
<1>4. CASE \E l \in Leaf : RevealNext(l) \/ RevealByAnyone(l) \/ Take(l)
  BY <1>4 DEF RevealNext, RevealByAnyone, Take, onchain
<1> QED
  BY <1>1, <1>2, <1>3, <1>4 DEF SealedNext, SealerStep

(* The invariant is inductive, given that the lifecycle keeps its own type. *)
LEMMA StepSealedInv ==
    ASSUME SealedInv, TypeOK', [SealedNext]_event
    PROVE  SealedInv'
<1>1. SealedTypeOK'
  BY StepSealedType DEF SealedInv
<1>2. CountedLate'
  <2>1. Stage' = "collecting" => Stage = "collecting"
    BY SealedStepOfTheLifecycle, StageMoves DEF SealedInv, Stage
  <2>2. CASE recorded' = recorded
    BY <2>1, <2>2 DEF SealedInv, CountedLate
  <2>3. CASE recorded' # recorded
    BY <2>1, <2>3, WhoCounts DEF Stage, CountedLate
  <2> QED
    BY <2>2, <2>3
<1>3. RecusedDoNotCount'
  <2>1. CASE recused' # recused
    \* Then nothing was counted yet.
    BY <2>1, WhoRecuses DEF SealedInv, CountedLate, Stage, RecusedDoNotCount
  <2>2. CASE recused' = recused
    BY <2>2, WhoCounts DEF SealedInv, Countable, RecusedDoNotCount
  <2> QED
    BY <2>1, <2>2
<1> QED
  BY <1>1, <1>2, <1>3 DEF SealedInv

(* Every reachable state of sealed judging satisfies the invariant. *)
THEOREM SealedInvariance == SealedSpec => []SealedInv
<1>1. SealedInit => SealedInv
  BY InitSealedInv
<1>2. SealedInv /\ TypeOK' /\ [SealedNext]_event => SealedInv'
  BY StepSealedInv
<1> QED
  BY <1>1, <1>2, JudgingRunsTheLifecycle, TypeCorrect, PTL DEF SealedSpec

(* The sealer's table, the roots and the counted entries keep their type,   *)
(* with one entry per slot in everything that was read, sealed or kept.     *)
THEOREM SealedTypeCorrect == SealedSpec => []SealedTypeOK
<1>1. SealedInv => SealedTypeOK
  BY DEF SealedInv
<1> QED
  BY <1>1, SealedInvariance, PTL

(* reveal_score never counts the card of a judge who called recuse.         *)
THEOREM RecusalsHold == SealedSpec => []RecusedDoNotCount
<1>1. SealedInv => RecusedDoNotCount
  BY DEF SealedInv
<1> QED
  BY <1>1, SealedInvariance, PTL

-----------------------------------------------------------------------------
(***************************************************************************)
(* Commit and reveal.  For either kind of entry, a step of SealedReveal    *)
(* seals that kind's set, opens or closes its round, shows one of its      *)
(* entries, or does nothing to it.                                         *)
(***************************************************************************)

LEMMA RoundStep ==
    ASSUME SealedInv, [SealedNext]_event, NEW k \in Kind
    PROVE  LET shown == OfKind(recorded, k) IN
           \/ Stage' = Stage /\ root'[k] = root[k] /\ shown' = shown
           \/ /\ Stage = "collecting" /\ Stage' = "collecting"
              /\ root[k] = {}
              /\ root'[k] \in (SUBSET Leaf) \ {{}} /\ OnePerSlot(root'[k])
              /\ shown' = shown
           \/ /\ \/ Stage = "collecting" /\ Stage' = "opening"
                 \/ Stage # "closed" /\ Stage' = "closed"
              /\ root'[k] = root[k] /\ shown' = shown
           \/ \E l \in Leaf :
                 /\ Stage = "opening" /\ Stage' = "opening"
                 /\ root'[k] = root[k]
                 /\ l \in root[k]
                 /\ \A m \in shown : SlotOf[m] # SlotOf[l]
                 /\ shown' = shown \cup {l}
<1> DEFINE shown == OfKind(recorded, k)
<1>1. CASE root' # root
  <2> PICK i \in Kind, leaves \in SUBSET Leaf :
             /\ phase = "Judging"
             /\ root[i] = {}
             /\ leaves # {} /\ OnePerSlot(leaves)
             /\ root' = [root EXCEPT ![i] = leaves]
             /\ UNCHANGED <<lifecycle, recorded, recused>>
    BY <1>1, WhoSeals DEF SealedInv
  <2>1. Stage = "collecting" /\ Stage' = "collecting" /\ shown' = shown
    BY DEF Stage, lifecycle, OfKind
  <2>2. root \in [Kind -> SUBSET Leaf]
    BY DEF SealedInv, SealedTypeOK
  <2>3. root'[k] = IF i = k THEN leaves ELSE root[k]
    BY <2>2
  <2> QED
    BY <2>1, <2>3
<1>2. CASE recorded' # recorded
  <2> PICK l \in Leaf :
             /\ phase = "Reveal"
             /\ l \in root[KindOf[l]]
             /\ Countable(l)
             /\ recorded' = recorded \cup {l}
             /\ UNCHANGED <<lifecycle, root, recused>>
    BY <1>2, WhoCounts
  <2>1. Stage = "opening" /\ Stage' = "opening" /\ root' = root
    BY DEF Stage, lifecycle
  <2>2. CASE KindOf[l] = k
    <3>1. shown' = shown \cup {l}
      BY <2>2 DEF OfKind
    <3>2. \A m \in shown : SlotOf[m] # SlotOf[l]
      BY DEF Countable, OfKind
    <3> QED
      BY <2>1, <2>2, <3>1, <3>2
  <2>3. CASE KindOf[l] # k
    <3>1. shown' = shown
      BY <2>3 DEF OfKind
    <3> QED
      BY <2>1, <3>1
  <2> QED
    BY <2>2, <2>3
<1>3. CASE root' = root /\ recorded' = recorded
  <2>1. root'[k] = root[k] /\ shown' = shown
    BY <1>3 DEF OfKind
  <2> QED
    BY <2>1, SealedStepOfTheLifecycle, StageMoves DEF SealedInv
<1> QED
  BY <1>1, <1>2, <1>3

(* The sealer, the contract and everyone who calls them go, for scorecards  *)
(* and for ballots, through one round of commit and reveal: one set, sealed *)
(* once while input is collected, and only its entries counted, one a slot. *)
THEOREM SealedInputIsCommitReveal == SealedSpec => ImplementsCommitReveal
<1>1. SealedInit => Cards!RoundInit /\ Votes!RoundInit
  BY DEF SealedInit, Init, Cards!RoundInit, Votes!RoundInit, Stage, Nothing, Kind, OfKind
<1>2. SealedInv /\ [SealedNext]_event => [Cards!RoundNext]_(Cards!round)
  <2> SUFFICES ASSUME SealedInv, [SealedNext]_event
               PROVE  [Cards!RoundNext]_(Cards!round)
    OBVIOUS
  <2>1. "scorecards" \in Kind
    BY DEF Kind
  <2> QED
    BY <2>1, RoundStep DEF Cards!RoundNext, Cards!round, Cards!Seal, Cards!Open,
       Cards!Show, Cards!Close, Cards!OnePerSlot, OnePerSlot
<1>3. SealedInv /\ [SealedNext]_event => [Votes!RoundNext]_(Votes!round)
  <2> SUFFICES ASSUME SealedInv, [SealedNext]_event
               PROVE  [Votes!RoundNext]_(Votes!round)
    OBVIOUS
  <2>1. "ballots" \in Kind
    BY DEF Kind
  <2> QED
    BY <2>1, RoundStep DEF Votes!RoundNext, Votes!round, Votes!Seal, Votes!Open,
       Votes!Show, Votes!Close, Votes!OnePerSlot, OnePerSlot
<1> QED
  BY <1>1, <1>2, <1>3, SealedInvariance, PTL
  DEF SealedSpec, ImplementsCommitReveal, Cards!RoundSpec, Votes!RoundSpec

-----------------------------------------------------------------------------
(***************************************************************************)
(* The ranking has every entry.  The loop reads the table once for the     *)
(* entries and again for each tree, while rows are written over; what      *)
(* carries the argument is that a row is never removed, so whoever is      *)
(* under the root had a row when the lap began, and that in a clean lap    *)
(* the tree an entry was found in is the root.                             *)
(***************************************************************************)

(* Whoever was read or sealed still has a row. *)
HasRow(l) == \E m \in held : SlotOf[m] = SlotOf[l]

RowsStay ==
    /\ \A l \in asked : HasRow(l)
    /\ \A k \in Kind : \A l \in root[k] \cup lap.trees[k] : HasRow(l)

CountedUnderRoot == \A l \in recorded : l \in root[KindOf[l]]

RevealsLate == lap.doing = "revealing" => Stage # "collecting"

SettledFor(l) ==
    \/ l \in recorded
    \/ SlotOf[l] \in Ineligible \cup recused
    \/ \E m \in Unreadable : SlotOf[m] = SlotOf[l]

(* In a clean lap, who is under the root is settled or still to be tried. *)
StillToCome ==
    lap.doing = "revealing" /\ lap.clean /\ phase = "Reveal" =>
        \A k \in Kind : \A l \in root[k] :
            SettledFor(l) \/ \E m \in lap.todo : SlotOf[m] = SlotOf[l]

LapInv == RowsStay /\ CountedUnderRoot /\ RevealsLate /\ StillToCome

(* Rows are written over and never removed. *)
LEMMA RowsAreKept ==
    ASSUME [SealedNext]_event, NEW l, HasRow(l)
    PROVE  HasRow(l)'
<1>1. held' = held \/ \E e \in Leaf : Take(e)
  BY DEF SealedNext, SealerStep, event, sealing, sealer, BeginSealing, BeginReveal, Rank,
     GiveUp, Abandon, Project, AnswerSeal, SendRoot, RebuildTree, AskToSeal, RevealNext,
     RevealByAnyone, Recuse
<1> QED
  BY <1>1 DEF HasRow, Take

LEMMA StepRowsStay ==
    ASSUME SealedInv, RowsStay, [SealedNext]_event
    PROVE  RowsStay'
<1>1. \A l \in asked' : HasRow(l)
  <2>1. asked' \subseteq asked \/ \E k \in Kind : AskToSeal(k)
    BY DEF SealedNext, SealerStep, event, sealing, sealer, BeginSealing, BeginReveal, Rank,
       GiveUp, Abandon, Project, AnswerSeal, SendRoot, RebuildTree, Take, RevealNext,
       RevealByAnyone, Recuse
  <2> QED
    BY <2>1 DEF AskToSeal, OfKind, RowsStay, HasRow
<1>2. ASSUME NEW k \in Kind, NEW l \in lap'.trees[k]
      PROVE  HasRow(l)
  <2>1. lap \in Laps /\ lap.trees \in [Kind -> SUBSET Leaf]
    BY DEF SealedInv, SealedTypeOK, Laps
  <2>2. Idle.trees[k] = {}
    BY DEF Idle, Nothing
  <2>3. CASE lap' = lap \/ lap' = Idle
    BY <2>2, <2>3, <1>2 DEF RowsStay
  <2>4. CASE BeginSealing
    <3>1. lap'.trees = [i \in Kind |-> OfKind(held, i)]
      BY <2>4 DEF BeginSealing, Publishing, Idle
    <3> QED
      BY <3>1, <1>2 DEF OfKind, HasRow
  <2>5. CASE \E i \in Kind : SendRoot(i)
    <3> PICK i \in Kind : SendRoot(i)
      BY <2>5
    <3>1. lap'.trees = [lap.trees EXCEPT ![i] = {}]
      BY DEF SendRoot, Publishing, Idle
    <3> QED
      BY <3>1, <2>1, <1>2 DEF RowsStay
  <2>6. CASE BeginReveal
    BY <2>6, <1>2 DEF BeginReveal, Nothing
  <2>7. CASE \E i \in Kind : RebuildTree(i)
    <3> PICK i \in Kind : RebuildTree(i)
      BY <2>7
    <3>1. lap' = [lap EXCEPT !.trees = [lap.trees EXCEPT ![i] = OfKind(held, i)]]
      BY DEF RebuildTree
    <3>2. lap'.trees = [lap.trees EXCEPT ![i] = OfKind(held, i)]
      BY <2>1, <3>1 DEF Laps
    <3> QED
      BY <3>2, <2>1, <1>2 DEF RowsStay, OfKind, HasRow
  <2>8. CASE \E e \in Leaf : RevealNext(e)
    <3>1. lap'.trees = lap.trees
      BY <2>1, <2>8 DEF RevealNext, Laps
    <3> QED
      BY <3>1, <1>2 DEF RowsStay
  <2>9. \/ lap' = lap \/ lap' = Idle \/ BeginSealing \/ BeginReveal
        \/ \E i \in Kind : SendRoot(i) \/ RebuildTree(i)
        \/ \E e \in Leaf : RevealNext(e)
    BY DEF SealedNext, SealerStep, event, sealing, sealer, Rank, GiveUp, Abandon, Project,
       AnswerSeal, AskToSeal, Take, RevealByAnyone, Recuse
  <2> QED
    BY <2>3, <2>4, <2>5, <2>6, <2>7, <2>8, <2>9
<1>3. ASSUME NEW k \in Kind, NEW l \in root'[k]
      PROVE  HasRow(l)
  <2>1. CASE \E i \in Kind : SendRoot(i)
    <3> PICK i \in Kind : SendRoot(i)
      BY <2>1
    <3>1. root'[k] = root[k] \/ root'[k] = lap.trees[i]
      BY DEF SendRoot, Sent, SealedInv, SealedTypeOK
    <3> QED
      BY <3>1, <1>3 DEF RowsStay
  <2>2. CASE AnswerSeal
    <3>1. root'[k] = root[k] \/ root'[k] = asked
      BY <2>2 DEF AnswerSeal, Sent, SealedInv, SealedTypeOK
    <3> QED
      BY <3>1, <1>3 DEF RowsStay
  <2>3. CASE root' = root
    BY <2>3, <1>3 DEF RowsStay
  <2>4. root' = root \/ AnswerSeal \/ \E i \in Kind : SendRoot(i)
    BY DEF SealedNext, SealerStep, event, sealing, onchain, BeginSealing, BeginReveal, Rank,
       GiveUp, Abandon, Project, RebuildTree, AskToSeal, Take, RevealNext,
       RevealByAnyone, Recuse
  <2> QED
    BY <2>1, <2>2, <2>3, <2>4
<1> QED
  BY <1>1, <1>2, <1>3, RowsAreKept DEF RowsStay

LEMMA StepCountedUnderRoot ==
    ASSUME SealedInv, CountedUnderRoot, [SealedNext]_event
    PROVE  CountedUnderRoot'
<1>1. CASE root' # root
  BY <1>1, WhoSeals DEF SealedInv, CountedLate, Stage, CountedUnderRoot
<1>2. CASE root' = root
  BY <1>2, WhoCounts DEF CountedUnderRoot
<1> QED
  BY <1>1, <1>2

(* What a step makes of a lap that reveals. *)
LEMMA WhatALapDoes ==
    ASSUME SealedTypeOK, [SealedNext]_event
    PROVE  \/ lap' = lap
           \/ lap'.doing # "revealing"
           \/ BeginReveal
           \/ /\ lap'.doing = lap.doing /\ lap'.todo = lap.todo /\ lap'.clean = lap.clean
              /\ UNCHANGED <<lifecycle, onchain>>
           \/ \E m \in Leaf : RevealNext(m)
<1>1. lap \in Laps
  BY DEF SealedTypeOK
<1>2. CASE BeginSealing \/ \E k \in Kind : SendRoot(k)
  BY <1>2 DEF BeginSealing, SendRoot, Publishing, Idle
<1>3. CASE Rank \/ GiveUp \/ Abandon
  <2>1. Idle.doing # "revealing"
    BY DEF Idle
  <2>2. lap' = Idle
    BY <1>3 DEF Rank, GiveUp, Abandon
  <2> QED
    BY <2>1, <2>2
<1>4. CASE \E k \in Kind : RebuildTree(k)
  BY <1>1, <1>4 DEF RebuildTree, Laps
<1>5. \/ lap' = lap \/ BeginSealing \/ BeginReveal \/ Rank \/ GiveUp \/ Abandon
      \/ \E k \in Kind : SendRoot(k) \/ RebuildTree(k)
      \/ \E m \in Leaf : RevealNext(m)
  BY DEF SealedNext, SealerStep, event, sealing, sealer, Project, AnswerSeal, AskToSeal,
     Take, RevealByAnyone, Recuse
<1> QED
  BY <1>2, <1>3, <1>4, <1>5

LEMMA StepRevealsLate ==
    ASSUME SealedInv, RevealsLate, [SealedNext]_event
    PROVE  RevealsLate'
<1>1. Stage # "collecting" => Stage' # "collecting"
  BY SealedStepOfTheLifecycle, StageMoves DEF SealedInv, Stage
<1>2. lap'.doing = "revealing" => lap.doing = "revealing" \/ BeginReveal
  BY WhatALapDoes DEF SealedInv, RevealNext
<1> QED
  BY <1>1, <1>2 DEF RevealsLate, BeginReveal, Stage

(* What is settled stays settled. *)
LEMMA StaysSettled ==
    ASSUME [SealedNext]_event, NEW l, SettledFor(l)
    PROVE  SettledFor(l)'
<1>1. recorded \subseteq recorded'
  BY WhoCounts
<1>2. recused \subseteq recused'
  BY DEF SealedNext, SealerStep, event, sealing, onchain, BeginSealing, BeginReveal, Rank,
     GiveUp, Abandon, Project, AnswerSeal, SendRoot, RebuildTree, AskToSeal, Take,
     RevealNext, RevealByAnyone, Recuse
<1> QED
  BY <1>1, <1>2 DEF SettledFor

(* An entry tried without a report settles everyone under its slot. *)
LEMMA TriedIsSettled ==
    ASSUME SealedTypeOK, CountedUnderRoot, phase = "Reveal",
           NEW m \in Leaf, RevealNext(m), lap'.clean,
           NEW k \in Kind, NEW l \in root[k], SlotOf[m] = SlotOf[l]
    PROVE  SettledFor(l)'
<1> DEFINE tree == lap.trees[KindOf[m]]
<1>1. m \in tree /\ ~ Objects(m, tree)
  BY DEF RevealNext, SealedTypeOK, Laps
<1>2. l \in Leaf /\ KindOf[l] = k
  BY DEF SealedTypeOK, OfKind
<1>3. KindOf[m] = k
  BY <1>2, EntriesAssumption
<1>4. tree = root[k] /\ ~ (Countable(m) /\ m \in Invalid)
  BY <1>1, <1>3 DEF Objects
<1>5. m = l
  BY <1>1, <1>4 DEF SealedTypeOK, OnePerSlot
<1> HIDE DEF tree
<1>6. CASE Countable(l)
  <2>1. Accepts(m, tree)
    BY <1>3, <1>4, <1>5, <1>6 DEF Accepts
  <2>2. recorded' = recorded \cup {m}
    BY <1>1, <2>1 DEF RevealNext, tree
  <2> QED
    BY <2>2, <1>5 DEF SettledFor
<1>7. CASE SlotOf[l] \in Ineligible \cup recused
  BY <1>7 DEF SettledFor, RevealNext
<1>8. CASE \E x \in recorded : SlotOf[x] = SlotOf[l]
  <2> PICK x \in recorded : SlotOf[x] = SlotOf[l]
    BY <1>8
  <2>1. x \in Leaf /\ KindOf[x] = k
    BY <1>2, EntriesAssumption DEF SealedTypeOK
  <2>2. x = l
    BY <2>1 DEF CountedUnderRoot, SealedTypeOK, OnePerSlot
  <2>3. recorded \subseteq recorded'
    BY DEF RevealNext
  <2> QED
    BY <2>2, <2>3 DEF SettledFor
<1> QED
  BY <1>6, <1>7, <1>8 DEF Countable

LEMMA StepStillToCome ==
    ASSUME SealedInv, LapInv, [SealedNext]_event
    PROVE  StillToCome'
<1> SUFFICES ASSUME lap'.doing = "revealing", lap'.clean, phase' = "Reveal",
                    NEW k \in Kind, NEW l \in root'[k]
             PROVE  SettledFor(l)' \/ \E m \in lap'.todo : SlotOf[m] = SlotOf[l]
  BY DEF StillToCome
<1>1. root' = root
  BY WhoSeals DEF SealedInv, lifecycle
<1>2. CASE lap' = lap \/ (/\ lap'.doing = lap.doing /\ lap'.todo = lap.todo
                          /\ lap'.clean = lap.clean)
  <2>1. phase = "Reveal"
    BY <1>2, SealedStepOfTheLifecycle, StageMoves DEF SealedInv, LapInv, RevealsLate, Stage
  <2>2. SettledFor(l) \/ \E m \in lap.todo : SlotOf[m] = SlotOf[l]
    BY <1>1, <1>2, <2>1 DEF LapInv, StillToCome
  <2> QED
    BY <1>2, <2>2, StaysSettled
<1>3. CASE BeginReveal
  <2>1. PICK m \in held : SlotOf[m] = SlotOf[l]
    BY <1>1 DEF LapInv, RowsStay, HasRow
  <2>2. CASE m \in Unreadable
    BY <2>1, <2>2 DEF SettledFor
  <2>3. CASE m \notin Unreadable
    BY <1>3, <2>1, <2>3 DEF BeginReveal
  <2> QED
    BY <2>2, <2>3
<1>4. CASE \E m \in Leaf : RevealNext(m)
  <2> PICK m \in Leaf : RevealNext(m)
    BY <1>4
  <2>1. lap \in Laps
    BY DEF SealedInv, SealedTypeOK
  <2>2. phase = "Reveal" /\ lap.doing = "revealing" /\ lap.clean
    BY <2>1 DEF RevealNext, lifecycle, Laps
  <2>3. lap'.todo = lap.todo \ {m}
    BY <2>1 DEF RevealNext, Laps
  <2>4. SettledFor(l) \/ \E x \in lap.todo : SlotOf[x] = SlotOf[l]
    BY <1>1, <2>2 DEF LapInv, StillToCome
  <2>5. CASE SlotOf[m] = SlotOf[l]
    BY <1>1, <2>2, <2>5, TriedIsSettled DEF SealedInv, LapInv
  <2> QED
    BY <2>3, <2>4, <2>5, StaysSettled
<1> QED
  BY <1>2, <1>3, <1>4, WhatALapDoes DEF SealedInv

(* Every reachable state of the sealer's loop satisfies its invariant. *)
THEOREM LapInvariance == SealedSpec => []LapInv
<1>1. SealedInit => LapInv
  BY DEF SealedInit, Idle, Nothing, LapInv, RowsStay, CountedUnderRoot, RevealsLate,
     StillToCome
<1>2. SealedInv /\ LapInv /\ [SealedNext]_event => LapInv'
  <2> SUFFICES ASSUME SealedInv, LapInv, [SealedNext]_event
               PROVE  LapInv'
    OBVIOUS
  <2>1. RowsStay' /\ CountedUnderRoot' /\ RevealsLate'
    BY StepRowsStay, StepCountedUnderRoot, StepRevealsLate DEF LapInv
  <2>2. StillToCome'
    BY StepStillToCome
  <2> QED
    BY <2>1, <2>2 DEF LapInv
<1> QED
  BY <1>1, <1>2, SealedInvariance, PTL DEF SealedSpec

(* The sealer asks for the ranking only when every entry under a root is on *)
(* chain, is one the contract does not count, or shares its slot with an    *)
(* envelope that does not open.                                             *)
THEOREM RankingHasEveryEntry == SealedSpec => RankedWithEveryEntry
<1>1. LapInv => (Rank => \A k \in Kind : \A l \in root[k] : SettledFor(l))
  BY DEF LapInv, StillToCome, Rank, FinalizeResults
<1>2. LapInv /\ [SealedNext]_event =>
        [Rank => \A k \in Kind : \A l \in root[k] :
            \/ l \in recorded
            \/ SlotOf[l] \in Ineligible \cup recused
            \/ \E m \in Unreadable : SlotOf[m] = SlotOf[l]]_event
  BY <1>1 DEF SettledFor
<1> QED
  BY <1>2, LapInvariance, PTL DEF SealedSpec, RankedWithEveryEntry

(* The contract counts, of scorecards and of ballots, only entries that     *)
(* were committed to, and no two from one judge on one team or one voter.   *)
THEOREM OnlyTheSealedCount ==
    SealedSpec => [](Cards!OnlyTheSealedCount /\ Votes!OnlyTheSealedCount)
<1>1. SealedInv /\ CountedUnderRoot => Cards!OnlyTheSealedCount /\ Votes!OnlyTheSealedCount
  <2> SUFFICES ASSUME SealedInv, CountedUnderRoot
               PROVE  Cards!OnlyTheSealedCount /\ Votes!OnlyTheSealedCount
    OBVIOUS
  <2>1. ASSUME NEW k \in Kind
        PROVE  OfKind(recorded, k) \subseteq root[k] /\ OnePerSlot(root[k])
    BY DEF CountedUnderRoot, OfKind, SealedInv, SealedTypeOK
  <2> QED
    BY <2>1 DEF Kind, Cards!OnlyTheSealedCount, Votes!OnlyTheSealedCount,
       Cards!OnePerSlot, Votes!OnePerSlot, OnePerSlot
<1>2. LapInv => CountedUnderRoot
  BY DEF LapInv
<1> QED
  BY <1>1, <1>2, SealedInvariance, LapInvariance, PTL

=============================================================================
