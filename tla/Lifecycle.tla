----------------------------- MODULE Lifecycle -----------------------------
(***************************************************************************)
(* The life of one hackathon: its phase, the deadlines in force, the hold  *)
(* on settlement and the move to call it off                               *)
(* (contracts/hackathon-core: phase.rs, state.rs, and the entry points of  *)
(* contract.rs that change them).                                          *)
(*                                                                         *)
(* Ledger time is `now`; every entry point runs at one ledger timestamp.   *)
(* Four entry points also ask about state kept elsewhere: the vault's      *)
(* balance (publish), the disqualification cases (finalize_results) and    *)
(* the positions and the fee still to settle (complete).  They take the    *)
(* answer as a parameter.  Here both answers are tried; the modules that   *)
(* extend this one supply the real one.                                    *)
(***************************************************************************)
EXTENDS Schedule, FiniteSets

CONSTANTS
    Schedules,        \* the schedules the organizer may announce
    Judge,            \* the bench named by the constitution
    CancelThreshold,  \* DiscretionPolicy.cancellation_threshold
    Hold,             \* SettlementMode::hold_seconds
    MovesPerCall,     \* bound: the deadlines one extend_schedule moves
    MaxNow            \* bound: the last ledger timestamp considered

\* Constitution::validate, as far as the lifecycle depends on it; create and
\* configure ask it before they store the rules.
ValidRules ==
    /\ Schedules \subseteq {s \in SchedulesIn(Nat) : Workable(s)}
    /\ IsFiniteSet(Judge)
    /\ CancelThreshold \in 1..Cardinality(Judge)
    /\ Hold \in Nat

ASSUME RulesAssumption == ValidRules /\ MovesPerCall \in Nat /\ MaxNow \in Nat

VARIABLES
    now,                   \* the ledger's timestamp
    phase,                 \* HackathonState.phase
    announced,             \* Constitution.schedule, hashed once locked
    schedule,              \* HackathonState.schedule, the deadlines in force
    used,                  \* DataKey::ExtensionUsage, per deadline
    settlement_paused,     \* HackathonState.settlement_paused
    finalized_at,          \* HackathonState.finalized_at
    settlement_opened_at,  \* HackathonState.settlement_opened_at
    vault_bound,           \* whether DataKey::Vault is set
    cancellation           \* the CancellationCase and who signed it

calendar == <<announced, schedule, used>>
payout   == <<settlement_paused, finalized_at, settlement_opened_at>>
lifecycle == <<now, phase, calendar, payout, vault_bound, cancellation>>

-----------------------------------------------------------------------------

\* Phase::next; the last phase and Cancelled have none.
Successor == [Draft        |-> "Funding",
              Funding      |-> "Open",
              Open         |-> "Screening",
              Screening    |-> "Judging",
              Judging      |-> "Reveal",
              Reveal       |-> "Finalization",
              Finalization |-> "Settlement",
              Settlement   |-> "Completed"]

Phase == DOMAIN Successor \cup {"Completed", "Cancelled"}

Terminal == {"Completed", "Cancelled"}

\* Phase::closing_deadline, for the three phases that end on the clock.
ClosingDeadline == [Open      |-> "submission_closes_at",
                    Screening |-> "screening_closes_at",
                    Judging   |-> "judging_closes_at"]

\* require_cancellation_phase: from publication until the ranking closes.
Running == {"Open", "Screening", "Judging", "Reveal"}

NoCase == [open |-> FALSE, approvals |-> 0, signed |-> {}]

TypeOK ==
    /\ now \in 0..MaxNow
    /\ phase \in Phase
    /\ announced \in Schedules
    /\ schedule \in SchedulesIn(Nat)
    /\ used \in [Deadline -> Usage]
    /\ settlement_paused \in BOOLEAN
    /\ finalized_at \in Nat
    /\ settlement_opened_at \in Nat
    /\ vault_bound \in BOOLEAN
    /\ cancellation \in [open : BOOLEAN, approvals : Nat, signed : SUBSET Judge]

\* HackathonCore::create, HackathonState::draft
Init ==
    /\ now = 0
    /\ phase = "Draft"
    /\ announced \in Schedules
    /\ schedule = announced
    /\ used = Unused
    /\ settlement_paused = FALSE
    /\ finalized_at = 0
    /\ settlement_opened_at = 0
    /\ vault_bound = FALSE
    /\ cancellation = NoCase

-----------------------------------------------------------------------------

\* The calls considered, each as what it gains every deadline.
Calls == {g \in [Deadline -> Shift] :
            Cardinality({d \in Deadline : g[d] # Still}) \in 1..MovesPerCall}

(* Ledgers close and time passes. *)
Tick ==
    /\ now < MaxNow
    /\ now' = now + 1
    /\ UNCHANGED <<phase, calendar, payout, vault_bound, cancellation>>

(* HackathonState::advance: one legal successor, and never before the       *)
(* deadline that closes the phase.                                          *)
Advance ==
    /\ phase \in DOMAIN Successor
    /\ phase \in DOMAIN ClosingDeadline => now >= schedule[ClosingDeadline[phase]]
    /\ phase' = Successor[phase]

\* Mutant of Configure: the new schedule is stored without being validated.
ConfigureUnchecked ==
    /\ phase = "Draft"
    /\ announced' = [announced EXCEPT !["registration_opens_at"] = 0]
    /\ schedule' = announced'
    /\ UNCHANGED <<now, phase, used, payout, vault_bound, cancellation>>

\* Mutant of Configure: the state keeps the schedule of the replaced rules.
ConfigureStale ==
    /\ phase = "Draft"
    /\ announced' \in Schedules
    /\ UNCHANGED <<now, phase, schedule, used, payout, vault_bound, cancellation>>

(* configure replaces the rules of a draft, its schedule with them. *)
Configure ==
    /\ phase = "Draft"
    /\ announced' \in Schedules
    /\ schedule' = announced'
    /\ UNCHANGED <<now, phase, used, payout, vault_bound, cancellation>>

(* lock_rules, through freeze *)
LockRules ==
    /\ phase = "Draft"
    /\ Advance
    /\ UNCHANGED <<now, calendar, payout, vault_bound, cancellation>>

(* bind_vault, given a vault that names this hackathon and its asset *)
BindVault ==
    /\ ~ vault_bound
    /\ phase = "Funding"
    /\ vault_bound' = TRUE
    /\ UNCHANGED <<now, phase, calendar, payout, cancellation>>

(* publish: anyone, once the vault covers required_funding *)
Publish(funded) ==
    /\ phase = "Funding"
    /\ vault_bound
    /\ funded
    /\ Advance
    /\ UNCHANGED <<now, calendar, payout, vault_bound, cancellation>>

(* set_up does what is left of freezing, binding, funding and publishing in *)
(* one invocation; a phase past Funding makes its publish refuse the whole. *)
SetUp ==
    /\ phase \in {"Draft", "Funding"}
    /\ phase' = "Open"
    /\ vault_bound' = TRUE
    /\ UNCHANGED <<now, calendar, payout, cancellation>>

\* Mutant of AdvancePhase: screening is not among the phases the clock ends.
AdvancePhaseFromOpen ==
    /\ phase \in {"Open", "Judging"}
    /\ Advance
    /\ UNCHANGED <<now, calendar, payout, vault_bound, cancellation>>

(* advance_phase: anyone, in the three phases that end on the clock *)
AdvancePhase ==
    /\ phase \in DOMAIN ClosingDeadline
    /\ Advance
    /\ UNCHANGED <<now, calendar, payout, vault_bound, cancellation>>

(* move_deadlines: every move of the call is allowed and the schedule they  *)
(* end in is workable, or none of them happens.  extend_deadline is the     *)
(* call with a single move, extend_schedule the call with several.          *)
MoveDeadlines(gains) ==
    /\ phase \notin {"Draft"} \cup Terminal
    /\ Allowed(schedule, used, gains, now)
    /\ Workable(Moved(schedule, gains))
    /\ schedule' = Moved(schedule, gains)
    /\ used' = Spent(used, gains)
    /\ UNCHANGED <<now, phase, announced, payout, vault_bound, cancellation>>

(* finalize_results, as far as the lifecycle goes: no open disqualification *)
(* case, and the moment is recorded                                         *)
FinalizeResults(undecided) ==
    /\ phase = "Reveal"
    /\ ~ undecided
    /\ Advance
    /\ finalized_at' = now
    /\ UNCHANGED <<now, calendar, settlement_paused, settlement_opened_at,
                   vault_bound, cancellation>>

\* Mutant of OpenSettlement: the safety window is not asked for.
OpenSettlementAtOnce ==
    /\ phase = "Finalization"
    /\ Advance
    /\ settlement_opened_at' = now
    /\ UNCHANGED <<now, calendar, settlement_paused, finalized_at,
                   vault_bound, cancellation>>

(* open_settlement: anyone, once the safety window has run out *)
OpenSettlement ==
    /\ phase = "Finalization"
    /\ now >= finalized_at + Hold
    /\ Advance
    /\ settlement_opened_at' = now
    /\ UNCHANGED <<now, calendar, settlement_paused, finalized_at,
                   vault_bound, cancellation>>

PauseSettlement ==
    /\ phase \in {"Finalization", "Settlement"}
    /\ ~ settlement_paused
    /\ settlement_paused' = TRUE
    /\ UNCHANGED <<now, phase, calendar, finalized_at, settlement_opened_at,
                   vault_bound, cancellation>>

(* resume_settlement asks only that a hold is on, in any phase. *)
ResumeSettlement ==
    /\ settlement_paused
    /\ settlement_paused' = FALSE
    /\ UNCHANGED <<now, phase, calendar, finalized_at, settlement_opened_at,
                   vault_bound, cancellation>>

(* complete: every payable position and the platform's fee are settled *)
Complete(settled) ==
    /\ phase = "Settlement"
    /\ settled
    /\ Advance
    /\ UNCHANGED <<now, calendar, payout, vault_bound, cancellation>>

-----------------------------------------------------------------------------

(* cancel: the organizer alone, before submissions open *)
Cancel ==
    /\ phase \in {"Draft", "Funding"}
    /\ phase' = "Cancelled"
    /\ UNCHANGED <<now, calendar, payout, vault_bound, cancellation>>

OpenCancellation ==
    /\ phase \in Running
    /\ ~ cancellation.open
    /\ cancellation' = [open |-> TRUE, approvals |-> 0, signed |-> {}]
    /\ UNCHANGED <<now, phase, calendar, payout, vault_bound>>

\* Mutant of ApproveCancellation: a judge may sign again.
ApproveCancellationAgain(j) ==
    /\ cancellation.open
    /\ cancellation.approvals < CancelThreshold
    /\ cancellation' = [open      |-> TRUE,
                        approvals |-> cancellation.approvals + 1,
                        signed    |-> cancellation.signed \cup {j}]
    /\ UNCHANGED <<now, phase, calendar, payout, vault_bound>>

(* approve_cancellation: any judge of the bench, once; no phase is asked for *)
ApproveCancellation(j) ==
    /\ cancellation.open
    /\ j \notin cancellation.signed
    /\ cancellation' = [open      |-> TRUE,
                        approvals |-> cancellation.approvals + 1,
                        signed    |-> cancellation.signed \cup {j}]
    /\ UNCHANGED <<now, phase, calendar, payout, vault_bound>>

(* resolve_cancellation: anyone, once enough judges have signed *)
ResolveCancellation ==
    /\ phase \in Running
    /\ cancellation.open
    /\ cancellation.approvals >= CancelThreshold
    /\ phase' = "Cancelled"
    /\ UNCHANGED <<now, calendar, payout, vault_bound, cancellation>>

-----------------------------------------------------------------------------

Next ==
    \/ Tick
    \/ Configure \/ LockRules \/ BindVault \/ SetUp
    \/ \E funded \in BOOLEAN : Publish(funded)
    \/ AdvancePhase
    \/ \E gains \in Calls : MoveDeadlines(gains)
    \/ \E undecided \in BOOLEAN : FinalizeResults(undecided)
    \/ OpenSettlement \/ PauseSettlement \/ ResumeSettlement
    \/ \E settled \in BOOLEAN : Complete(settled)
    \/ Cancel \/ OpenCancellation \/ ResolveCancellation
    \/ \E j \in Judge : ApproveCancellation(j)

Spec == Init /\ [][Next]_lifecycle

(***************************************************************************)
(* Time passes, and advance_phase needs no signature: the clock service    *)
(* (backend/clock) calls it whenever a simulation says it would go         *)
(* through.  It leaves Judging only when the sealer has published what it  *)
(* holds (sealsMissing), which this module knows nothing of, so nothing is *)
(* assumed of the end of Judging here.                                     *)
(***************************************************************************)
Fairness == WF_lifecycle(Tick) /\ WF_lifecycle(phase # "Judging" /\ AdvancePhase)

FairSpec == Spec /\ Fairness

-----------------------------------------------------------------------------
(***************************************************************************)
(* What the lifecycle promises.                                            *)
(***************************************************************************)

AfterJudging   == {"Reveal", "Finalization", "Settlement", "Completed"}
AfterScreening == {"Judging"} \cup AfterJudging
AfterOpen      == {"Screening"} \cup AfterScreening

(* A phase that closed a window stays behind that window's deadline as it   *)
(* is in force NOW, with every extension made since: no order of            *)
(* advance_phase and extend_schedule leaves a hackathon in judging while    *)
(* its submission deadline lies ahead again.                                *)
WindowsRanOut ==
    /\ phase \in AfterOpen      => now >= schedule["submission_closes_at"]
    /\ phase \in AfterScreening => now >= schedule["screening_closes_at"]
    /\ phase \in AfterJudging   => now >= schedule["judging_closes_at"]

(* The gap between the announced schedule and the one in force is exactly   *)
(* the recorded extensions, and those fit the announced allowance: the same *)
(* deadline moved twice in one extend_schedule pays for both moves.         *)
ExtensionsAccountedFor ==
    \A d \in Deadline :
        /\ schedule[d] = announced[d] + used[d].seconds
        /\ used[d].seconds <= MaxSeconds
        /\ used[d].times <= MaxExtensions
        /\ (used[d].times = 0) <=> (used[d].seconds = 0)

(* Prize money becomes payable only a full safety window after the ranking  *)
(* closed, and the ranking only after the judging deadline in force.        *)
HoldHonoured ==
    /\ phase \in {"Finalization", "Settlement", "Completed"} =>
          finalized_at >= schedule["judging_closes_at"]
    /\ phase \in {"Settlement", "Completed"} =>
          settlement_opened_at >= finalized_at + Hold

(* Once the rules are locked a deadline that has passed never moves again.  *)
PassedDeadlinesStand ==
    [][\A d \in Deadline :
          phase # "Draft" /\ now >= schedule[d] => schedule'[d] = schedule[d]]_lifecycle

(* From publication on, the event is called off only over the signatures of *)
(* CancelThreshold different judges, and never once the ranking closed.     *)
CancelledByTheBench ==
    [][phase' = "Cancelled" /\ phase # "Cancelled" =>
          \/ phase \in {"Draft", "Funding"}
          \/ /\ phase \in Running
             /\ Cardinality(cancellation.signed) >= CancelThreshold]_lifecycle

(* A published event reaches judging or is called off, however its          *)
(* deadlines are extended: the allowance runs out and the clock does not.   *)
WindowsEventuallyClose ==
    phase = "Open" ~> phase \in AfterScreening \cup {"Cancelled"}

=============================================================================
