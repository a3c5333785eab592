-------------------------- MODULE Lifecycle_proofs --------------------------
(***************************************************************************)
(* Proofs about Lifecycle, for every bench, schedule, allowance and hold,  *)
(* and about the loop of move_deadlines, for every list of moves.          *)
(***************************************************************************)
EXTENDS Lifecycle, DeadlineMoves, SumTheorems

\* What the assumptions on the constants say is open to every step.
USE DEF ValidPolicy, ValidRules

(* Nothing is spent, and nothing has moved, before the rules are locked. *)
DraftIsUntouched == phase = "Draft" => used = Unused /\ schedule = announced

(* CancellationCase.approvals counts the judges that signed, each once. *)
Tally == cancellation.approvals = Cardinality(cancellation.signed)

Inv == TypeOK /\ DraftIsUntouched /\ ExtensionsAccountedFor
              /\ WindowsRanOut /\ HoldHonoured /\ Tally

-----------------------------------------------------------------------------

(* The shape of the constants every proof below starts from. *)
LEMMA ScheduleShape ==
    /\ Deadline \subseteq Moment
    /\ \A s \in Schedules : s \in SchedulesIn(Nat) /\ Workable(s)
    /\ \A s \in SchedulesIn(Nat), m \in Moment : s[m] \in Nat
BY RulesAssumption DEF Moment, SchedulesIn

(* A call moves only deadlines that have not passed, and only forward. *)
LEMMA CallShape ==
    ASSUME NEW gains \in Calls, NEW d \in Deadline
    PROVE  /\ gains[d].times \in Nat /\ gains[d].seconds \in Nat
           /\ gains[d] = [times |-> gains[d].times, seconds |-> gains[d].seconds]
           /\ gains[d].times <= gains[d].seconds
           /\ (gains[d].times = 0) => (gains[d].seconds = 0)
<1>1. gains[d] \in Shift
  BY DEF Calls
<1> QED
  BY <1>1, PolicyAssumption DEF Shift

(* What MoveDeadlines does to one deadline: it stands if it has passed, and *)
(* otherwise moves by what is recorded, within the allowance.               *)
LEMMA MoveShape ==
    ASSUME TypeOK, NEW gains \in Calls, MoveDeadlines(gains), NEW d \in Deadline
    PROVE  /\ schedule'[d] = schedule[d] + gains[d].seconds
           /\ used'[d] = [times   |-> used[d].times + gains[d].times,
                          seconds |-> used[d].seconds + gains[d].seconds]
           /\ now >= schedule[d] => schedule'[d] = schedule[d]
           /\ gains[d] # Still => /\ used'[d].times <= MaxExtensions
                                  /\ used'[d].seconds <= MaxSeconds
<1>1. d \in Moment
  BY ScheduleShape
<1>2. schedule[d] \in Nat
  BY <1>1, ScheduleShape DEF TypeOK
<1>3. /\ schedule'[d] = schedule[d] + gains[d].seconds
      /\ used'[d] = [times   |-> used[d].times + gains[d].times,
                     seconds |-> used[d].seconds + gains[d].seconds]
  BY <1>1 DEF MoveDeadlines, Moved, Spent
<1>4. gains[d] # Still => /\ now < schedule[d]
                          /\ used[d].times + gains[d].times <= MaxExtensions
                          /\ used[d].seconds + gains[d].seconds <= MaxSeconds
  BY DEF MoveDeadlines, Allowed
<1>5. now >= schedule[d] => schedule'[d] = schedule[d]
  <2> SUFFICES ASSUME now >= schedule[d] PROVE schedule'[d] = schedule[d]
    OBVIOUS
  <2>1. now \in Nat
    BY RulesAssumption DEF TypeOK
  <2>2. gains[d] = Still
    BY <1>2, <1>4, <2>1
  <2> QED
    BY <1>2, <1>3, <2>2 DEF Still
<1> QED
  BY <1>3, <1>4, <1>5

-----------------------------------------------------------------------------

(* The initial states satisfy the invariant. *)
LEMMA InitInv == Init => Inv
<1> SUFFICES ASSUME Init PROVE Inv
  OBVIOUS
<1>1. announced \in SchedulesIn(Nat) /\ schedule = announced
  BY ScheduleShape DEF Init
<1>2. TypeOK
  <2>1. NoCase \in [open : BOOLEAN, approvals : Nat, signed : SUBSET Judge]
    BY DEF NoCase
  <2>2. Unused \in [Deadline -> Usage]
    BY DEF Unused, Usage
  <2>3. 0 \in 0..MaxNow
    BY RulesAssumption
  <2> QED
    BY <1>1, <2>1, <2>2, <2>3 DEF Init, TypeOK, Phase, Successor
<1>3. DraftIsUntouched
  BY DEF Init, DraftIsUntouched
<1>4. ExtensionsAccountedFor
  <2> SUFFICES ASSUME NEW d \in Deadline
               PROVE  /\ schedule[d] = announced[d] + used[d].seconds
                      /\ used[d].seconds <= MaxSeconds
                      /\ used[d].times <= MaxExtensions
                      /\ (used[d].times = 0) <=> (used[d].seconds = 0)
    BY DEF ExtensionsAccountedFor
  <2>1. used[d].times = 0 /\ used[d].seconds = 0
    BY DEF Init, Unused
  <2>2. schedule[d] \in Nat
    BY <1>1, ScheduleShape
  <2> QED
    BY <1>1, <2>1, <2>2, PolicyAssumption
<1>5. WindowsRanOut /\ HoldHonoured
  BY DEF Init, WindowsRanOut, HoldHonoured, AfterOpen, AfterScreening, AfterJudging
<1>6. Tally
  BY FS_EmptySet DEF Init, NoCase, Tally
<1> QED
  BY <1>2, <1>3, <1>4, <1>5, <1>6 DEF Inv

(* Every step keeps the variables in their types. *)
LEMMA StepType == Inv /\ [Next]_lifecycle => TypeOK'
<1> SUFFICES ASSUME Inv, [Next]_lifecycle PROVE TypeOK'
  OBVIOUS
<1> USE DEF Inv
<1>0. now \in Nat
  BY RulesAssumption DEF TypeOK
<1>1. CASE Tick
  BY <1>1, RulesAssumption DEF Tick, TypeOK, calendar, payout
<1>2. CASE Configure
  BY <1>2, ScheduleShape DEF Configure, TypeOK, payout
<1>3. ASSUME NEW gains \in Calls, MoveDeadlines(gains) PROVE TypeOK'
  <2>1. schedule' \in SchedulesIn(Nat)
    <3>1. \A d \in Deadline : gains[d].seconds \in Nat
      BY CallShape
    <3>2. schedule' = Moved(schedule, gains)
      BY <1>3 DEF MoveDeadlines
    <3>3. schedule \in [Moment -> Nat]
      BY DEF TypeOK, SchedulesIn
    <3>4. ASSUME NEW m \in Moment
          PROVE (IF m \in Deadline THEN schedule[m] + gains[m].seconds
                                  ELSE schedule[m]) \in Nat
      BY <3>1, <3>3
    <3> QED
      BY <3>2, <3>4 DEF Moved, SchedulesIn
  <2>2. used' \in [Deadline -> Usage]
    <3>1. used' = Spent(used, gains)
      BY <1>3 DEF MoveDeadlines
    <3>2. ASSUME NEW d \in Deadline
          PROVE [times   |-> used[d].times + gains[d].times,
                 seconds |-> used[d].seconds + gains[d].seconds] \in Usage
      <4>1. gains[d].times \in Nat /\ gains[d].seconds \in Nat
        BY CallShape
      <4>2. used[d].times \in Nat /\ used[d].seconds \in Nat
        BY DEF TypeOK, Usage
      <4> QED
        BY <4>1, <4>2 DEF Usage
    <3> QED
      BY <3>1, <3>2 DEF Spent
  <2> QED
    BY <1>3, <2>1, <2>2 DEF MoveDeadlines, TypeOK, payout
<1>4. ASSUME NEW j \in Judge, ApproveCancellation(j) PROVE TypeOK'
  BY <1>4 DEF ApproveCancellation, TypeOK, calendar, payout
<1>5. CASE OpenCancellation
  BY <1>5 DEF OpenCancellation, NoCase, TypeOK, calendar, payout
<1>6. CASE LockRules
  BY <1>6 DEF LockRules, Advance, Successor, Phase, TypeOK, calendar, payout
<1>7. CASE BindVault
  BY <1>7 DEF BindVault, TypeOK, calendar, payout
<1>8. ASSUME NEW funded \in BOOLEAN, Publish(funded) PROVE TypeOK'
  BY <1>8 DEF Publish, Advance, Successor, Phase, TypeOK, calendar, payout
<1>9. CASE SetUp
  BY <1>9 DEF SetUp, Successor, Phase, TypeOK, calendar, payout
<1>10. CASE AdvancePhase
  BY <1>10 DEF AdvancePhase, Advance, Successor, Phase, TypeOK, calendar, payout
<1>11. ASSUME NEW undecided \in BOOLEAN, FinalizeResults(undecided) PROVE TypeOK'
  BY <1>0, <1>11 DEF FinalizeResults, Advance, Successor, Phase, TypeOK, calendar
<1>12. CASE OpenSettlement
  BY <1>0, <1>12 DEF OpenSettlement, Advance, Successor, Phase, TypeOK, calendar
<1>13. CASE PauseSettlement \/ ResumeSettlement
  BY <1>13 DEF PauseSettlement, ResumeSettlement, TypeOK, calendar
<1>14. ASSUME NEW settled \in BOOLEAN, Complete(settled) PROVE TypeOK'
  BY <1>14 DEF Complete, Advance, Successor, Phase, TypeOK, calendar, payout
<1>15. CASE Cancel \/ ResolveCancellation
  BY <1>15 DEF Cancel, ResolveCancellation, Phase, TypeOK, calendar, payout
<1>16. CASE UNCHANGED lifecycle
  BY <1>16 DEF lifecycle, TypeOK, calendar, payout
<1> QED
  BY <1>1, <1>2, <1>3, <1>4, <1>5, <1>6, <1>7, <1>8, <1>9, <1>10, <1>11, <1>12,
     <1>13, <1>14, <1>15, <1>16 DEF Next

-----------------------------------------------------------------------------

(* Time never runs back, and only two entry points touch the calendar. *)
LEMMA StepShape ==
    ASSUME TypeOK, [Next]_lifecycle
    PROVE  /\ now' >= now
           /\ \/ \E gains \in Calls : MoveDeadlines(gains)
              \/ Configure
              \/ UNCHANGED calendar
<1>0. now \in Nat
  BY RulesAssumption DEF TypeOK
<1>1. now' >= now
  BY <1>0 DEF Next, lifecycle, Tick, Configure, LockRules, BindVault, Publish, SetUp,
     AdvancePhase, MoveDeadlines, FinalizeResults, OpenSettlement, PauseSettlement,
     ResumeSettlement, Complete, Cancel, OpenCancellation, ApproveCancellation,
     ResolveCancellation
<1>2. \/ \E gains \in Calls : MoveDeadlines(gains)
      \/ Configure
      \/ UNCHANGED calendar
  BY DEF Next, lifecycle, Tick, LockRules, BindVault, Publish, SetUp,
     AdvancePhase, FinalizeResults, OpenSettlement, PauseSettlement,
     ResumeSettlement, Complete, Cancel, OpenCancellation, ApproveCancellation,
     ResolveCancellation
<1> QED
  BY <1>1, <1>2

(* A step out of the invariant leaves a passed deadline where it is. *)
LEMMA StepStands ==
    ASSUME Inv, [Next]_lifecycle, NEW d \in Deadline,
           phase # "Draft", now >= schedule[d]
    PROVE  schedule'[d] = schedule[d]
<1>1. CASE \E gains \in Calls : MoveDeadlines(gains)
  BY <1>1, MoveShape DEF Inv
<1>2. CASE Configure
  BY <1>2 DEF Configure
<1>3. CASE UNCHANGED calendar
  BY <1>3 DEF calendar
<1> QED
  BY <1>1, <1>2, <1>3, StepShape DEF Inv

(* A draft has spent nothing and announces what is in force; past the draft *)
(* no step returns to it.                                                   *)
LEMMA StepDraft == Inv /\ [Next]_lifecycle => DraftIsUntouched'
<1> SUFFICES ASSUME Inv, [Next]_lifecycle PROVE DraftIsUntouched'
  OBVIOUS
<1>1. phase' = "Draft" => phase = "Draft"
  BY DEF Next, lifecycle, Tick, Configure, LockRules, BindVault, Publish, SetUp,
     AdvancePhase, MoveDeadlines, FinalizeResults, OpenSettlement, PauseSettlement,
     ResumeSettlement, Complete, Cancel, OpenCancellation, ApproveCancellation,
     ResolveCancellation, Advance, Successor
<1>2. CASE \E gains \in Calls : MoveDeadlines(gains)
  BY <1>1, <1>2 DEF MoveDeadlines, DraftIsUntouched
<1>3. CASE Configure
  BY <1>3 DEF Configure, DraftIsUntouched, Inv
<1>4. CASE UNCHANGED calendar
  BY <1>1, <1>4 DEF calendar, DraftIsUntouched, Inv
<1> QED
  BY <1>2, <1>3, <1>4, StepShape DEF Inv

(* Every move is recorded, and recorded within the allowance. *)
LEMMA StepAccounts == Inv /\ [Next]_lifecycle => ExtensionsAccountedFor'
<1> SUFFICES ASSUME Inv, [Next]_lifecycle, NEW d \in Deadline
             PROVE  /\ schedule'[d] = announced'[d] + used'[d].seconds
                    /\ used'[d].seconds <= MaxSeconds
                    /\ used'[d].times <= MaxExtensions
                    /\ (used'[d].times = 0) <=> (used'[d].seconds = 0)
  BY DEF ExtensionsAccountedFor
<1>1. /\ schedule[d] = announced[d] + used[d].seconds
      /\ used[d].seconds <= MaxSeconds
      /\ used[d].times <= MaxExtensions
      /\ (used[d].times = 0) <=> (used[d].seconds = 0)
  BY DEF Inv, ExtensionsAccountedFor
<1>2. used[d].times \in Nat /\ used[d].seconds \in Nat
  BY DEF Inv, TypeOK, Usage
<1>3. announced[d] \in Nat
  BY ScheduleShape DEF Inv, TypeOK
<1>4. ASSUME NEW gains \in Calls, MoveDeadlines(gains)
      PROVE  /\ schedule'[d] = announced'[d] + used'[d].seconds
             /\ used'[d].seconds <= MaxSeconds
             /\ used'[d].times <= MaxExtensions
             /\ (used'[d].times = 0) <=> (used'[d].seconds = 0)
  <2>1. announced' = announced
    BY <1>4 DEF MoveDeadlines
  <2>2. /\ schedule'[d] = schedule[d] + gains[d].seconds
        /\ used'[d] = [times   |-> used[d].times + gains[d].times,
                       seconds |-> used[d].seconds + gains[d].seconds]
        /\ gains[d] # Still => /\ used'[d].times <= MaxExtensions
                               /\ used'[d].seconds <= MaxSeconds
    BY <1>4, MoveShape DEF Inv
  <2>3. /\ gains[d].times \in Nat /\ gains[d].seconds \in Nat
        /\ gains[d] = [times |-> gains[d].times, seconds |-> gains[d].seconds]
        /\ gains[d].times <= gains[d].seconds
        /\ (gains[d].times = 0) => (gains[d].seconds = 0)
    BY CallShape
  <2>4. used'[d].times = used[d].times + gains[d].times
    BY <2>2
  <2>5. used'[d].seconds = used[d].seconds + gains[d].seconds
    BY <2>2
  <2>6. gains[d] = Still => used'[d].times = used[d].times /\ used'[d].seconds = used[d].seconds
    BY <1>2, <2>4, <2>5 DEF Still
  <2>7. used'[d].times <= MaxExtensions /\ used'[d].seconds <= MaxSeconds
    BY <1>1, <2>2, <2>6
  <2>8. schedule'[d] = announced'[d] + used'[d].seconds
    BY <1>1, <1>2, <1>3, <2>1, <2>2, <2>3, <2>5
  <2>9. (used'[d].times = 0) <=> (used'[d].seconds = 0)
    <3>1. used'[d].times = 0 => used[d].times = 0 /\ gains[d].times = 0
      BY <1>2, <2>3, <2>4
    <3>2. used'[d].seconds = 0 => used[d].seconds = 0 /\ gains[d].seconds = 0
      BY <1>2, <2>3, <2>5
    <3>3. gains[d].seconds = 0 => gains[d].times = 0
      BY <2>3
    <3>4. used'[d].times = 0 => used'[d].seconds = 0
      BY <1>1, <2>3, <2>5, <3>1
    <3>5. used'[d].seconds = 0 => used'[d].times = 0
      BY <1>1, <2>4, <3>2, <3>3
    <3> QED
      BY <3>4, <3>5
  <2> QED
    BY <2>7, <2>8, <2>9
<1>5. CASE Configure
  <2>1. used'[d].times = 0 /\ used'[d].seconds = 0
    BY <1>5 DEF Configure, Inv, DraftIsUntouched, Unused
  <2>2. schedule'[d] = announced'[d] /\ announced'[d] \in Nat
    BY <1>5, ScheduleShape DEF Configure
  <2> QED
    BY <2>1, <2>2, PolicyAssumption
<1>6. CASE UNCHANGED calendar
  BY <1>1, <1>6 DEF calendar
<1> QED
  BY <1>4, <1>5, <1>6, StepShape DEF Inv

-----------------------------------------------------------------------------

(* A phase once entered stays behind its window: entering it checked the    *)
(* deadline, and a passed deadline stands.                                  *)
LEMMA StepWindows == Inv /\ [Next]_lifecycle => WindowsRanOut'
<1> SUFFICES ASSUME Inv, [Next]_lifecycle PROVE WindowsRanOut'
  OBVIOUS
<1>0. now \in Nat
  BY RulesAssumption DEF Inv, TypeOK
<1>1. /\ "submission_closes_at" \in Deadline
      /\ "screening_closes_at" \in Deadline
      /\ "judging_closes_at" \in Deadline
  BY DEF Deadline
<1>2. now' >= now
  BY StepShape DEF Inv
<1>3. now' \in Nat
  BY StepType, RulesAssumption DEF TypeOK
<1>4. ASSUME NEW d \in Deadline, phase # "Draft", now >= schedule[d]
      PROVE  now' >= schedule'[d]
  <2>1. schedule[d] \in Nat
    BY ScheduleShape DEF Inv, TypeOK
  <2>2. schedule'[d] = schedule[d]
    BY <1>4, StepStands
  <2> QED
    BY <1>0, <1>2, <1>3, <1>4, <2>1, <2>2
<1>5. \/ phase' = phase
      \/ phase' \notin AfterOpen
      \/ /\ phase = "Open" /\ phase' = "Screening"
         /\ now' >= schedule'["submission_closes_at"]
      \/ /\ phase = "Screening" /\ phase' = "Judging"
         /\ now' >= schedule'["screening_closes_at"]
      \/ /\ phase = "Judging" /\ phase' = "Reveal"
         /\ now' >= schedule'["judging_closes_at"]
      \/ phase \in AfterJudging /\ phase' \in AfterJudging
  <2>1. CASE AdvancePhase
    BY <2>1 DEF AdvancePhase, Advance, Successor, ClosingDeadline, calendar
  <2>2. CASE \E b \in BOOLEAN : FinalizeResults(b) \/ Complete(b)
    BY <2>2 DEF FinalizeResults, Complete, Advance, Successor, AfterJudging
  <2>3. CASE OpenSettlement
    BY <2>3 DEF OpenSettlement, Advance, Successor, AfterJudging
  <2>4. CASE LockRules \/ SetUp \/ \E b \in BOOLEAN : Publish(b)
    BY <2>4 DEF LockRules, SetUp, Publish, Advance, Successor, AfterOpen,
       AfterScreening, AfterJudging
  <2>5. CASE Cancel \/ ResolveCancellation
    BY <2>5 DEF Cancel, ResolveCancellation, AfterOpen, AfterScreening, AfterJudging
  <2>6. CASE UNCHANGED phase
    BY <2>6
  <2> QED
    BY <2>1, <2>2, <2>3, <2>4, <2>5, <2>6 DEF Next, lifecycle, Tick, Configure,
       BindVault, MoveDeadlines, PauseSettlement, ResumeSettlement,
       OpenCancellation, ApproveCancellation
<1>6. phase' \in AfterOpen => now' >= schedule'["submission_closes_at"]
  BY <1>1, <1>4, <1>5 DEF Inv, WindowsRanOut, AfterOpen, AfterScreening, AfterJudging
<1>7. phase' \in AfterScreening => now' >= schedule'["screening_closes_at"]
  BY <1>1, <1>4, <1>5 DEF Inv, WindowsRanOut, AfterOpen, AfterScreening, AfterJudging
<1>8. phase' \in AfterJudging => now' >= schedule'["judging_closes_at"]
  BY <1>1, <1>4, <1>5 DEF Inv, WindowsRanOut, AfterOpen, AfterScreening, AfterJudging
<1> QED
  BY <1>6, <1>7, <1>8 DEF WindowsRanOut

(* The two moments the payout counts from are written once each, by the     *)
(* step that enters the phase.                                              *)
LEMMA StepHold == Inv /\ [Next]_lifecycle => HoldHonoured'
<1> SUFFICES ASSUME Inv, [Next]_lifecycle PROVE HoldHonoured'
  OBVIOUS
<1> DEFINE Ranked == {"Finalization", "Settlement", "Completed"}
           Opened == {"Settlement", "Completed"}
           due    == schedule["judging_closes_at"]
<1>0. now \in Nat /\ finalized_at \in Nat /\ settlement_opened_at \in Nat /\ Hold \in Nat
  BY RulesAssumption DEF Inv, TypeOK
<1>1. /\ phase \in Ranked => finalized_at >= due
      /\ phase \in Opened => settlement_opened_at >= finalized_at + Hold
      /\ phase \in AfterJudging => now >= due
  BY DEF Inv, HoldHonoured, WindowsRanOut
<1>2. phase \in AfterJudging => due' = due
  BY <1>1, StepStands DEF Deadline, AfterJudging
<1>3. CASE \E b \in BOOLEAN : FinalizeResults(b)
  <2>1. phase = "Reveal" /\ phase' = "Finalization" /\ finalized_at' = now
    BY <1>3 DEF FinalizeResults, Advance, Successor
  <2> QED
    BY <1>1, <1>2, <2>1 DEF HoldHonoured, AfterJudging
<1>4. CASE OpenSettlement
  <2>1. /\ phase = "Finalization" /\ phase' = "Settlement"
        /\ now >= finalized_at + Hold
        /\ finalized_at' = finalized_at /\ settlement_opened_at' = now
    BY <1>4 DEF OpenSettlement, Advance, Successor
  <2> QED
    BY <1>1, <1>2, <2>1 DEF HoldHonoured, AfterJudging
<1>5. CASE \E b \in BOOLEAN : Complete(b)
  <2>1. /\ phase = "Settlement" /\ phase' = "Completed"
        /\ UNCHANGED <<finalized_at, settlement_opened_at>>
    BY <1>5 DEF Complete, Advance, Successor, payout
  <2> QED
    BY <1>1, <1>2, <2>1 DEF HoldHonoured, AfterJudging
<1>6. CASE phase' \notin Ranked
  BY <1>6 DEF HoldHonoured
<1>7. CASE UNCHANGED <<phase, finalized_at, settlement_opened_at>>
  BY <1>1, <1>2, <1>7 DEF HoldHonoured, AfterJudging
<1> QED
  BY <1>3, <1>4, <1>5, <1>6, <1>7 DEF Next, lifecycle, Tick, Configure, LockRules,
     BindVault, Publish, SetUp, AdvancePhase, Advance, Successor, ClosingDeadline,
     MoveDeadlines, PauseSettlement, ResumeSettlement, Cancel, OpenCancellation,
     ApproveCancellation, ResolveCancellation, calendar, payout

(* A judge who signed cannot sign again, so the counter is the number of    *)
(* judges.                                                                  *)
LEMMA StepTally == Inv /\ [Next]_lifecycle => Tally'
<1> SUFFICES ASSUME Inv, [Next]_lifecycle PROVE Tally'
  OBVIOUS
<1>1. ASSUME NEW j \in Judge, ApproveCancellation(j) PROVE Tally'
  <2>1. IsFiniteSet(cancellation.signed)
    BY RulesAssumption, FS_Subset DEF Inv, TypeOK
  <2>2. Cardinality(cancellation.signed \cup {j}) = Cardinality(cancellation.signed) + 1
    BY <1>1, <2>1, FS_AddElement DEF ApproveCancellation
  <2> QED
    BY <1>1, <2>2 DEF ApproveCancellation, Inv, Tally
<1>2. CASE OpenCancellation
  BY <1>2, FS_EmptySet DEF OpenCancellation, Tally
<1>3. CASE UNCHANGED cancellation
  BY <1>3 DEF Inv, Tally
<1> QED
  BY <1>1, <1>2, <1>3 DEF Next, lifecycle, Tick, Configure, LockRules, BindVault,
     Publish, SetUp, AdvancePhase, MoveDeadlines, FinalizeResults, OpenSettlement,
     PauseSettlement, ResumeSettlement, Complete, Cancel, ResolveCancellation

(* The invariant is inductive. *)
LEMMA StepInv == Inv /\ [Next]_lifecycle => Inv'
BY StepType, StepDraft, StepAccounts, StepWindows, StepHold, StepTally DEF Inv

(* Every reachable state of a hackathon satisfies the invariant. *)
THEOREM Invariance == Spec => []Inv
<1>1. Init => Inv
  BY InitInv
<1>2. Inv /\ [Next]_lifecycle => Inv'
  BY StepInv
<1> QED
  BY <1>1, <1>2, PTL DEF Spec

(* The stored state of a hackathon always has its type. *)
THEOREM TypeCorrect == Spec => []TypeOK
<1>1. Inv => TypeOK
  BY DEF Inv
<1> QED
  BY <1>1, Invariance, PTL

(* advance_phase and extend_schedule, in any order, never leave a phase that *)
(* closed a window ahead of that window's deadline in force.                 *)
THEOREM WindowsNeverReopen == Spec => []WindowsRanOut
<1>1. Inv => WindowsRanOut
  BY DEF Inv
<1> QED
  BY <1>1, Invariance, PTL

(* The deadlines in force are the announced ones plus the recorded           *)
(* extensions, and those never exceed the announced allowance.               *)
THEOREM AllowanceKept == Spec => []ExtensionsAccountedFor
<1>1. Inv => ExtensionsAccountedFor
  BY DEF Inv
<1> QED
  BY <1>1, Invariance, PTL

(* Money is payable only a full safety window after the ranking, and the     *)
(* ranking only after the judging deadline in force.                         *)
THEOREM SafetyWindowKept == Spec => []HoldHonoured
<1>1. Inv => HoldHonoured
  BY DEF Inv
<1> QED
  BY <1>1, Invariance, PTL

(* After the lock, a deadline that has passed is closed for good.            *)
THEOREM PassedForGood == Spec => PassedDeadlinesStand
<1> DEFINE Stand == \A d \in Deadline :
              phase # "Draft" /\ now >= schedule[d] => schedule'[d] = schedule[d]
<1>1. Inv /\ [Next]_lifecycle => [Stand]_lifecycle
  BY StepStands
<1> QED
  BY <1>1, Invariance, PTL DEF Spec, PassedDeadlinesStand

(* A published event is called off only over the signatures of as many       *)
(* different judges as the rules announced.                                  *)
THEOREM BenchDecides == Spec => CancelledByTheBench
<1> DEFINE Decided == phase' = "Cancelled" /\ phase # "Cancelled" =>
              \/ phase \in {"Draft", "Funding"}
              \/ /\ phase \in Running
                 /\ Cardinality(cancellation.signed) >= CancelThreshold
<1>1. Inv /\ [Next]_lifecycle => Decided
  <2> SUFFICES ASSUME Inv, [Next]_lifecycle, phase' = "Cancelled", phase # "Cancelled"
               PROVE  \/ phase \in {"Draft", "Funding"}
                      \/ /\ phase \in Running
                         /\ Cardinality(cancellation.signed) >= CancelThreshold
    OBVIOUS
  <2>1. Cancel \/ ResolveCancellation
    BY DEF Next, lifecycle, Tick, Configure, LockRules, BindVault, Publish, SetUp,
       AdvancePhase, Advance, Successor, MoveDeadlines, FinalizeResults,
       OpenSettlement, PauseSettlement, ResumeSettlement, Complete,
       OpenCancellation, ApproveCancellation
  <2> QED
    BY <2>1 DEF Cancel, ResolveCancellation, Inv, Tally
<1> QED
  BY <1>1, Invariance, PTL DEF Spec, CancelledByTheBench

-----------------------------------------------------------------------------
(***************************************************************************)
(* The loop of move_deadlines.  MoveDeadlines takes a call as what it      *)
(* gains every deadline; the contract takes a list and goes through it     *)
(* (DeadlineMoves).  Here the list is of any length, and finds schedule s  *)
(* and usage u at ledger time at.                                          *)
(***************************************************************************)

List == Seq([deadline : Deadline, moved_to : Nat])

AsFound(s, u) == [ok |-> TRUE, schedule |-> s, used |-> u]

\* The turns of the loop, up to the n-th.
TurnsTo(s, u, at, list, n, done) ==
    done = [k \in 0..n |-> IF k = 0 THEN AsFound(s, u)
                           ELSE Step(at, done[k - 1], list[k])]

Turns(s, u, at, list) == CHOOSE done : TurnsTo(s, u, at, list, Len(list), done)

(* The loop has as many turns as the list has moves, and its outcome is the *)
(* last.                                                                    *)
LEMMA LoopIsItsTurns ==
    ASSUME NEW s, NEW u, NEW at, NEW list \in List
    PROVE  /\ Turns(s, u, at, list)[0] = AsFound(s, u)
           /\ \A n \in 0..Len(list) : n < Len(list) =>
                 Turns(s, u, at, list)[n + 1] = Step(at, Turns(s, u, at, list)[n], list[n + 1])
           /\ Loop(s, u, at, list) = Turns(s, u, at, list)[Len(list)]
<1> DEFINE N == Len(list)
           Turn(done, n) == Step(at, done, list[n])
           B == {n \in 0..N : \E done : TurnsTo(s, u, at, list, n, done)}
<1>1. N \in Nat
  BY DEF List
<1>2. 0 \in B
  <2> DEFINE done == [k \in 0..0 |-> AsFound(s, u)]
  <2>1. TurnsTo(s, u, at, list, 0, done)
    BY DEF TurnsTo
  <2> QED
    BY <1>1, <2>1
<1>3. ASSUME NEW n \in 0..N, n < N, n \in B
      PROVE  n + 1 \in B
  <2>1. PICK done : TurnsTo(s, u, at, list, n, done)
    BY <1>3
  <2> DEFINE more == [k \in 0..n + 1 |-> IF k <= n THEN done[k] ELSE Turn(done[n], n + 1)]
  <2>2. \A k \in 0..n : done[k] = IF k = 0 THEN AsFound(s, u) ELSE Turn(done[k - 1], k)
    BY <2>1 DEF TurnsTo
  <2>3. n \in Nat
    BY <1>1
  <2> HIDE DEF Turn
  <2>4. \A k \in 0..n + 1 : more[k] = IF k = 0 THEN AsFound(s, u) ELSE Turn(more[k - 1], k)
    <3> SUFFICES ASSUME NEW k \in 0..n + 1
                 PROVE  more[k] = IF k = 0 THEN AsFound(s, u) ELSE Turn(more[k - 1], k)
      OBVIOUS
    <3>1. CASE k = 0
      BY <2>2, <2>3, <3>1
    <3>2. CASE k # 0 /\ k <= n
      <4>1. k \in 0..n /\ k - 1 \in 0..n + 1 /\ k - 1 <= n
        BY <2>3, <3>2
      <4>2. more[k - 1] = done[k - 1]
        BY <4>1
      <4> QED
        BY <2>2, <3>2, <4>1, <4>2
    <3>3. CASE k = n + 1
      <4>1. k - 1 = n /\ n \in 0..n + 1 /\ n <= n /\ ~ k <= n /\ k # 0
        BY <2>3, <3>3
      <4>2. more[k - 1] = done[n]
        BY <4>1
      <4>3. more[k] = Turn(done[n], k)
        BY <3>3, <4>1
      <4> QED
        BY <4>1, <4>2, <4>3
    <3> QED
      BY <2>3, <3>1, <3>2, <3>3
  <2>5. more = [k \in 0..n + 1 |-> more[k]]
    OBVIOUS
  <2> HIDE DEF more
  <2>6. more = [k \in 0..n + 1 |-> IF k = 0 THEN AsFound(s, u) ELSE Turn(more[k - 1], k)]
    BY <2>4, <2>5
  <2>7. TurnsTo(s, u, at, list, n + 1, more)
    BY <2>6 DEF TurnsTo, Turn
  <2>8. n + 1 \in 0..N
    BY <1>1, <1>3
  <2> QED
    BY <2>7, <2>8
<1>4. N \in B
  <2> HIDE DEF B
  <2>1. \A n \in 0..N : n \in B
    BY <1>1, <1>2, <1>3, UpTo
  <2> QED
    BY <1>1, <2>1
<1>5. TurnsTo(s, u, at, list, N, Turns(s, u, at, list))
  BY <1>4 DEF Turns
<1>6. \A k \in 0..N : Turns(s, u, at, list)[k] =
         IF k = 0 THEN AsFound(s, u) ELSE Turn(Turns(s, u, at, list)[k - 1], k)
  BY <1>5 DEF TurnsTo
<1>7. Loop(s, u, at, list) = Turns(s, u, at, list)[N]
  BY DEF Loop, Turns, TurnsTo, AsFound
<1>8. ASSUME NEW n \in 0..N, n < N
      PROVE  Turns(s, u, at, list)[n + 1] = Turn(Turns(s, u, at, list)[n], n + 1)
  <2>1. n + 1 \in 0..N /\ n + 1 # 0 /\ (n + 1) - 1 = n
    BY <1>1, <1>8
  <2> HIDE DEF Turn
  <2> QED
    BY <1>6, <2>1
<1> QED
  BY <1>1, <1>6, <1>7, <1>8

(* There are six deadlines, and no more.                                     *)
LEMMA DeadlinesAreFinite == IsFiniteSet(Deadline)
<1>1. Deadline = {"registration_closes_at"} \cup {"submission_closes_at"}
                  \cup {"screening_closes_at"} \cup {"judging_closes_at"}
                  \cup {"community_vote_closes_at"} \cup {"community_vote_opens_at"}
  BY DEF Deadline
<1> QED
  BY <1>1, FS_Singleton, FS_Union

\* The first n moves of a list that name one deadline, and where they leave it.
Naming(list, d, n) == {i \in 1..n : list[i].deadline = d}

MovedTo(s, list, d, n) ==
    IF Naming(list, d, n) = {} THEN s[d]
    ELSE list[Max(Naming(list, d, n))].moved_to

GainedBy(s, list, d, n) == MovedTo(s, list, d, n) - s[d]
TimesBy(list, d, n)  == Cardinality(Naming(list, d, n))

\* The moves of every deadline ascend, up to the n-th of the list.
Climbs(s, list, n) ==
    \A d \in Deadline : \A i \in Naming(list, d, n) :
        /\ list[i].moved_to > s[d]
        /\ \A j \in Naming(list, d, n) : j < i => list[i].moved_to > list[j].moved_to

\* What they gain is within the allowance.
Granted(s, u, at, list, n) ==
    \A d \in Deadline : Naming(list, d, n) # {} =>
        /\ at < s[d]
        /\ u[d].times + TimesBy(list, d, n) <= MaxExtensions
        /\ u[d].seconds + GainedBy(s, list, d, n) <= MaxSeconds

(* A list holds moves.                                                      *)
LEMMA ListedMoves ==
    ASSUME NEW list \in List
    PROVE  \A i \in 1..Len(list) : list[i].deadline \in Deadline /\ list[i].moved_to \in Nat
<1> DEFINE Move == [deadline : Deadline, moved_to : Nat]
<1>1. \A m \in Move : m.deadline \in Deadline /\ m.moved_to \in Nat
  OBVIOUS
<1>2. list \in Seq(Move)
  BY DEF List
<1> HIDE DEF Move
<1>3. \A i \in 1..Len(list) : list[i] \in Move
  BY <1>2
<1> QED
  BY <1>1, <1>3

(* The last of the moves that name a deadline is one of them.               *)
LEMMA ListedMax ==
    ASSUME NEW list \in List, NEW n \in 0..Len(list), NEW d,
           Naming(list, d, n) # {}
    PROVE  Max(Naming(list, d, n)) \in Naming(list, d, n)
<1> DEFINE P == Naming(list, d, n)
<1>1. P \in SUBSET Nat /\ P \subseteq 1..n /\ n \in Nat /\ P # {}
  BY DEF Naming, List
<1>2. IsFiniteSet(P)
  <2>1. IsFiniteSet(1..n)
    BY <1>1, FS_Interval
  <2> QED
    BY <1>1, <2>1, FS_Subset
<1>3. \E x \in P : \A y \in P : y <= x
  <2> HIDE DEF P
  <2> QED
    BY <1>1, <1>2, LargestMember
<1>4. \E x \in P : \A y \in P : x >= y
  BY <1>1, <1>3
<1> HIDE DEF P
<1> QED
  BY <1>4 DEF Max, P

(* Where a deadline stands after the first n moves.                         *)
LEMMA NamedMoves ==
    ASSUME NEW s \in SchedulesIn(Nat), NEW list \in List, NEW n \in 0..Len(list),
           NEW d \in Deadline
    PROVE  /\ Naming(list, d, n) \subseteq 1..n /\ IsFiniteSet(Naming(list, d, n))
           /\ TimesBy(list, d, n) \in Nat
           /\ TimesBy(list, d, n) = 0 <=> Naming(list, d, n) = {}
           /\ MovedTo(s, list, d, n) \in Nat
           /\ Naming(list, d, n) = {} => MovedTo(s, list, d, n) = s[d]
           /\ Naming(list, d, n) # {} =>
                 \E i \in Naming(list, d, n) : MovedTo(s, list, d, n) = list[i].moved_to
<1> DEFINE P == Naming(list, d, n)
<1>1. Len(list) \in Nat /\ n \in Nat /\ n <= Len(list)
  BY DEF List
<1>2. \A i \in 1..Len(list) : list[i].deadline \in Deadline /\ list[i].moved_to \in Nat
  BY ListedMoves
<1>3. P \subseteq 1..n /\ P \in SUBSET Nat
  BY <1>1 DEF Naming
<1>4. IsFiniteSet(P)
  <2>1. IsFiniteSet(1..n)
    BY <1>1, FS_Interval
  <2> QED
    BY <1>3, <2>1, FS_Subset
<1>5. Cardinality(P) \in Nat /\ (Cardinality(P) = 0 <=> P = {})
  BY <1>4, FS_CardinalityType, FS_EmptySet
<1>6. P # {} => Max(P) \in P
  BY ListedMax
<1>7. MovedTo(s, list, d, n) \in Nat
  <2>1. CASE P = {}
    BY <2>1, ScheduleShape DEF MovedTo
  <2>2. CASE P # {}
    <3>1. Max(P) \in 1..Len(list)
      BY <1>1, <1>3, <1>6, <2>2
    <3>2. MovedTo(s, list, d, n) = list[Max(P)].moved_to
      BY <2>2 DEF MovedTo
    <3> HIDE DEF P
    <3> QED
      BY <1>2, <3>1, <3>2
  <2> QED
    BY <2>1, <2>2
<1>8. /\ P = {} => MovedTo(s, list, d, n) = s[d]
      /\ P # {} => \E i \in P : MovedTo(s, list, d, n) = list[i].moved_to
  BY <1>6 DEF MovedTo
<1> QED
  BY <1>3, <1>4, <1>5, <1>7, <1>8 DEF TimesBy

(* One more move in the list is one more move of the deadline it names, and *)
(* is where that deadline ends up.                                          *)
LEMMA OneMoreMove ==
    ASSUME NEW s \in SchedulesIn(Nat), NEW list \in List,
           NEW n \in 0..Len(list), n < Len(list),
           NEW d \in Deadline
    PROVE  /\ list[n + 1].deadline \in Deadline /\ list[n + 1].moved_to \in Nat
           /\ list[n + 1].deadline = d =>
                 /\ Naming(list, d, n + 1) = Naming(list, d, n) \cup {n + 1}
                 /\ TimesBy(list, d, n + 1) = TimesBy(list, d, n) + 1
                 /\ MovedTo(s, list, d, n + 1) = list[n + 1].moved_to
           /\ list[n + 1].deadline # d =>
                 /\ Naming(list, d, n + 1) = Naming(list, d, n)
                 /\ TimesBy(list, d, n + 1) = TimesBy(list, d, n)
                 /\ MovedTo(s, list, d, n + 1) = MovedTo(s, list, d, n)
<1> DEFINE P == Naming(list, d, n)
           Q == Naming(list, d, n + 1)
<1>1. Len(list) \in Nat /\ n \in Nat /\ n + 1 \in 1..Len(list) /\ DOMAIN list = 1..Len(list)
  BY DEF List
<1>2. \A i \in 1..Len(list) : list[i].deadline \in Deadline /\ list[i].moved_to \in Nat
  BY ListedMoves
<1>3. P \subseteq 1..n /\ P \in SUBSET Nat /\ n + 1 \notin P
  BY <1>1 DEF Naming
<1>4. /\ IsFiniteSet(P) /\ Cardinality(P) \in Nat /\ MovedTo(s, list, d, n) \in Nat
      /\ Cardinality(P) = 0 <=> P = {}
      /\ P = {} => MovedTo(s, list, d, n) = s[d]
      /\ P # {} => \E i \in P : MovedTo(s, list, d, n) = list[i].moved_to
  BY NamedMoves DEF TimesBy
<1>8. ASSUME list[n + 1].deadline = d
      PROVE  /\ Q = P \cup {n + 1}
             /\ Cardinality(Q) = Cardinality(P) + 1
             /\ MovedTo(s, list, d, n + 1) = list[n + 1].moved_to
  <2>1. Q = P \cup {n + 1}
    BY <1>1, <1>8 DEF Naming
  <2>2. Cardinality(Q) = Cardinality(P) + 1
    <3> HIDE DEF P, Q
    <3> QED
      BY <1>3, <1>4, <2>1, FS_AddElement
  <2>3. Max(Q) = n + 1
    <3>1. n + 1 \in Q /\ \A y \in Q : y \in Nat /\ n + 1 >= y
      BY <1>1, <1>3, <2>1
    <3> HIDE DEF P, Q
    <3>2. \A x \in Q : (\A y \in Q : x >= y) => x = n + 1
      BY <1>1, <3>1
    <3> QED
      BY <3>1, <3>2 DEF Max
  <2> QED
    BY <2>1, <2>2, <2>3 DEF MovedTo
<1>9. ASSUME list[n + 1].deadline # d
      PROVE  Q = P
  BY <1>1, <1>9 DEF Naming
<1> QED
  BY <1>1, <1>2, <1>4, <1>8, <1>9 DEF TimesBy, MovedTo

\* What is true of the loop after n turns.
Outcome(s, u, at, list, n) ==
    LET done == Turns(s, u, at, list)[n] IN
    /\ done \in [ok : BOOLEAN, schedule : SchedulesIn(Nat), used : [Deadline -> Usage]]
    /\ done.ok <=> Climbs(s, list, n) /\ Granted(s, u, at, list, n)
    /\ done.ok => /\ \A d \in Deadline : done.schedule[d] = MovedTo(s, list, d, n)
                  /\ \A m \in Moment \ Deadline : done.schedule[m] = s[m]
                  /\ \A d \in Deadline :
                        /\ done.used[d].times = u[d].times + TimesBy(list, d, n)
                        /\ done.used[d].seconds = u[d].seconds + GainedBy(s, list, d, n)
    /\ Climbs(s, list, n) => \A d \in Deadline :
          /\ GainedBy(s, list, d, n) >= TimesBy(list, d, n)
          /\ \A i \in Naming(list, d, n) : list[i].moved_to <= MovedTo(s, list, d, n)

(* A list that climbs goes on climbing if its next move is past where its   *)
(* deadline stands.                                                         *)
LEMMA OneMoreClimb ==
    ASSUME NEW s \in SchedulesIn(Nat), NEW u \in [Deadline -> Usage], NEW at \in Nat,
           NEW list \in List, NEW n \in 0..Len(list), n < Len(list),
           Outcome(s, u, at, list, n)
    PROVE  Climbs(s, list, n + 1) <=>
             /\ Climbs(s, list, n)
             /\ list[n + 1].moved_to > MovedTo(s, list, list[n + 1].deadline, n)
<1> DEFINE move == list[n + 1]
           e    == move.deadline
<1>0. n \in Nat /\ Len(list) \in Nat
  BY DEF List
<1>1. /\ e \in Deadline /\ move.moved_to \in Nat
      /\ \A d \in Deadline :
            /\ MovedTo(s, list, d, n) \in Nat /\ TimesBy(list, d, n) \in Nat
            /\ Naming(list, d, n) = {} => MovedTo(s, list, d, n) = s[d]
            /\ Naming(list, d, n) # {} =>
                  \E i \in Naming(list, d, n) : MovedTo(s, list, d, n) = list[i].moved_to
            /\ e = d => Naming(list, d, n + 1) = Naming(list, d, n) \cup {n + 1}
            /\ e # d => Naming(list, d, n + 1) = Naming(list, d, n)
  <2>1. n + 1 \in 1..Len(list)
    BY <1>0
  <2>2. e \in Deadline /\ move.moved_to \in Nat
    BY <2>1, ListedMoves
  <2>3. ASSUME NEW d \in Deadline
        PROVE  /\ MovedTo(s, list, d, n) \in Nat /\ TimesBy(list, d, n) \in Nat
               /\ Naming(list, d, n) = {} => MovedTo(s, list, d, n) = s[d]
               /\ Naming(list, d, n) # {} =>
                     \E i \in Naming(list, d, n) : MovedTo(s, list, d, n) = list[i].moved_to
    BY NamedMoves
  <2>4. ASSUME NEW d \in Deadline
        PROVE  /\ e = d => Naming(list, d, n + 1) = Naming(list, d, n) \cup {n + 1}
               /\ e # d => Naming(list, d, n + 1) = Naming(list, d, n)
    BY OneMoreMove
  <2> HIDE DEF move, e
  <2> QED
    BY <2>2, <2>3, <2>4, Zenon
<1>2. Climbs(s, list, n) => \A d \in Deadline :
         /\ GainedBy(s, list, d, n) >= TimesBy(list, d, n)
         /\ \A i \in Naming(list, d, n) : list[i].moved_to <= MovedTo(s, list, d, n)
  BY DEF Outcome
<1>3. \A d \in Deadline : s[d] \in Nat
  BY ScheduleShape
<1> HIDE DEF move, e
<1>4. \A d \in Deadline : \A i \in Naming(list, d, n) : i \in 1..n
  BY DEF Naming
<1>5. \A i \in 1..Len(list) : list[i].moved_to \in Nat
  BY ListedMoves
<1>6. Climbs(s, list, n + 1) <=> Climbs(s, list, n) /\ move.moved_to > MovedTo(s, list, e, n)
  <2>1. ASSUME Climbs(s, list, n + 1) PROVE Climbs(s, list, n)
    <3>1. \A d \in Deadline : Naming(list, d, n) \subseteq Naming(list, d, n + 1)
      BY <1>1
    <3> QED
      BY <2>1, <3>1 DEF Climbs
  <2>2. ASSUME Climbs(s, list, n + 1) PROVE move.moved_to > MovedTo(s, list, e, n)
    <3>1. n + 1 \in Naming(list, e, n + 1) /\ list[n + 1] = move
      BY <1>1 DEF move
    <3>2. move.moved_to > s[e]
      BY <1>1, <2>2, <3>1 DEF Climbs
    <3>3. CASE Naming(list, e, n) # {}
      <4>1. PICK i \in Naming(list, e, n) : MovedTo(s, list, e, n) = list[i].moved_to
        BY <1>1, <3>3
      <4>2. i \in Naming(list, e, n + 1) /\ i < n + 1
        BY <1>0, <1>1, <1>4
      <4> QED
        BY <1>1, <2>2, <3>1, <4>1, <4>2 DEF Climbs
    <3> QED
      BY <1>1, <3>2, <3>3
  <2>3. ASSUME Climbs(s, list, n), move.moved_to > MovedTo(s, list, e, n),
               NEW d \in Deadline, NEW i \in Naming(list, d, n + 1)
        PROVE  /\ list[i].moved_to > s[d]
               /\ \A j \in Naming(list, d, n + 1) : j < i => list[i].moved_to > list[j].moved_to
    <3>1. CASE i \in Naming(list, d, n)
      <4>1. i \in 1..n /\ \A j \in Naming(list, d, n + 1) : j < i => j \in Naming(list, d, n)
        BY <1>0, <1>1, <1>4, <3>1
      <4> QED
        BY <2>3, <3>1, <4>1 DEF Climbs
    <3>2. CASE i \notin Naming(list, d, n)
      <4>1. e = d /\ i = n + 1 /\ list[i] = move
        BY <1>1, <3>2 DEF move
      <4>2. s[d] <= MovedTo(s, list, d, n)
        BY <1>1, <1>2, <1>3, <2>3 DEF GainedBy
      <4>3. ASSUME NEW j \in Naming(list, d, n + 1), j < i
            PROVE  list[i].moved_to > list[j].moved_to
        <5>1. j \in Naming(list, d, n)
          BY <1>0, <1>1, <4>1, <4>3
        <5>2. list[j].moved_to <= MovedTo(s, list, d, n) /\ list[j].moved_to \in Nat
          BY <1>0, <1>2, <1>4, <1>5, <2>3, <5>1
        <5> QED
          BY <1>1, <2>3, <4>1, <5>2
      <4> QED
        BY <1>1, <1>3, <2>3, <4>1, <4>2, <4>3
    <3> QED
      BY <3>1, <3>2
  <2> QED
    BY <2>1, <2>2, <2>3 DEF Climbs
<1> QED
  BY <1>6 DEF move, e

(* One more turn of the loop keeps that.                                    *)
LEMMA OneMoreTurn ==
    ASSUME NEW s \in SchedulesIn(Nat), NEW u \in [Deadline -> Usage], NEW at \in Nat,
           NEW list \in List, NEW n \in 0..Len(list), n < Len(list),
           Outcome(s, u, at, list, n)
    PROVE  Outcome(s, u, at, list, n + 1)
<1> DEFINE done == Turns(s, u, at, list)[n]
           next == Turns(s, u, at, list)[n + 1]
           move == list[n + 1]
           e    == move.deadline
           added == move.moved_to - done.schedule[e]
           Accepted == /\ done.ok
                       /\ at < done.schedule[e] /\ move.moved_to > done.schedule[e]
                       /\ done.used[e].times < MaxExtensions
                       /\ done.used[e].seconds + added <= MaxSeconds
<1>0. n \in Nat /\ Len(list) \in Nat /\ MaxExtensions \in Nat /\ MaxSeconds \in Nat
  BY PolicyAssumption DEF List
<1>1. /\ e \in Deadline /\ move.moved_to \in Nat
      /\ \A d \in Deadline :
            /\ TimesBy(list, d, n) \in Nat /\ MovedTo(s, list, d, n) \in Nat
            /\ TimesBy(list, d, n) = 0 <=> Naming(list, d, n) = {}
            /\ Naming(list, d, n) = {} => MovedTo(s, list, d, n) = s[d]
            /\ Naming(list, d, n) # {} =>
                  \E i \in Naming(list, d, n) : MovedTo(s, list, d, n) = list[i].moved_to
            /\ e = d => /\ Naming(list, d, n + 1) = Naming(list, d, n) \cup {n + 1}
                        /\ TimesBy(list, d, n + 1) = TimesBy(list, d, n) + 1
                        /\ MovedTo(s, list, d, n + 1) = move.moved_to
            /\ e # d => /\ Naming(list, d, n + 1) = Naming(list, d, n)
                        /\ TimesBy(list, d, n + 1) = TimesBy(list, d, n)
                        /\ MovedTo(s, list, d, n + 1) = MovedTo(s, list, d, n)
  <2>1. e \in Deadline /\ move.moved_to \in Nat
    <3>1. n + 1 \in 1..Len(list)
      BY <1>0
    <3> QED
      BY <3>1, ListedMoves
  <2>2. ASSUME NEW d \in Deadline
        PROVE  /\ TimesBy(list, d, n) \in Nat /\ MovedTo(s, list, d, n) \in Nat
               /\ TimesBy(list, d, n) = 0 <=> Naming(list, d, n) = {}
               /\ Naming(list, d, n) = {} => MovedTo(s, list, d, n) = s[d]
               /\ Naming(list, d, n) # {} =>
                     \E i \in Naming(list, d, n) : MovedTo(s, list, d, n) = list[i].moved_to
    BY NamedMoves
  <2>3. ASSUME NEW d \in Deadline
        PROVE  /\ e = d => /\ Naming(list, d, n + 1) = Naming(list, d, n) \cup {n + 1}
                           /\ TimesBy(list, d, n + 1) = TimesBy(list, d, n) + 1
                           /\ MovedTo(s, list, d, n + 1) = move.moved_to
               /\ e # d => /\ Naming(list, d, n + 1) = Naming(list, d, n)
                           /\ TimesBy(list, d, n + 1) = TimesBy(list, d, n)
                           /\ MovedTo(s, list, d, n + 1) = MovedTo(s, list, d, n)
    <3>1. /\ list[n + 1].deadline = d =>
                /\ Naming(list, d, n + 1) = Naming(list, d, n) \cup {n + 1}
                /\ TimesBy(list, d, n + 1) = TimesBy(list, d, n) + 1
                /\ MovedTo(s, list, d, n + 1) = list[n + 1].moved_to
          /\ list[n + 1].deadline # d =>
                /\ Naming(list, d, n + 1) = Naming(list, d, n)
                /\ TimesBy(list, d, n + 1) = TimesBy(list, d, n)
                /\ MovedTo(s, list, d, n + 1) = MovedTo(s, list, d, n)
      BY OneMoreMove
    <3> QED
      BY <3>1, Zenon
  <2> HIDE DEF done, next, move, e
  <2> QED
    BY <2>1, <2>2, <2>3, Zenon
<1>2. /\ done \in [ok : BOOLEAN, schedule : SchedulesIn(Nat), used : [Deadline -> Usage]]
      /\ done.ok <=> Climbs(s, list, n) /\ Granted(s, u, at, list, n)
      /\ done.ok => /\ \A d \in Deadline : done.schedule[d] = MovedTo(s, list, d, n)
                    /\ \A m \in Moment \ Deadline : done.schedule[m] = s[m]
                    /\ \A d \in Deadline :
                          /\ done.used[d].times = u[d].times + TimesBy(list, d, n)
                          /\ done.used[d].seconds = u[d].seconds + GainedBy(s, list, d, n)
      /\ Climbs(s, list, n) => \A d \in Deadline :
            /\ GainedBy(s, list, d, n) >= TimesBy(list, d, n)
            /\ \A i \in Naming(list, d, n) : list[i].moved_to <= MovedTo(s, list, d, n)
  BY DEF Outcome
<1>3. /\ Accepted =>
            next = [ok       |-> TRUE,
                    schedule |-> [done.schedule EXCEPT ![e] = move.moved_to],
                    used     |-> [done.used EXCEPT ![e] =
                                    [times   |-> done.used[e].times + 1,
                                     seconds |-> done.used[e].seconds + added]]]
      /\ ~ Accepted => next = [done EXCEPT !.ok = FALSE]
  <2>1. next = Step(at, done, move)
    BY LoopIsItsTurns
  <2> HIDE DEF next, done, move
  <2> QED
    BY <2>1 DEF Step, MayMove, Fits, Record
<1>4. \A d \in Deadline : /\ s[d] \in Nat /\ u[d].times \in Nat
                          /\ u[d].seconds \in Nat
                          /\ d \in Moment
  BY ScheduleShape DEF Usage
<1> HIDE DEF done, next, move, e
<1>5. \A d \in Deadline : \A i \in Naming(list, d, n) : i \in 1..n
  BY DEF Naming
<1>6. \A i \in 1..Len(list) : list[i].moved_to \in Nat
  BY ListedMoves
<1>7. Climbs(s, list, n + 1) <=> Climbs(s, list, n) /\ move.moved_to > MovedTo(s, list, e, n)
  BY OneMoreClimb DEF move, e
<1>8. ASSUME Accepted
      PROVE  /\ Climbs(s, list, n + 1) /\ Granted(s, u, at, list, n + 1)
             /\ \A d \in Deadline : next.schedule[d] = MovedTo(s, list, d, n + 1)
             /\ \A m \in Moment \ Deadline : next.schedule[m] = s[m]
             /\ \A d \in Deadline :
                   /\ next.used[d].times = u[d].times + TimesBy(list, d, n + 1)
                   /\ next.used[d].seconds = u[d].seconds + GainedBy(s, list, d, n + 1)
             /\ next \in [ok : BOOLEAN, schedule : SchedulesIn(Nat), used : [Deadline -> Usage]]
             /\ next.ok
  <2>1. /\ Climbs(s, list, n) /\ Granted(s, u, at, list, n)
        /\ \A d \in Deadline : done.schedule[d] = MovedTo(s, list, d, n)
        /\ \A m \in Moment \ Deadline : done.schedule[m] = s[m]
        /\ \A d \in Deadline :
              /\ done.used[d].times = u[d].times + TimesBy(list, d, n)
              /\ done.used[d].seconds = u[d].seconds + GainedBy(s, list, d, n)
    BY <1>2, <1>8
  <2>2. /\ at < MovedTo(s, list, e, n) /\ move.moved_to > MovedTo(s, list, e, n)
        /\ u[e].times + TimesBy(list, e, n) < MaxExtensions
        /\ u[e].seconds + GainedBy(s, list, e, n) + (move.moved_to - MovedTo(s, list, e, n))
              <= MaxSeconds
    BY <1>1, <1>8, <2>1
  <2>3. Climbs(s, list, n + 1)
    BY <1>7, <2>1, <2>2
  <2>4. ASSUME NEW d \in Deadline, Naming(list, d, n + 1) # {}
        PROVE  /\ at < s[d]
               /\ u[d].times + TimesBy(list, d, n + 1) <= MaxExtensions
               /\ u[d].seconds + GainedBy(s, list, d, n + 1) <= MaxSeconds
    <3>1. CASE e # d
      BY <1>1, <2>1, <2>4, <3>1 DEF Granted, GainedBy
    <3>2. CASE e = d
      <4>1. at < s[d]
        <5>1. CASE Naming(list, d, n) = {}
          BY <1>1, <2>2, <3>2, <5>1
        <5>2. CASE Naming(list, d, n) # {}
          BY <2>1, <5>2 DEF Granted
        <5> QED
          BY <5>1, <5>2
      <4>2. u[d].times + TimesBy(list, d, n + 1) <= MaxExtensions
        BY <1>0, <1>1, <1>4, <2>2, <3>2
      <4>3. GainedBy(s, list, d, n + 1)
              = GainedBy(s, list, d, n) + (move.moved_to - MovedTo(s, list, d, n))
        BY <1>1, <1>4, <3>2 DEF GainedBy
      <4>4. GainedBy(s, list, d, n) \in Int /\ move.moved_to - MovedTo(s, list, d, n) \in Int
        BY <1>1, <1>4 DEF GainedBy
      <4> QED
        BY <1>0, <1>4, <2>2, <3>2, <4>1, <4>2, <4>3, <4>4
    <3> QED
      BY <3>1, <3>2
  <2>5. /\ next.ok = TRUE
        /\ next.schedule = [done.schedule EXCEPT ![e] = move.moved_to]
        /\ next.used = [done.used EXCEPT ![e] = [times   |-> done.used[e].times + 1,
                                                seconds |-> done.used[e].seconds + added]]
        /\ next = [ok |-> next.ok, schedule |-> next.schedule, used |-> next.used]
    BY <1>3, <1>8
  <2>6. done.schedule \in [Moment -> Nat] /\ done.used \in [Deadline -> Usage]
    BY <1>2 DEF SchedulesIn
  <2>7. next.schedule \in [Moment -> Nat]
    BY <1>1, <2>5, <2>6
  <2>8. \A d \in Deadline : next.schedule[d] = MovedTo(s, list, d, n + 1)
    BY <1>1, <1>4, <2>1, <2>5, <2>6
  <2>9. \A m \in Moment \ Deadline : next.schedule[m] = s[m]
    BY <1>1, <2>1, <2>5, <2>6
  <2>10. ASSUME NEW d \in Deadline
         PROVE  /\ next.used[d].times = u[d].times + TimesBy(list, d, n + 1)
                /\ next.used[d].seconds = u[d].seconds + GainedBy(s, list, d, n + 1)
    <3>1. CASE e # d
      BY <1>1, <2>1, <2>5, <2>6, <3>1 DEF GainedBy
    <3>2. CASE e = d
      <4>1. next.used[d] = [times   |-> done.used[d].times + 1,
                            seconds |-> done.used[d].seconds + added]
        BY <1>1, <2>5, <2>6, <3>2
      <4>2. /\ done.used[d].times = u[d].times + TimesBy(list, d, n)
            /\ done.used[d].seconds = u[d].seconds + GainedBy(s, list, d, n)
            /\ done.schedule[d] = MovedTo(s, list, d, n)
        BY <2>1
      <4>3. done.used[d].times + 1 = u[d].times + TimesBy(list, d, n + 1)
        <5>1. TimesBy(list, d, n + 1) = TimesBy(list, d, n) + 1
          BY <1>1, <3>2
        <5>2. TimesBy(list, d, n) \in Nat /\ u[d].times \in Nat
          BY <1>1, <1>4
        <5> QED
          BY <4>2, <5>1, <5>2
      <4>4. done.used[d].seconds + added = u[d].seconds + GainedBy(s, list, d, n + 1)
        <5>1. /\ GainedBy(s, list, d, n) = MovedTo(s, list, d, n) - s[d]
              /\ GainedBy(s, list, d, n + 1) = move.moved_to - s[d]
          BY <1>1, <3>2 DEF GainedBy
        <5>2. /\ MovedTo(s, list, d, n) \in Nat /\ move.moved_to \in Nat
              /\ s[d] \in Nat /\ u[d].seconds \in Nat
          BY <1>1, <1>4
        <5>3. added = move.moved_to - MovedTo(s, list, d, n)
          BY <3>2, <4>2
        <5> HIDE DEF added
        <5> QED
          BY <4>2, <5>1, <5>2, <5>3
      <4> QED
        BY <4>1, <4>3, <4>4
    <3> QED
      BY <3>1, <3>2
  <2>11. next.used \in [Deadline -> Usage]
    <3>1. done.used[e].times \in Nat /\ done.used[e].seconds \in Nat
      BY <1>1, <2>6 DEF Usage
    <3>2. added \in Nat
      BY <1>1, <2>1, <2>2
    <3>3. [times |-> done.used[e].times + 1, seconds |-> done.used[e].seconds + added] \in Usage
      BY <3>1, <3>2 DEF Usage
    <3> DEFINE more == [times   |-> done.used[e].times + 1,
                        seconds |-> done.used[e].seconds + added]
    <3>4. next.used = [done.used EXCEPT ![e] = more]
      BY <2>5
    <3> HIDE DEF more
    <3>5. [done.used EXCEPT ![e] = more] \in [Deadline -> Usage]
      BY <2>6, <3>3 DEF more
    <3> QED
      BY <3>4, <3>5
  <2>12. next \in [ok : BOOLEAN, schedule : SchedulesIn(Nat), used : [Deadline -> Usage]]
    BY <2>5, <2>7, <2>11 DEF SchedulesIn
  <2> QED
    BY <2>3, <2>4, <2>5, <2>8, <2>9, <2>10, <2>12 DEF Granted
<1>9. ASSUME Climbs(s, list, n + 1), Granted(s, u, at, list, n + 1)
      PROVE  Accepted
  <2>1. Climbs(s, list, n) /\ move.moved_to > MovedTo(s, list, e, n)
    BY <1>7, <1>9
  <2>2. ASSUME NEW d \in Deadline, Naming(list, d, n) # {}
        PROVE  /\ at < s[d]
               /\ u[d].times + TimesBy(list, d, n) <= MaxExtensions
               /\ u[d].seconds + GainedBy(s, list, d, n) <= MaxSeconds
    <3>1. Naming(list, d, n + 1) # {}
      BY <1>1, <2>2
    <3>2. /\ at < s[d]
          /\ u[d].times + TimesBy(list, d, n + 1) <= MaxExtensions
          /\ u[d].seconds + GainedBy(s, list, d, n + 1) <= MaxSeconds
      BY <1>9, <3>1 DEF Granted
    <3>3. TimesBy(list, d, n + 1) >= TimesBy(list, d, n) /\ TimesBy(list, d, n + 1) \in Nat
      BY <1>1
    <3>4. /\ GainedBy(s, list, d, n + 1) >= GainedBy(s, list, d, n)
          /\ GainedBy(s, list, d, n + 1) \in Int /\ GainedBy(s, list, d, n) \in Int
      <4>1. /\ MovedTo(s, list, d, n) \in Nat /\ MovedTo(s, list, d, n + 1) \in Nat
            /\ MovedTo(s, list, d, n + 1) >= MovedTo(s, list, d, n)
        BY <1>1, <2>1
      <4>2. s[d] \in Nat
        BY <1>4
      <4> QED
        BY <4>1, <4>2 DEF GainedBy
    <3> QED
      <4>1. /\ u[d].times \in Nat /\ u[d].seconds \in Nat
            /\ TimesBy(list, d, n) \in Nat
        BY <1>1, <1>4
      <4>2. u[d].times + TimesBy(list, d, n) <= MaxExtensions
        BY <1>0, <3>2, <3>3, <4>1
      <4>3. u[d].seconds + GainedBy(s, list, d, n) <= MaxSeconds
        BY <1>0, <3>2, <3>4, <4>1
      <4> QED
        BY <3>2, <4>2, <4>3
  <2>3. done.ok
    BY <1>2, <2>1, <2>2 DEF Granted
  <2>4. /\ done.schedule[e] = MovedTo(s, list, e, n)
        /\ done.used[e].times = u[e].times + TimesBy(list, e, n)
        /\ done.used[e].seconds = u[e].seconds + GainedBy(s, list, e, n)
    BY <1>1, <1>2, <2>3
  <2>5. Naming(list, e, n + 1) # {}
    BY <1>1
  <2>6. /\ at < s[e]
        /\ u[e].times + TimesBy(list, e, n + 1) <= MaxExtensions
        /\ u[e].seconds + GainedBy(s, list, e, n + 1) <= MaxSeconds
    BY <1>1, <1>9, <2>5 DEF Granted
  <2>7. s[e] <= MovedTo(s, list, e, n)
    BY <1>1, <1>2, <1>4, <2>1 DEF GainedBy
  <2>8. GainedBy(s, list, e, n + 1) = GainedBy(s, list, e, n) + (move.moved_to - MovedTo(s, list, e, n))
    BY <1>1, <1>4 DEF GainedBy
  <2>9. /\ GainedBy(s, list, e, n) \in Int /\ move.moved_to - MovedTo(s, list, e, n) \in Int
        /\ s[e] \in Nat /\ at \in Nat /\ MovedTo(s, list, e, n) \in Nat
    BY <1>1, <1>4 DEF GainedBy
  <2>10. at < done.schedule[e]
    BY <2>4, <2>6, <2>7, <2>9
  <2>11. done.used[e].times < MaxExtensions
    BY <1>0, <1>1, <1>4, <2>4, <2>6
  <2>12. done.used[e].seconds + added <= MaxSeconds
    <3>1. u[e].seconds \in Nat /\ added = move.moved_to - MovedTo(s, list, e, n)
      BY <1>1, <1>4, <2>4
    <3>2. done.used[e].seconds = u[e].seconds + GainedBy(s, list, e, n)
      BY <2>4
    <3> HIDE DEF added
    <3>3. done.used[e].seconds + added = u[e].seconds + GainedBy(s, list, e, n + 1)
      BY <2>8, <2>9, <3>1, <3>2
    <3> QED
      BY <2>6, <3>3
  <2> QED
    BY <2>1, <2>3, <2>4, <2>10, <2>11, <2>12
<1>10. ASSUME Climbs(s, list, n + 1), NEW d \in Deadline
       PROVE  /\ GainedBy(s, list, d, n + 1) >= TimesBy(list, d, n + 1)
              /\ \A i \in Naming(list, d, n + 1) : list[i].moved_to <= MovedTo(s, list, d, n + 1)
  <2>1. Climbs(s, list, n) /\ move.moved_to > MovedTo(s, list, e, n)
    BY <1>7, <1>10
  <2>2. /\ GainedBy(s, list, d, n) >= TimesBy(list, d, n)
        /\ \A i \in Naming(list, d, n) : list[i].moved_to <= MovedTo(s, list, d, n)
    BY <1>2, <2>1
  <2>3. CASE e # d
    BY <1>1, <2>2, <2>3 DEF GainedBy
  <2>4. CASE e = d
    <3>1. GainedBy(s, list, d, n + 1) >= TimesBy(list, d, n + 1)
      BY <1>1, <1>4, <2>1, <2>2, <2>4 DEF GainedBy
    <3>2. ASSUME NEW i \in Naming(list, d, n + 1)
          PROVE  list[i].moved_to <= MovedTo(s, list, d, n + 1)
      <4>1. CASE i = n + 1
        BY <1>1, <2>4, <4>1 DEF move
      <4>2. CASE i \in Naming(list, d, n)
        <5>1. list[i].moved_to \in Nat
          BY <1>0, <1>5, <1>6, <4>2
        <5> QED
          BY <1>1, <2>1, <2>2, <2>4, <4>2, <5>1
      <4> QED
        BY <1>1, <2>4, <4>1, <4>2
    <3> QED
      BY <3>1, <3>2
  <2> QED
    BY <2>3, <2>4
<1>11. CASE Accepted
  BY <1>8, <1>10, <1>11 DEF Outcome, next
<1>12. CASE ~ Accepted
  <2>1. next = [done EXCEPT !.ok = FALSE]
    BY <1>3, <1>12
  <2>2. /\ next \in [ok : BOOLEAN, schedule : SchedulesIn(Nat), used : [Deadline -> Usage]]
        /\ next.ok = FALSE
    BY <1>2, <2>1
  <2>3. ~ (Climbs(s, list, n + 1) /\ Granted(s, u, at, list, n + 1))
    BY <1>9, <1>12
  <2> QED
    BY <1>10, <2>2, <2>3 DEF Outcome, next
<1> QED
  BY <1>11, <1>12

(* The loop's outcome is known after every turn.                            *)
LEMMA EveryTurn ==
    ASSUME NEW s \in SchedulesIn(Nat), NEW u \in [Deadline -> Usage], NEW at \in Nat,
           NEW list \in List
    PROVE  \A n \in 0..Len(list) : Outcome(s, u, at, list, n)
<1> DEFINE B == {n \in 0..Len(list) : Outcome(s, u, at, list, n)}
<1>1. Len(list) \in Nat
  BY DEF List
<1>2. Outcome(s, u, at, list, 0)
  <2>1. Turns(s, u, at, list)[0] = [ok |-> TRUE, schedule |-> s, used |-> u]
    BY LoopIsItsTurns DEF AsFound
  <2>2. \A d \in Deadline : Naming(list, d, 0) = {}
    BY DEF Naming
  <2>3. \A d \in Deadline : TimesBy(list, d, 0) = 0
    BY <2>2, FS_EmptySet DEF TimesBy
  <2>4. \A d \in Deadline : /\ s[d] \in Nat
                            /\ u[d].times \in Nat /\ u[d].seconds \in Nat
    BY ScheduleShape DEF Usage
  <2>5. \A d \in Deadline : MovedTo(s, list, d, 0) = s[d]
    BY <2>2 DEF MovedTo
  <2>6. \A d \in Deadline : GainedBy(s, list, d, 0) = 0
    BY <2>4, <2>5 DEF GainedBy
  <2>7. Climbs(s, list, 0) /\ Granted(s, u, at, list, 0)
    BY <2>2 DEF Climbs, Granted
  <2>8. \A d \in Deadline :
           /\ u[d].times = u[d].times + TimesBy(list, d, 0)
           /\ u[d].seconds = u[d].seconds + GainedBy(s, list, d, 0)
           /\ GainedBy(s, list, d, 0) >= TimesBy(list, d, 0)
    BY <2>3, <2>4, <2>6
  <2> QED
    BY <2>1, <2>2, <2>5, <2>7, <2>8 DEF Outcome
<1>3. ASSUME NEW n \in 0..Len(list), n < Len(list), n \in B
      PROVE  n + 1 \in B
  <2>1. n + 1 \in 0..Len(list)
    BY <1>1, <1>3
  <2> QED
    BY <1>3, <2>1, OneMoreTurn
<1>4. 0 \in B
  BY <1>1, <1>2
<1> HIDE DEF B
<1>5. \A n \in 0..Len(list) : n \in B
  BY <1>1, <1>3, <1>4, UpTo
<1> QED
  BY <1>5 DEF B

(* What the loop comes to, in terms of what the list gains every deadline.  *)
LEMMA ListGains ==
    ASSUME NEW s \in SchedulesIn(Nat), NEW u \in [Deadline -> Usage], NEW at \in Nat,
           NEW list \in List
    PROVE  LET end == Loop(s, u, at, list)
               G   == Gains(s, list)
           IN  /\ end.ok <=> Ascending(s, list) /\ Allowed(s, u, G, at)
               /\ end.ok => /\ end.schedule = Moved(s, G)
                            /\ end.used = Spent(u, G)
                            /\ G \in [Deadline -> Shift]
               /\ list # <<>> => \E d \in Deadline : G[d] # Still
               /\ G = [d \in Deadline |-> [times   |-> TimesBy(list, d, Len(list)),
                                          seconds |-> GainedBy(s, list, d, Len(list))]]
               /\ Ascending(s, list) <=> Climbs(s, list, Len(list))
<1> DEFINE N == Len(list)
           end == Loop(s, u, at, list)
           G == Gains(s, list)
<1>1. N \in Nat /\ DOMAIN list = 1..N
  BY DEF List
<1>2. Outcome(s, u, at, list, N) /\ end = Turns(s, u, at, list)[N]
  BY <1>1, EveryTurn, LoopIsItsTurns
<1>3. /\ end \in [ok : BOOLEAN, schedule : SchedulesIn(Nat), used : [Deadline -> Usage]]
      /\ end.ok <=> Climbs(s, list, N) /\ Granted(s, u, at, list, N)
      /\ end.ok => /\ \A d \in Deadline : end.schedule[d] = MovedTo(s, list, d, N)
                   /\ \A m \in Moment \ Deadline : end.schedule[m] = s[m]
                   /\ \A d \in Deadline :
                         /\ end.used[d].times = u[d].times + TimesBy(list, d, N)
                         /\ end.used[d].seconds = u[d].seconds + GainedBy(s, list, d, N)
      /\ Climbs(s, list, N) => \A d \in Deadline : GainedBy(s, list, d, N) >= TimesBy(list, d, N)
  BY <1>2 DEF Outcome
<1> HIDE DEF end
<1>4. ASSUME NEW d
      PROVE  Of(list, d) = Naming(list, d, N)
  BY <1>1 DEF Of, Naming
<1>5. Ascending(s, list) <=> Climbs(s, list, N)
  BY <1>4 DEF Ascending, Climbs
<1>6. ASSUME NEW d \in Deadline
      PROVE  /\ s[d] \in Nat /\ u[d].times \in Nat /\ u[d].seconds \in Nat
             /\ d \in Moment
             /\ TimesBy(list, d, N) \in Nat /\ MovedTo(s, list, d, N) \in Nat
             /\ TimesBy(list, d, N) = 0 <=> Naming(list, d, N) = {}
             /\ Naming(list, d, N) = {} => GainedBy(s, list, d, N) = 0
             /\ GainedBy(s, list, d, N) \in Int
  <2>1. d \in Moment /\ s[d] \in Nat /\ u[d].times \in Nat /\ u[d].seconds \in Nat
    BY ScheduleShape DEF Usage
  <2>2. N \in 0..Len(list)
    BY <1>1
  <2>3. /\ TimesBy(list, d, N) \in Nat /\ MovedTo(s, list, d, N) \in Nat
        /\ TimesBy(list, d, N) = 0 <=> Naming(list, d, N) = {}
        /\ Naming(list, d, N) = {} => MovedTo(s, list, d, N) = s[d]
    BY <2>2, NamedMoves
  <2> HIDE DEF N
  <2> QED
    BY <2>1, <2>3 DEF GainedBy
<1>7. G = [d \in Deadline |-> [times   |-> TimesBy(list, d, N),
                              seconds |-> GainedBy(s, list, d, N)]]
  <2>1. ASSUME NEW d \in Deadline
        PROVE  (IF Of(list, d) = {} THEN Still
                ELSE [times   |-> Cardinality(Of(list, d)),
                      seconds |-> list[Max(Of(list, d))].moved_to - s[d]])
               = [times |-> TimesBy(list, d, N), seconds |-> GainedBy(s, list, d, N)]
    <3> HIDE DEF N
    <3>1. Of(list, d) = Naming(list, d, N)
      BY <1>4
    <3>2. CASE Naming(list, d, N) = {}
      BY <1>6, <3>1, <3>2 DEF Still
    <3>3. CASE Naming(list, d, N) # {}
      BY <3>1, <3>3 DEF TimesBy, GainedBy, MovedTo
    <3> QED
      BY <3>2, <3>3
  <2> QED
    BY <2>1 DEF Gains
<1> HIDE DEF G, N
<1>8. ASSUME NEW d \in Deadline
      PROVE  /\ G[d].times = TimesBy(list, d, N) /\ G[d].seconds = GainedBy(s, list, d, N)
             /\ G[d] # Still <=> Naming(list, d, N) # {}
  <2>1. G[d] = [times |-> TimesBy(list, d, N), seconds |-> GainedBy(s, list, d, N)]
    BY <1>7
  <2>2. G[d].times = TimesBy(list, d, N) /\ G[d].seconds = GainedBy(s, list, d, N)
    BY <2>1
  <2>3. Naming(list, d, N) = {} => G[d] = Still
    BY <1>6, <2>1 DEF Still
  <2>4. G[d] = Still => G[d].times = 0
    BY DEF Still
  <2> QED
    BY <1>6, <2>2, <2>3, <2>4
<1>9. Allowed(s, u, G, at) <=> Granted(s, u, at, list, N)
  BY <1>8 DEF Allowed, Granted
<1>10. ASSUME end.ok
       PROVE  /\ end.schedule = Moved(s, G)
              /\ end.used = Spent(u, G)
              /\ G \in [Deadline -> Shift]
  <2>1. Climbs(s, list, N) /\ Granted(s, u, at, list, N)
    BY <1>3, <1>10
  <2>2. ASSUME NEW d \in Deadline
        PROVE  /\ G[d].times = TimesBy(list, d, N) /\ G[d].seconds = GainedBy(s, list, d, N)
               /\ GainedBy(s, list, d, N) >= TimesBy(list, d, N)
               /\ end.schedule[d] = s[d] + G[d].seconds
    <3>1. GainedBy(s, list, d, N) >= TimesBy(list, d, N) /\ end.schedule[d] = MovedTo(s, list, d, N)
      BY <1>3, <1>10, <2>1
    <3>2. MovedTo(s, list, d, N) = s[d] + GainedBy(s, list, d, N)
      BY <1>6 DEF GainedBy
    <3> QED
      BY <1>8, <3>1, <3>2
  <2>3. end.schedule = Moved(s, G)
    <3>1. end.schedule \in [Moment -> Nat]
      BY <1>3 DEF SchedulesIn
    <3>2. \A m \in Moment : end.schedule[m] = Moved(s, G)[m]
      BY <1>3, <1>10, <2>2 DEF Moved
    <3> QED
      BY <3>1, <3>2 DEF Moved
  <2>4. end.used = Spent(u, G)
    <3>1. \A d \in Deadline : end.used[d] = [times   |-> u[d].times + G[d].times,
                                            seconds |-> u[d].seconds + G[d].seconds]
      <4> TAKE d \in Deadline
      <4>1. end.used[d] = [times |-> end.used[d].times, seconds |-> end.used[d].seconds]
        BY <1>3 DEF Usage
      <4> QED
        BY <1>3, <1>10, <2>2, <4>1
    <3> QED
      BY <1>3, <3>1 DEF Spent
  <2>5. ASSUME NEW d \in Deadline
        PROVE  G[d] \in Shift
    <3>1. G[d] = [times |-> G[d].times, seconds |-> G[d].seconds]
      BY <1>7
    <3>2. /\ G[d].times \in Nat /\ G[d].seconds \in Int /\ G[d].times <= G[d].seconds
          /\ G[d].times = 0 => G[d].seconds = 0
      BY <1>6, <2>2
    <3>3. G[d].times <= MaxExtensions /\ G[d].seconds <= MaxSeconds
      <4>1. CASE Naming(list, d, N) = {}
        BY <1>6, <2>2, <4>1, PolicyAssumption
      <4>2. CASE Naming(list, d, N) # {}
        <5>1. /\ u[d].times + G[d].times <= MaxExtensions
              /\ u[d].seconds + G[d].seconds <= MaxSeconds
          BY <2>1, <2>2, <4>2 DEF Granted
        <5> QED
          BY <1>6, <3>2, <5>1, PolicyAssumption
      <4> QED
        BY <4>1, <4>2
    <3>4. G[d].times \in 0..MaxExtensions /\ G[d].seconds \in 0..MaxSeconds
      BY <3>2, <3>3, PolicyAssumption
    <3> QED
      BY <3>1, <3>2, <3>4 DEF Shift
  <2>6. G \in [Deadline -> Shift]
    BY <1>7, <2>5
  <2> QED
    BY <2>3, <2>4, <2>6
<1>11. ASSUME list # <<>>
       PROVE  \E d \in Deadline : G[d] # Still
  <2>1. 1 \in 1..N
    BY <1>1, <1>11 DEF List, N
  <2>2. list[1].deadline \in Deadline
    BY <2>1, ListedMoves DEF N
  <2>3. 1 \in Naming(list, list[1].deadline, N)
    BY <2>1 DEF Naming
  <2> QED
    BY <1>8, <2>2, <2>3
<1> QED
  BY <1>3, <1>5, <1>7, <1>9, <1>10, <1>11 DEF end, G, N

(* The loop and its closed form agree on every list, wherever it is found.  *)
LEMMA LoopOutcome ==
    ASSUME NEW s \in SchedulesIn(Nat), NEW u \in [Deadline -> Usage], NEW at \in Nat,
           NEW list \in List
    PROVE  Agree(s, u, at, list)
BY ListGains DEF Agree

\* What a call finds, and what has been written down for it.
MovesTypeOK ==
    /\ called_at \in Nat
    /\ in_force \in SchedulesIn(Nat)
    /\ spent \in [Deadline -> Usage]
    /\ moves \in List

(* The loop of move_deadlines comes to its closed form for every list of    *)
(* moves, of any length, over any of the deadlines and whatever earlier     *)
(* calls left behind.                                                       *)
THEOREM LoopIsItsClosedForm == MovesSpec => []LoopMeetsItsOutcome
<1>1. MovesInit => MovesTypeOK
  BY MovesAssumption DEF MovesInit, MovesTypeOK, List
<1>2. MovesTypeOK /\ [MovesNext]_call => MovesTypeOK'
  <2> SUFFICES ASSUME MovesTypeOK, [MovesNext]_call
               PROVE  MovesTypeOK'
    OBVIOUS
  <2>1. CASE Write
    <3>1. PICK move \in DeadlineMove : moves' = Append(moves, move)
      BY <2>1 DEF Write
    <3> DEFINE Move == [deadline : Deadline, moved_to : Nat]
    <3>2. move \in Move
      BY MovesAssumption DEF DeadlineMove
    <3>3. moves \in Seq(Move)
      BY DEF MovesTypeOK, List
    <3> HIDE DEF Move
    <3>4. Append(moves, move) \in Seq(Move)
      BY <3>2, <3>3
    <3>5. moves' \in List
      BY <3>1, <3>4 DEF List, Move
    <3> QED
      BY <2>1, <3>5 DEF Write, MovesTypeOK
  <2>2. CASE UNCHANGED call
    BY <2>2 DEF call, MovesTypeOK
  <2> QED
    BY <2>1, <2>2 DEF MovesNext
<1>3. MovesTypeOK => LoopMeetsItsOutcome
  BY LoopOutcome DEF MovesTypeOK, LoopMeetsItsOutcome
<1> QED
  BY <1>1, <1>2, <1>3, PTL DEF MovesSpec

\* move_deadlines as the contract runs it, from the list to the stored state.
SendList(list) ==
    LET end == Loop(schedule, used, now, list) IN
    /\ list # <<>>
    /\ phase \notin {"Draft"} \cup Terminal
    /\ end.ok
    /\ Workable(end.schedule)
    /\ schedule' = end.schedule
    /\ used' = end.used
    /\ UNCHANGED <<now, phase, announced, payout, vault_bound, cancellation>>

(* Whatever list a call goes through with, it is the step MoveDeadlines     *)
(* takes for what the list gains: once every deadline may be moved by one   *)
(* call, Lifecycle leaves no call of the contract out.                      *)
THEOREM ListedCallIsAStep ==
    ASSUME TypeOK, Cardinality(Deadline) <= MovesPerCall,
           NEW list \in List, SendList(list)
    PROVE  \E gains \in Calls : MoveDeadlines(gains)
<1> DEFINE G == Gains(schedule, list)
           end == Loop(schedule, used, now, list)
           Touched == {d \in Deadline : G[d] # Still}
<1>1. now \in Nat /\ schedule \in SchedulesIn(Nat) /\ used \in [Deadline -> Usage]
  BY DEF TypeOK
<1>2. /\ list # <<>> /\ end.ok /\ Workable(end.schedule)
      /\ phase \notin {"Draft"} \cup Terminal
      /\ schedule' = end.schedule /\ used' = end.used
      /\ UNCHANGED <<now, phase, announced, payout, vault_bound, cancellation>>
  BY DEF SendList
<1>3. /\ Allowed(schedule, used, G, now)
      /\ end.schedule = Moved(schedule, G) /\ end.used = Spent(used, G)
      /\ G \in [Deadline -> Shift]
      /\ \E d \in Deadline : G[d] # Still
  BY <1>1, <1>2, ListGains
<1> HIDE DEF G, end
<1>4. MoveDeadlines(G)
  BY <1>2, <1>3 DEF MoveDeadlines
<1>5. Cardinality(Touched) \in 1..MovesPerCall
  <2>1. IsFiniteSet(Deadline) /\ Cardinality(Deadline) \in Nat
    <3>1. IsFiniteSet(Deadline)
      BY DeadlinesAreFinite
    <3> QED
      BY <3>1, FS_CardinalityType
  <2>2. IsFiniteSet(Touched) /\ Cardinality(Touched) <= Cardinality(Deadline)
    BY <2>1, FS_Subset
  <2>3. Cardinality(Touched) \in Nat /\ Cardinality(Touched) # 0
    BY <1>3, <2>2, FS_CardinalityType, FS_EmptySet
  <2> QED
    BY <2>1, <2>2, <2>3, RulesAssumption
<1> QED
  BY <1>3, <1>4, <1>5 DEF Calls

(* A move appended to a list that climbs, past where its deadline stands:   *)
(* the list climbs on, and every other deadline stays where it was.         *)
LEMMA OneMoreListed ==
    ASSUME NEW s \in SchedulesIn(Nat), NEW list \in List, Climbs(s, list, Len(list)),
           NEW e \in Deadline, NEW t \in Nat, t > MovedTo(s, list, e, Len(list))
    PROVE  LET more == Append(list, [deadline |-> e, moved_to |-> t]) IN
           /\ more \in List
           /\ Climbs(s, more, Len(more))
           /\ TimesBy(more, e, Len(more)) = TimesBy(list, e, Len(list)) + 1
           /\ GainedBy(s, more, e, Len(more)) = t - s[e]
           /\ \A d \in Deadline \ {e} :
                 /\ TimesBy(more, d, Len(more)) = TimesBy(list, d, Len(list))
                 /\ GainedBy(s, more, d, Len(more)) = GainedBy(s, list, d, Len(list))
<1> DEFINE Move == [deadline : Deadline, moved_to : Nat]
           move == [deadline |-> e, moved_to |-> t]
           more == Append(list, move)
           N    == Len(list)
<1>1. move \in Move /\ move.deadline = e /\ move.moved_to = t /\ list \in Seq(Move)
  BY DEF List
<1> HIDE DEF Move, move
<1>2. /\ more \in Seq(Move) /\ N \in Nat /\ Len(more) = N + 1
      /\ \A i \in 1..N : more[i] = list[i]
      /\ more[N + 1] = move
  BY <1>1
<1>3. more \in List
  BY <1>2 DEF List, Move
<1> HIDE DEF more
<1>4. ASSUME NEW d \in Deadline
      PROVE  /\ Naming(more, d, N) = Naming(list, d, N)
             /\ TimesBy(more, d, N) = TimesBy(list, d, N)
             /\ MovedTo(s, more, d, N) = MovedTo(s, list, d, N)
  <2>1. Naming(more, d, N) = Naming(list, d, N)
    BY <1>2 DEF Naming
  <2> DEFINE P == Naming(list, d, N)
  <2>2. P # {} => Max(P) \in 1..N
    <3>1. N \in 0..Len(list) /\ P \subseteq 1..N
      BY <1>2 DEF Naming
    <3> HIDE DEF N
    <3> QED
      BY <3>1, ListedMax
  <2>3. MovedTo(s, more, d, N) = MovedTo(s, list, d, N)
    BY <1>2, <2>1, <2>2 DEF MovedTo
  <2> QED
    BY <2>1, <2>3 DEF TimesBy
<1>5. Climbs(s, more, N)
  <2>1. \A d \in Deadline : \A i \in Naming(list, d, N) : i \in 1..N
    BY DEF Naming
  <2> QED
    BY <1>2, <1>4, <2>1 DEF Climbs
<1>6. N \in 0..Len(more) /\ N < Len(more)
  BY <1>2
<1>7. Outcome(s, Unused, 0, more, N) /\ Unused \in [Deadline -> Usage]
  <2>1. Unused \in [Deadline -> Usage]
    BY DEF Unused, Usage
  <2> QED
    BY <1>3, <1>6, <2>1, EveryTurn
<1>8. Climbs(s, more, N + 1)
  BY <1>1, <1>2, <1>3, <1>4, <1>5, <1>6, <1>7, OneMoreClimb
<1>9. ASSUME NEW d \in Deadline
      PROVE  /\ d = e => /\ TimesBy(more, d, N + 1) = TimesBy(list, d, N) + 1
                         /\ MovedTo(s, more, d, N + 1) = t
             /\ d # e => /\ TimesBy(more, d, N + 1) = TimesBy(list, d, N)
                         /\ MovedTo(s, more, d, N + 1) = MovedTo(s, list, d, N)
  BY <1>1, <1>2, <1>3, <1>4, <1>6, OneMoreMove
<1> QED
  BY <1>2, <1>3, <1>8, <1>9 DEF GainedBy, more, move

\* A list that makes f[d] of the moves a call gains deadline d: a second each,
\* but for the last, which takes it all the way.
Makes(s, list, gains, f) ==
    /\ list \in List
    /\ Climbs(s, list, Len(list))
    /\ \A d \in Deadline :
          /\ TimesBy(list, d, Len(list)) = f[d]
          /\ GainedBy(s, list, d, Len(list)) =
                IF f[d] = gains[d].times THEN gains[d].seconds ELSE f[d]

(* One more of the moves of one deadline.                                   *)
LEMMA MakesOneMore ==
    ASSUME NEW s \in SchedulesIn(Nat), NEW gains \in Calls, NEW e \in Deadline,
           NEW f \in [Deadline -> Nat], f[e] < gains[e].times,
           \E list : Makes(s, list, gains, f)
    PROVE  \E list : Makes(s, list, gains, [f EXCEPT ![e] = @ + 1])
<1>1. PICK list : Makes(s, list, gains, f)
  OBVIOUS
<1> DEFINE N == Len(list)
           k == f[e] + 1
           t == s[e] + IF k = gains[e].times THEN gains[e].seconds ELSE k
           more == Append(list, [deadline |-> e, moved_to |-> t])
           g == [f EXCEPT ![e] = @ + 1]
<1>2. /\ list \in List /\ Climbs(s, list, N)
      /\ \A d \in Deadline :
            /\ TimesBy(list, d, N) = f[d]
            /\ GainedBy(s, list, d, N) = IF f[d] = gains[d].times THEN gains[d].seconds ELSE f[d]
  BY <1>1 DEF Makes
<1>3. /\ gains[e].times \in Nat /\ gains[e].seconds \in Nat
      /\ gains[e].times <= gains[e].seconds
  BY CallShape
<1>4. s[e] \in Nat /\ f[e] \in Nat /\ k \in Nat
  BY ScheduleShape
<1>5. MovedTo(s, list, e, N) \in Nat
  <2>1. N \in 0..Len(list)
    BY <1>2 DEF List
  <2> HIDE DEF N
  <2> QED
    BY <1>2, <2>1, NamedMoves
<1>6. MovedTo(s, list, e, N) = s[e] + f[e]
  <2>1. GainedBy(s, list, e, N) = f[e]
    BY <1>2, <1>3, <1>4
  <2>2. MovedTo(s, list, e, N) - s[e] = f[e]
    BY <2>1 DEF GainedBy
  <2> HIDE DEF N
  <2> QED
    BY <1>4, <1>5, <2>2
<1>7. t \in Nat /\ t > MovedTo(s, list, e, N)
      /\ t - s[e] = IF k = gains[e].times THEN gains[e].seconds ELSE k
  BY <1>3, <1>4, <1>6
<1>8. /\ g[e] = k /\ \A d \in Deadline \ {e} : g[d] = f[d]
  OBVIOUS
<1> HIDE DEF t, k, g
<1>9. /\ more \in List /\ Climbs(s, more, Len(more))
      /\ TimesBy(more, e, Len(more)) = TimesBy(list, e, N) + 1
      /\ GainedBy(s, more, e, Len(more)) = t - s[e]
      /\ \A d \in Deadline \ {e} :
            /\ TimesBy(more, d, Len(more)) = TimesBy(list, d, N)
            /\ GainedBy(s, more, d, Len(more)) = GainedBy(s, list, d, N)
  BY <1>2, <1>7, OneMoreListed
<1> HIDE DEF more, N
<1>10. ASSUME NEW d \in Deadline
       PROVE  /\ TimesBy(more, d, Len(more)) = g[d]
              /\ GainedBy(s, more, d, Len(more)) =
                    IF g[d] = gains[d].times THEN gains[d].seconds ELSE g[d]
  <2>1. CASE d = e
    BY <1>2, <1>7, <1>8, <1>9, <2>1 DEF k
  <2>2. CASE d # e
    BY <1>2, <1>8, <1>9, <2>2
  <2> QED
    BY <2>1, <2>2
<1>11. Makes(s, more, gains, g)
  BY <1>9, <1>10 DEF Makes
<1> QED
  BY <1>11 DEF g

(* Every call has a list that makes all of its moves.                       *)
LEMMA EveryCallHasAList ==
    ASSUME NEW s \in SchedulesIn(Nat), NEW gains \in Calls
    PROVE  \E list : Makes(s, list, gains, [d \in Deadline |-> gains[d].times])
<1> DEFINE All(T) == [d \in Deadline |-> IF d \in T THEN gains[d].times ELSE 0]
           B == {T \in SUBSET Deadline : \E list : Makes(s, list, gains, All(T))}
<1>1. \A d \in Deadline : /\ gains[d].times \in Nat
                          /\ gains[d].times = 0 => gains[d].seconds = 0
  BY CallShape
<1>2. {} \in B
  <2>1. <<>> \in List /\ Len(<<>>) = 0
    BY DEF List
  <2>2. \A d \in Deadline : Naming(<<>>, d, 0) = {}
    BY DEF Naming
  <2>3. \A d \in Deadline : TimesBy(<<>>, d, 0) = 0
    BY <2>2, FS_EmptySet DEF TimesBy
  <2>4. \A d \in Deadline : s[d] \in Nat /\ MovedTo(s, <<>>, d, 0) = s[d]
    BY <2>2, ScheduleShape DEF MovedTo
  <2>5. \A d \in Deadline : GainedBy(s, <<>>, d, 0) = 0
    BY <2>4 DEF GainedBy
  <2>6. Climbs(s, <<>>, 0)
    BY <2>2 DEF Climbs
  <2>7. Makes(s, <<>>, gains, All({}))
    BY <1>1, <2>1, <2>3, <2>5, <2>6 DEF Makes
  <2> QED
    BY <2>7
<1>3. ASSUME NEW T \in SUBSET Deadline, NEW e \in Deadline, T \in B, e \notin T
      PROVE  T \cup {e} \in B
  <2> DEFINE M == gains[e].times
             Upto(k) == [All(T) EXCEPT ![e] = k]
             C == {k \in 0..M : \E list : Makes(s, list, gains, Upto(k))}
  <2>1. M \in Nat
    BY <1>1
  <2>2. Upto(0) = All(T)
    BY <1>3
  <2>3. 0 \in C
    BY <1>3, <2>1, <2>2
  <2>4. ASSUME NEW k \in 0..M, k < M, k \in C
        PROVE  k + 1 \in C
    <3> DEFINE f == Upto(k)
    <3>1. \E list : Makes(s, list, gains, f)
      BY <2>4
    <3>2. f \in [Deadline -> Nat] /\ f[e] = k
      BY <1>1, <2>1, <2>4
    <3>3. Upto(k + 1) = [f EXCEPT ![e] = @ + 1]
      OBVIOUS
    <3> HIDE DEF f, Upto
    <3>4. \E list : Makes(s, list, gains, [f EXCEPT ![e] = @ + 1])
      BY <2>4, <3>1, <3>2, MakesOneMore
    <3> QED
      BY <2>1, <2>4, <3>3, <3>4
  <2>5. M \in C
    <3> HIDE DEF C, M
    <3>1. \A k \in 0..M : k \in C
      BY <2>1, <2>3, <2>4, UpTo
    <3> QED
      BY <2>1, <3>1
  <2>6. Upto(M) = All(T \cup {e})
    OBVIOUS
  <2> QED
    BY <2>5, <2>6
<1>4. Deadline \in B
  <2>1. IsFiniteSet(Deadline)
    BY DeadlinesAreFinite
  <2> HIDE DEF B
  <2> QED
    BY <1>2, <1>3, <2>1, SetInduction
<1>5. All(Deadline) = [d \in Deadline |-> gains[d].times]
  OBVIOUS
<1> QED
  BY <1>4, <1>5

(* And the other way round: every call MoveDeadlines takes is a list the    *)
(* contract goes through with, so Lifecycle adds no call of its own.        *)
THEOREM EveryStepIsAListedCall ==
    ASSUME TypeOK, NEW gains \in Calls, MoveDeadlines(gains)
    PROVE  \E list \in List : SendList(list)
<1>1. now \in Nat /\ schedule \in SchedulesIn(Nat) /\ used \in [Deadline -> Usage]
  BY DEF TypeOK
<1>2. PICK list : Makes(schedule, list, gains, [d \in Deadline |-> gains[d].times])
  BY <1>1, EveryCallHasAList
<1> DEFINE N == Len(list)
           G == Gains(schedule, list)
           end == Loop(schedule, used, now, list)
<1>3. /\ list \in List /\ Climbs(schedule, list, N)
      /\ \A d \in Deadline : /\ TimesBy(list, d, N) = gains[d].times
                             /\ GainedBy(schedule, list, d, N) = gains[d].seconds
  BY <1>2 DEF Makes
<1>4. /\ end.ok <=> Climbs(schedule, list, N) /\ Allowed(schedule, used, G, now)
      /\ end.ok => end.schedule = Moved(schedule, G) /\ end.used = Spent(used, G)
      /\ G = [d \in Deadline |-> [times   |-> TimesBy(list, d, N),
                                  seconds |-> GainedBy(schedule, list, d, N)]]
  BY <1>1, <1>3, ListGains
<1> HIDE DEF G, end, N
<1>5. G = gains
  <2>1. \A d \in Deadline : gains[d] = [times |-> gains[d].times, seconds |-> gains[d].seconds]
    BY CallShape
  <2>2. gains = [d \in Deadline |-> gains[d]]
    BY DEF Calls
  <2>3. \A d \in Deadline : G[d] = gains[d]
    BY <1>3, <1>4, <2>1
  <2> QED
    BY <1>4, <2>2, <2>3
<1>6. /\ phase \notin {"Draft"} \cup Terminal
      /\ Allowed(schedule, used, gains, now) /\ Workable(Moved(schedule, gains))
      /\ schedule' = Moved(schedule, gains) /\ used' = Spent(used, gains)
      /\ UNCHANGED <<now, phase, announced, payout, vault_bound, cancellation>>
  BY DEF MoveDeadlines
<1>7. list # <<>>
  <2> SUFFICES ASSUME list = <<>> PROVE FALSE
    OBVIOUS
  <2>1. N = 0
    BY DEF N
  <2>2. \A d \in Deadline : TimesBy(list, d, N) = 0
    BY <2>1, FS_EmptySet DEF TimesBy, Naming
  <2>3. \A d \in Deadline : gains[d] = Still
    <3> TAKE d \in Deadline
    <3>1. gains[d].times = 0
      BY <1>3, <2>2
    <3> QED
      BY <3>1, CallShape DEF Still
  <2>4. {d \in Deadline : gains[d] # Still} = {}
    BY <2>3
  <2> QED
    BY <2>4, FS_EmptySet DEF Calls
<1>8. /\ end.ok /\ end.schedule = Moved(schedule, gains) /\ end.used = Spent(used, gains)
  BY <1>3, <1>4, <1>5, <1>6
<1>9. SendList(list)
  BY <1>6, <1>7, <1>8 DEF SendList, end
<1> QED
  BY <1>3, <1>9

=============================================================================
