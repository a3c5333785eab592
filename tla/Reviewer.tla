------------------------------ MODULE Reviewer ------------------------------
(***************************************************************************)
(* The first read of every entry: the queue the judges' panel writes to    *)
(* (frontend/app/api/ai-review), the tables behind it                      *)
(* (migrations/20260929010000_ai_review.sql) and the service that carries  *)
(* a run out slice by slice (backend/reviewer).  The service may stop at   *)
(* any step, and so may the database, GitHub or the model under it; what   *)
(* is in the tables is all that is left then.                              *)
(*                                                                         *)
(* What a review says is left out, but for whether the model's answer      *)
(* could be scored.  Runs are numbered in the order they were requested.   *)
(***************************************************************************)
EXTENDS Integers, Sequences, FiniteSets

CONSTANTS
    Event, Team,  \* hackathons, and the teams that entered each of them
    Stage,        \* quick and deep
    Chunk,        \* settings.chunk, the projects of one batch
    Picks,        \* bound: the selections of teams a run is asked for
    MaxRuns,      \* bound: the runs requested
    MaxFaults     \* bound: crashes and failed calls

ASSUME ReviewerAssumption ==
    /\ IsFiniteSet(Team)
    /\ Chunk \in Nat \ {0}
    /\ Picks \subseteq (SUBSET Team) \ {{}}
    /\ MaxRuns \in Nat
    /\ MaxFaults \in Nat

VARIABLES
    valid,     \* the entries of an event still in the running (submissions)
    runs,      \* ai_review_runs, oldest first
    reviews,   \* ai_reviews: who wrote the row, and how the reading went
    criteria,  \* ai_review_criteria: the run whose scores stand there
    service,   \* what the process holds in memory
    faults     \* how often something failed

tables == <<runs, reviews, criteria>>
vars   == <<valid, tables, service, faults>>

-----------------------------------------------------------------------------

Key == Event \X Team \X Stage
Run == DOMAIN runs
KeyOf(r, t) == <<runs[r].event, t, runs[r].stage>>

InFlight == {"queued", "running"}
Waiting(r) == runs[r].status \in InFlight

NoReview == [run |-> 0, status |-> "none"]

\* Where the process is, and what it remembers of the run it carries.
At == {"starting", "sending", "announcing", "waiting", "clearing", "saving",
       "listing", "counting", "finishing", "failing"}
Resting(at) == [at |-> at, run |-> 0, total |-> 0, waiting |-> {}, slice |-> {}, writing |-> {}]

Working == service.at \in At
Done    == service.total - Cardinality(service.waiting) - Cardinality(service.slice)

RunRow == [event : Event, stage : Stage, teams : SUBSET Team,
           status : InFlight \cup {"finished", "failed"}, total : Nat, done : Nat]

ReviewerTypeOK ==
    /\ valid \in [Event -> SUBSET Team]
    /\ runs \in Seq(RunRow)
    /\ Len(runs) <= MaxRuns
    /\ reviews \in [Key -> [run : 0..MaxRuns, status : {"none", "reviewed", "unscored"}]]
    /\ criteria \in [Key -> 0..MaxRuns]
    /\ service \in [at : At \cup {"idle", "down"}, run : 0..MaxRuns, total : Nat,
                    waiting : SUBSET Team, slice : SUBSET Team, writing : SUBSET Team]
    /\ faults \in 0..MaxFaults

ReviewerInit ==
    /\ valid = [e \in Event |-> Team]
    /\ runs = <<>>
    /\ reviews = [k \in Key |-> NoReview]
    /\ criteria = [k \in Key |-> 0]
    /\ service = Resting("idle")
    /\ faults = 0

-----------------------------------------------------------------------------
(* The panel and the contest. *)

(* POST, action start: every valid entry, or the teams somebody picked.     *)
(* The index ai_review_runs_one_in_flight refuses a second press.           *)
Request(e, s, teams) ==
    /\ Len(runs) < MaxRuns
    /\ \A r \in Run : runs[r].event = e => ~ Waiting(r)
    /\ runs' = Append(runs, [event |-> e, stage |-> s, teams |-> teams,
                             status |-> "queued", total |-> 0, done |-> 0])
    /\ UNCHANGED <<valid, reviews, criteria, service, faults>>

(* The indexer reads that an entry was struck out. *)
Strike(e, t) ==
    /\ t \in valid[e]
    /\ valid' = [valid EXCEPT ![e] = @ \ {t}]
    /\ UNCHANGED <<tables, service, faults>>

-----------------------------------------------------------------------------
(* Carrying a run out. *)

Oldest(r) == Waiting(r) /\ \A q \in Run : Waiting(q) => r <= q

(* projectsOf *)
Projects(r) == valid[runs[r].event] \cap runs[r].teams

\* Mutant of AlreadyReviewed: whoever holds a review of this stage is skipped.
AlreadyReviewedByAnyone(r) == {t \in Team : reviews[KeyOf(r, t)].run # 0}

(* alreadyReviewed: the teams this very run wrote a row for *)
AlreadyReviewed(r) == {t \in Team : reviews[KeyOf(r, t)].run = r}

(* nextRun, and the reading carryOut starts with.  A run found running is   *)
(* one this process was carrying when it stopped.                           *)
PickUp(r) ==
    /\ service.at = "idle"
    /\ Oldest(r)
    /\ service' = [Resting("starting") EXCEPT
                     !.run = r,
                     !.total = Cardinality(Projects(r)),
                     !.waiting = Projects(r) \ AlreadyReviewed(r)]
    /\ UNCHANGED <<valid, tables, faults>>

To(at) == [service EXCEPT !.at = at]
NextSlice == To(IF service.waiting = {} THEN "finishing" ELSE "sending")

(* started.  The total is counted anew and done is left as it was: the      *)
(* constraint ai_review_runs_progress refuses a total below it.             *)
Started ==
    /\ service.at = "starting"
    /\ IF runs[service.run].done <= service.total
       THEN /\ runs' = [runs EXCEPT ![service.run] = [@ EXCEPT !.status = "running",
                                                               !.total = service.total]]
            /\ service' = NextSlice
       ELSE /\ runs' = runs
            /\ service' = To("failing")
    /\ UNCHANGED <<valid, reviews, criteria, faults>>

(* prepare and submit: the next slice goes to the model as one batch *)
Send ==
    /\ service.at = "sending"
    /\ \E slice \in SUBSET service.waiting :
          /\ \/ Cardinality(slice) = Chunk
             \/ slice = service.waiting /\ Cardinality(slice) < Chunk
          /\ service' = [service EXCEPT !.at = "announcing",
                                        !.waiting = @ \ slice, !.slice = slice]
    /\ UNCHANGED <<valid, tables, faults>>

(* progressed, with the batch to wait for *)
Announce ==
    /\ service.at = "announcing"
    /\ runs' = [runs EXCEPT ![service.run].done = Done]
    /\ service' = To("waiting")
    /\ UNCHANGED <<valid, reviews, criteria, faults>>

(* ended and outcomes: the batch is asked for until it has ended *)
BatchEnds ==
    /\ service.at = "waiting"
    /\ service' = To("clearing")
    /\ UNCHANGED <<valid, tables, faults>>

\* Once a project is written the next of the slice is; then the slice is counted.
Written ==
    [service EXCEPT !.at = IF service.slice = service.writing THEN "counting" ELSE "clearing",
                    !.slice = @ \ service.writing, !.writing = {}]

(* write: first the lines an earlier review of this stage left go *)
Clear(t) ==
    /\ service.at = "clearing"
    /\ t \in service.slice
    /\ criteria' = [criteria EXCEPT ![KeyOf(service.run, t)] = 0]
    /\ service' = [service EXCEPT !.at = "saving", !.writing = {t}]
    /\ UNCHANGED <<valid, runs, reviews, faults>>

(* write: then the row is replaced, whatever the model answered, or did not *)
Save(t, status) ==
    /\ service.at = "saving"
    /\ service.writing = {t}
    /\ reviews' = [reviews EXCEPT ![KeyOf(service.run, t)] = [run |-> service.run, status |-> status]]
    /\ service' = IF status = "reviewed" THEN To("listing") ELSE Written
    /\ UNCHANGED <<valid, runs, criteria, faults>>

(* write: and the lines of an answer that could be scored come last *)
List(t) ==
    /\ service.at = "listing"
    /\ service.writing = {t}
    /\ criteria' = [criteria EXCEPT ![KeyOf(service.run, t)] = service.run]
    /\ service' = Written
    /\ UNCHANGED <<valid, runs, reviews, faults>>

(* progressed, once the slice is written *)
Count ==
    /\ service.at = "counting"
    /\ runs' = [runs EXCEPT ![service.run].done = Done]
    /\ service' = NextSlice
    /\ UNCHANGED <<valid, reviews, criteria, faults>>

Ends(status) == runs' = [runs EXCEPT ![service.run].status = status]

(* finished; drain then asks for the next run *)
Finish ==
    /\ service.at = "finishing"
    /\ Ends("finished")
    /\ service' = Resting("idle")
    /\ UNCHANGED <<valid, reviews, criteria, faults>>

\* Mutant of Fail: the reason is logged and the run is left as it was.
FailSilently ==
    /\ service.at = "failing"
    /\ service' = Resting("idle")
    /\ UNCHANGED <<valid, tables, faults>>

(* failed: carryOut caught something *)
Fail ==
    /\ service.at = "failing"
    /\ Ends("failed")
    /\ service' = Resting("idle")
    /\ UNCHANGED <<valid, reviews, criteria, faults>>

-----------------------------------------------------------------------------
(* What goes wrong. *)

Fault == faults < MaxFaults /\ faults' = faults + 1

(* A call throws, in effect or not: what it wrote may stand.  carryOut      *)
(* catches it; what throws while the failure is being noted reaches the     *)
(* loop of index.ts, which looks at the queue again.                        *)
Throw ==
    /\ Fault
    /\ Working
    /\ service' = IF service.at = "failing" THEN Resting("idle") ELSE To("failing")
    /\ UNCHANGED <<valid, tables>>

(* The answer to the last update of a run is lost, and it is noted as failed. *)
LoseTheEnd ==
    /\ Fault
    /\ service.at = "finishing"
    /\ Ends("finished")
    /\ service' = To("failing")
    /\ UNCHANGED <<valid, reviews, criteria>>

Crash ==
    /\ Fault
    /\ service.at # "down"
    /\ service' = Resting("down")
    /\ UNCHANGED <<valid, tables>>

Restart ==
    /\ service.at = "down"
    /\ service' = Resting("idle")
    /\ UNCHANGED <<valid, tables, faults>>

-----------------------------------------------------------------------------

Step ==
    \/ \E r \in Run : PickUp(r)
    \/ Started \/ Send \/ Announce \/ BatchEnds
    \/ \E t \in Team : \/ Clear(t)
                       \/ \E status \in {"reviewed", "unscored"} : Save(t, status)
                       \/ List(t)
    \/ Count \/ Finish \/ Fail \/ Restart

ReviewerNext ==
    \/ \E e \in Event, s \in Stage, teams \in Picks : Request(e, s, teams)
    \/ \E e \in Event, t \in Team : Strike(e, t)
    \/ Step
    \/ Throw \/ LoseTheEnd \/ Crash

(* The process runs on, is started again when it stops, and a batch ends in *)
(* the end: the API gives every batch a day.                                *)
ReviewerSpec == ReviewerInit /\ [][ReviewerNext]_vars /\ WF_vars(Step)

-----------------------------------------------------------------------------
(***************************************************************************)
(* What the judges are promised.                                           *)
(***************************************************************************)

(* The progress the panel draws stays within the constraint                 *)
(* ai_review_runs_progress, so no update of it is refused but the one       *)
(* Started answers for.                                                     *)
ProgressInRange == \A r \in Run : runs[r].done <= runs[r].total

(* A rubric line stands only beside the review it belongs to, never under a *)
(* later review of the same project; and a run that says it is finished has *)
(* left no project out that is still in the running: each one it was asked  *)
(* for holds its review of that stage, or that of a later run.              *)
LinesBelong ==
    \A k \in Key : criteria[k] # 0 => reviews[k] = [run |-> criteria[k], status |-> "reviewed"]

FinishedIsComplete ==
    \A r \in Run : runs[r].status = "finished" =>
        \A t \in Projects(r) : reviews[KeyOf(r, t)].run >= r

ReviewsFollowTheirRuns == ProgressInRange /\ LinesBelong /\ FinishedIsComplete

(* A project this run already wrote is not paid for again, however often    *)
(* the service was stopped (index.ts).                                      *)
NotSentTwice ==
    [][\A t \in service'.slice \ service.slice :
          reviews[KeyOf(service'.run, t)].run # service'.run]_vars

(* Every run that was asked for ends, so the one-in-flight index does not   *)
(* keep the judges from asking again.                                       *)
RunsEnd == \A r \in 1..MaxRuns : [](r \in Run => <>(r \in Run /\ ~ Waiting(r)))

=============================================================================
