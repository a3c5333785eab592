-------------------------- MODULE Reviewer_proofs --------------------------
(***************************************************************************)
(* Proofs about Reviewer, for any number of events, teams and runs, and    *)
(* however often the service stops.                                        *)
(***************************************************************************)
EXTENDS Reviewer, FiniteSetTheorems, TLAPS

-----------------------------------------------------------------------------
(***************************************************************************)
(* The invariant: only the last run of an event is in flight; the run the  *)
(* process carries is in flight, and each project of it is still to be     *)
(* sent, in the slice, or written by this run.                             *)
(***************************************************************************)

OnlyTheLast ==
    \A q, r \in Run : q < r /\ runs[q].event = runs[r].event => ~ Waiting(q)

Busy == At \ {"failing"}

\* A project of the carried run is in one place only.
Sorted ==
    service.at \in Busy =>
        /\ Waiting(service.run)
        /\ service.waiting \cap service.slice = {}
        /\ \A t \in Projects(service.run) :
              t \in service.waiting \cup service.slice
              \/ reviews[KeyOf(service.run, t)].run = service.run
        /\ \A t \in service.waiting : reviews[KeyOf(service.run, t)].run # service.run

\* The count behind the progress never runs out.
Counted ==
    service.at \in Busy =>
        /\ Cardinality(service.waiting) + Cardinality(service.slice) <= service.total
        /\ service.at # "starting" => runs[service.run].total = service.total

\* What each place in carryOut and in write knows.
Located ==
    /\ Working => service.run \in Run
    /\ service.at \in {"starting", "sending", "counting", "finishing"} => service.slice = {}
    /\ service.at = "finishing" => service.waiting = {}
    /\ service.at \in {"saving", "listing"} =>
          \E t \in service.slice : service.writing = {t} /\ criteria[KeyOf(service.run, t)] = 0
    /\ service.at = "listing" =>
          \A t \in service.writing :
              reviews[KeyOf(service.run, t)] = [run |-> service.run, status |-> "reviewed"]

ReviewerInv ==
    /\ ReviewerTypeOK
    /\ OnlyTheLast /\ Sorted /\ Counted /\ Located
    /\ ProgressInRange /\ LinesBelong /\ FinishedIsComplete

\* The type of the process's memory.
ServiceType ==
    [at : At \cup {"idle", "down"}, run : 0..MaxRuns, total : Nat,
     waiting : SUBSET Team, slice : SUBSET Team, writing : SUBSET Team]

-----------------------------------------------------------------------------
(* Small facts. *)

(* Every set of teams is finite, and its parts are no larger. *)
LEMMA TeamsAreCounted ==
    ASSUME NEW S \in SUBSET Team, NEW T \in SUBSET S
    PROVE  /\ IsFiniteSet(S)
           /\ Cardinality(S) \in Nat
           /\ Cardinality(T) \in Nat
           /\ Cardinality(T) <= Cardinality(S)
           /\ Cardinality(S \ T) = Cardinality(S) - Cardinality(T)
<1>1. IsFiniteSet(Team)
  BY ReviewerAssumption
<1>2. IsFiniteSet(S)
  BY <1>1, FS_Subset
<1>3. IsFiniteSet(T) /\ Cardinality(T) <= Cardinality(S)
  BY <1>2, FS_Subset
<1>4. Cardinality(S) \in Nat /\ Cardinality(T) \in Nat
  BY <1>2, <1>3, FS_CardinalityType
<1>5. Cardinality(S \ T) = Cardinality(S) - Cardinality(S \cap T)
  BY <1>2, FS_Difference
<1>6. S \cap T = T
  OBVIOUS
<1> QED
  BY <1>2, <1>3, <1>4, <1>5, <1>6

(* An update of one row of ai_review_runs. *)
LEMMA OneRow ==
    ASSUME ReviewerTypeOK, NEW r \in Run, NEW row \in RunRow,
           runs' = [runs EXCEPT ![r] = row]
    PROVE  /\ runs' \in Seq(RunRow)
           /\ Len(runs') = Len(runs)
           /\ Run' = Run
           /\ runs'[r] = row
           /\ \A q \in Run : q # r => runs'[q] = runs[q]
BY DEF ReviewerTypeOK, Run

(* The rows are records of RunRow, and the places of the rows are numbers. *)
LEMMA Rows ==
    ASSUME ReviewerTypeOK
    PROVE  /\ Run = 1..Len(runs)
           /\ Run \subseteq 1..MaxRuns
           /\ \A r \in Run : runs[r] \in RunRow
           /\ \A r \in Run, t \in Team : KeyOf(r, t) \in Key
<1>1. Len(runs) \in Nat /\ Len(runs) <= MaxRuns /\ MaxRuns \in Nat
  BY ReviewerAssumption DEF ReviewerTypeOK
<1>2. Run = 1..Len(runs) /\ Run \subseteq 1..MaxRuns
  BY <1>1 DEF ReviewerTypeOK, Run
<1>3. \A r \in Run : runs[r] \in RunRow
  BY <1>2 DEF ReviewerTypeOK
<1>4. \A r \in Run, t \in Team : KeyOf(r, t) \in Key
  BY <1>3 DEF KeyOf, Key, RunRow
<1> QED
  BY <1>2, <1>3, <1>4

(* A key names its event and its team. *)
LEMMA KeysApart ==
    ASSUME NEW q, NEW r, NEW s, NEW t, KeyOf(q, s) = KeyOf(r, t)
    PROVE  runs[q].event = runs[r].event /\ s = t
BY DEF KeyOf

LEMMA ProjectsAreTeams ==
    ASSUME ReviewerTypeOK, NEW r \in Run
    PROVE  Projects(r) \in SUBSET Team
<1>1. runs[r] \in RunRow
  BY Rows
<1> QED
  BY <1>1 DEF Projects, RunRow

-----------------------------------------------------------------------------
(* The steps. *)

TableFacts == OnlyTheLast /\ ProgressInRange /\ LinesBelong /\ FinishedIsComplete

\* What a step that leaves the tables alone has to show.
LEMMA TablesStand ==
    ASSUME TableFacts, UNCHANGED <<valid, tables>>
    PROVE  TableFacts'
BY DEF TableFacts, tables, OnlyTheLast, ProgressInRange, LinesBelong, FinishedIsComplete,
   Run, Waiting, Projects, KeyOf

\* At rest nothing is known and nothing is needed.
LEMMA AtRest ==
    ASSUME NEW at \in {"idle", "down"}, service' = Resting(at)
    PROVE  /\ Sorted' /\ Counted' /\ Located'
           /\ service' \in [at : At \cup {"idle", "down"}, run : 0..MaxRuns, total : Nat,
                            waiting : SUBSET Team, slice : SUBSET Team, writing : SUBSET Team]
BY ReviewerAssumption DEF Resting, Sorted, Counted, Located, Busy, Working, At

LEMMA InvInit == ReviewerInit => ReviewerInv
<1> SUFFICES ASSUME ReviewerInit
             PROVE  ReviewerInv
  OBVIOUS
<1>1. ReviewerTypeOK
  BY ReviewerAssumption DEF ReviewerInit, ReviewerTypeOK, NoReview, Resting
<1>2. Sorted /\ Counted /\ Located
  BY DEF ReviewerInit, Resting, Sorted, Counted, Located, Busy, Working, At
<1>3. OnlyTheLast /\ ProgressInRange /\ LinesBelong /\ FinishedIsComplete
  BY DEF ReviewerInit, OnlyTheLast, ProgressInRange, LinesBelong, FinishedIsComplete, Run
<1> QED
  BY <1>1, <1>2, <1>3 DEF ReviewerInv

(* A run is requested when no run of its event is in flight. *)
LEMMA RequestStep ==
    ASSUME ReviewerInv, NEW e \in Event, NEW s \in Stage, NEW teams \in Picks,
           Request(e, s, teams)
    PROVE  ReviewerInv'
<1> DEFINE row == [event |-> e, stage |-> s, teams |-> teams,
                   status |-> "queued", total |-> 0, done |-> 0]
<1>1. ReviewerTypeOK /\ row \in RunRow /\ runs \in Seq(RunRow)
  BY ReviewerAssumption DEF ReviewerInv, ReviewerTypeOK, RunRow, InFlight
<1>2. /\ runs' = Append(runs, row)
      /\ UNCHANGED <<valid, reviews, criteria, service, faults>>
      /\ Len(runs) < MaxRuns
      /\ \A r \in Run : runs[r].event = e => ~ Waiting(r)
  BY DEF Request
<1> HIDE DEF row
<1>3. /\ runs' \in Seq(RunRow)
      /\ Len(runs') = Len(runs) + 1
      /\ Run' = Run \cup {Len(runs) + 1}
      /\ runs'[Len(runs) + 1] = row
      /\ \A r \in Run : runs'[r] = runs[r]
  BY <1>1, <1>2 DEF Run
<1>4. row.event = e /\ row.status = "queued" /\ row.total = 0 /\ row.done = 0
  BY DEF row
<1>5. Run = 1..Len(runs) /\ Len(runs) \in Nat /\ MaxRuns \in Nat
  BY <1>1, ReviewerAssumption DEF Run
<1>6. \A r \in Run : (Waiting(r))' = Waiting(r) /\ Projects(r)' = Projects(r)
                     /\ \A t : KeyOf(r, t)' = KeyOf(r, t)
  BY <1>2, <1>3 DEF Waiting, Projects, KeyOf
<1>7. ReviewerTypeOK'
  BY <1>1, <1>2, <1>3, <1>5 DEF ReviewerTypeOK
<1>8. OnlyTheLast'
  <2> SUFFICES ASSUME NEW q \in Run', NEW r \in Run', q < r, runs'[q].event = runs'[r].event
               PROVE  ~ (Waiting(q))'
    BY DEF OnlyTheLast
  <2>1. q \in Run
    BY <1>3, <1>5
  <2>2. CASE r \in Run
    BY <2>1, <2>2, <1>3, <1>6 DEF OnlyTheLast, ReviewerInv
  <2>3. CASE r = Len(runs) + 1
    BY <2>1, <2>3, <1>2, <1>3, <1>4, <1>6
  <2> QED
    BY <2>2, <2>3, <1>3
<1>9. service.at \in At => service.run \in Run
  BY DEF ReviewerInv, Located, Working
<1>10. Sorted' /\ Counted'
  <2> SUFFICES ASSUME service.at \in Busy
               PROVE  Sorted' /\ Counted'
    BY <1>2 DEF Sorted, Counted
  <2>1. service.run \in Run
    BY <1>9 DEF Busy
  <2>2. /\ (Waiting(service.run))' = Waiting(service.run)
        /\ Projects(service.run)' = Projects(service.run)
        /\ \A t : KeyOf(service.run, t)' = KeyOf(service.run, t)
        /\ runs'[service.run] = runs[service.run]
    BY <1>2, <1>3, <1>6, <2>1 DEF Waiting, Projects, KeyOf
  <2>3. Sorted'
    BY <1>2, <2>2 DEF ReviewerInv, Sorted
  <2>4. Counted'
    BY <1>2, <2>2 DEF ReviewerInv, Counted
  <2> QED
    BY <2>3, <2>4
<1>11. Located'
  BY <1>2, <1>3, <1>6, <1>9 DEF ReviewerInv, Located, Working, At
<1>12. ProgressInRange' /\ LinesBelong'
  <2>1. \A r \in Run : runs'[r].done <= runs'[r].total
    BY <1>3 DEF ReviewerInv, ProgressInRange
  <2>2. ProgressInRange'
    BY <1>3, <1>4, <2>1 DEF ProgressInRange
  <2>3. LinesBelong'
    BY <1>2 DEF ReviewerInv, LinesBelong
  <2> QED
    BY <2>2, <2>3
<1>13. FinishedIsComplete'
  BY <1>2, <1>3, <1>4, <1>6 DEF ReviewerInv, FinishedIsComplete
<1> QED
  BY <1>7, <1>8, <1>10, <1>11, <1>12, <1>13 DEF ReviewerInv

(* An entry struck out is one project fewer. *)
LEMMA StrikeStep ==
    ASSUME ReviewerInv, NEW e \in Event, NEW t \in Team, Strike(e, t)
    PROVE  ReviewerInv'
<1>1. /\ valid' = [valid EXCEPT ![e] = @ \ {t}]
      /\ UNCHANGED <<runs, reviews, criteria, service, faults>>
      /\ valid \in [Event -> SUBSET Team]
  BY DEF Strike, tables, ReviewerInv, ReviewerTypeOK
<1>2. /\ valid' \in [Event -> SUBSET Team]
      /\ \A f \in Event : valid'[f] \subseteq valid[f]
  BY <1>1
<1>3. \A r \in Run : runs[r].event \in Event
  BY Rows DEF ReviewerInv, RunRow
<1>4. \A r \in Run : Projects(r)' \subseteq Projects(r)
  BY <1>1, <1>2, <1>3 DEF Projects
<1>5. ReviewerTypeOK'
  BY <1>1, <1>2 DEF ReviewerInv, ReviewerTypeOK
<1>6. OnlyTheLast' /\ ProgressInRange' /\ LinesBelong' /\ Counted' /\ Located'
  BY <1>1 DEF ReviewerInv, OnlyTheLast, ProgressInRange, LinesBelong, Counted, Located,
     Run, Waiting, Working, KeyOf
<1>7. Sorted'
  <2>1. service.at \in Busy => service.run \in Run
    BY DEF ReviewerInv, Located, Working, Busy
  <2>2. \A r, s : KeyOf(r, s)' = KeyOf(r, s) /\ Waiting(r)' = Waiting(r)
    BY <1>1 DEF KeyOf, Waiting
  <2> QED
    BY <1>1, <1>4, <2>1, <2>2 DEF ReviewerInv, Sorted
<1>8. FinishedIsComplete'
  <2>1. \A r, s : KeyOf(r, s)' = KeyOf(r, s)
    BY <1>1 DEF KeyOf
  <2>2. Run' = Run
    BY <1>1 DEF Run
  <2> QED
    BY <1>1, <1>4, <2>1, <2>2 DEF ReviewerInv, FinishedIsComplete
<1> QED
  BY <1>5, <1>6, <1>7, <1>8 DEF ReviewerInv

(* The oldest run in flight is taken up, without what it already wrote. *)
LEMMA PickUpStep ==
    ASSUME ReviewerInv, NEW r \in Run, PickUp(r)
    PROVE  ReviewerInv'
<1> DEFINE todo == Projects(r) \ AlreadyReviewed(r)
<1>1. ReviewerTypeOK /\ TableFacts
  BY DEF ReviewerInv, TableFacts
<1>2. Projects(r) \in SUBSET Team /\ todo \in SUBSET Projects(r)
  BY <1>1, ProjectsAreTeams
<1>3. /\ Cardinality(Projects(r)) \in Nat
      /\ Cardinality(todo) \in Nat
      /\ Cardinality(todo) <= Cardinality(Projects(r))
  BY <1>2, TeamsAreCounted
<1>4. Cardinality({}) = 0
  BY FS_EmptySet
<1>5. /\ service' = [at |-> "starting", run |-> r, total |-> Cardinality(Projects(r)),
                     waiting |-> todo, slice |-> {}, writing |-> {}]
      /\ UNCHANGED <<valid, runs, reviews, criteria, faults>>
  BY DEF PickUp, Resting, tables
<1>6. \A t \in Projects(r) : t \in todo \/ reviews[KeyOf(r, t)].run = r
  BY <1>2 DEF AlreadyReviewed
<1>7. \A t \in todo : reviews[KeyOf(r, t)].run # r
  BY <1>2 DEF AlreadyReviewed
<1> HIDE DEF todo
<1>8. r \in 0..MaxRuns
  BY <1>1, Rows, ReviewerAssumption
<1>9. ReviewerTypeOK'
  BY <1>1, <1>2, <1>3, <1>5, <1>8 DEF ReviewerTypeOK, At
<1>10. TableFacts'
  BY <1>1, <1>5, TablesStand DEF tables
<1>11. Waiting(r)
  BY DEF PickUp, Oldest
<1>12. Sorted'
  BY <1>5, <1>6, <1>7, <1>11 DEF Sorted, Waiting, KeyOf, Projects
<1>13. Counted'
  BY <1>3, <1>4, <1>5 DEF Counted
<1>14. Located'
  BY <1>5 DEF Located, Run
<1> QED
  BY <1>9, <1>10, <1>12, <1>13, <1>14 DEF ReviewerInv, TableFacts

(* Changing one row of ai_review_runs, as started, progressed, finished and *)
(* failed do.                                                               *)
LEMMA RowUpdate ==
    ASSUME ReviewerTypeOK, TableFacts, NEW r \in Run, NEW row \in RunRow,
           runs' = [runs EXCEPT ![r] = row], UNCHANGED <<valid, reviews, criteria>>,
           row.event = runs[r].event, row.stage = runs[r].stage, row.teams = runs[r].teams,
           row.done <= row.total,
           row.status \in InFlight => Waiting(r),
           row.status = "finished" =>
               \A t \in Projects(r) : reviews[KeyOf(r, t)].run >= r
    PROVE  /\ TableFacts'
           /\ \A q \in Run : \A t : KeyOf(q, t)' = KeyOf(q, t)
           /\ \A q \in Run : Projects(q)' = Projects(q)
<1>1. /\ Run' = Run
      /\ runs'[r] = row
      /\ \A q \in Run : q # r => runs'[q] = runs[q]
  BY OneRow
<1>2. \A q \in Run : runs'[q].event = runs[q].event /\ runs'[q].stage = runs[q].stage
                     /\ runs'[q].teams = runs[q].teams
  BY <1>1
<1>3. /\ \A q \in Run : \A t : KeyOf(q, t)' = KeyOf(q, t)
      /\ \A q \in Run : Projects(q)' = Projects(q)
  BY <1>2 DEF KeyOf, Projects
<1>4. \A q \in Run : (Waiting(q))' => Waiting(q)
  BY <1>1 DEF Waiting
<1>5. OnlyTheLast'
  BY <1>1, <1>2, <1>4 DEF TableFacts, OnlyTheLast
<1>6. ProgressInRange'
  BY <1>1 DEF TableFacts, ProgressInRange
<1>7. LinesBelong'
  BY DEF TableFacts, LinesBelong
<1>8. FinishedIsComplete'
  <2> SUFFICES ASSUME NEW q \in Run, runs'[q].status = "finished", NEW t \in Projects(q)
               PROVE  reviews[KeyOf(q, t)].run >= q
    BY <1>1, <1>3 DEF FinishedIsComplete
  <2>1. CASE q = r
    BY <2>1, <1>1
  <2>2. CASE q # r
    BY <2>2, <1>1 DEF TableFacts, FinishedIsComplete
  <2> QED
    BY <2>1, <2>2
<1> QED
  BY <1>3, <1>5, <1>6, <1>7, <1>8 DEF TableFacts

(* What the process is doing concerns a run of the queue. *)
LEMMA Carried ==
    ASSUME ReviewerInv, service.at \in At
    PROVE  /\ service.run \in Run
           /\ runs[service.run] \in RunRow
           /\ service \in [at : At \cup {"idle", "down"}, run : 0..MaxRuns, total : Nat,
                           waiting : SUBSET Team, slice : SUBSET Team, writing : SUBSET Team]
           /\ \A t \in Team : KeyOf(service.run, t) \in Key
           /\ Projects(service.run) \in SUBSET Team
<1>1. service.run \in Run
  BY DEF ReviewerInv, Located, Working
<1> QED
  BY <1>1, Rows, ProjectsAreTeams DEF ReviewerInv, ReviewerTypeOK

(* Something threw, and carryOut is about to note it. *)
LEMMA FailingNext ==
    ASSUME ReviewerInv, service.at \in At, service' = To("failing"),
           UNCHANGED <<valid, runs, reviews, criteria>>, faults' \in 0..MaxFaults
    PROVE  ReviewerInv'
<1>1. ReviewerTypeOK /\ TableFacts
  BY DEF ReviewerInv, TableFacts
<1>2. service.run \in Run
  BY DEF ReviewerInv, Located, Working
<1>3. /\ service' \in [at : At \cup {"idle", "down"}, run : 0..MaxRuns, total : Nat,
                       waiting : SUBSET Team, slice : SUBSET Team, writing : SUBSET Team]
      /\ service'.at = "failing" /\ service'.run = service.run
  BY <1>1 DEF ReviewerTypeOK, To, At
<1>4. ReviewerTypeOK'
  BY <1>1, <1>3 DEF ReviewerTypeOK
<1>5. TableFacts'
  BY <1>1, TablesStand DEF tables
<1>6. Sorted' /\ Counted'
  BY <1>3 DEF Sorted, Counted, Busy
<1>7. Located'
  BY <1>2, <1>3 DEF Located, Run
<1> QED
  BY <1>4, <1>5, <1>6, <1>7 DEF ReviewerInv, TableFacts

(* The run is announced as running, or cannot be. *)
LEMMA StartedStep ==
    ASSUME ReviewerInv, Started
    PROVE  ReviewerInv'
<1>0. service.at = "starting" /\ service.at \in At /\ service.at \in Busy
  BY DEF Started, At, Busy
<1> PICK r \in Run : r = service.run
  BY <1>0, Carried
<1> DEFINE row == [runs[r] EXCEPT !.status = "running", !.total = service.total]
<1>1. ReviewerTypeOK /\ TableFacts /\ Sorted /\ Counted /\ Located
  BY DEF ReviewerInv, TableFacts
<1>2. r \in Run /\ runs[r] \in RunRow /\ Waiting(r) /\ service.slice = {}
  BY <1>0, <1>1, Carried DEF Sorted, Located
<1>3. service \in [at : At \cup {"idle", "down"}, run : 0..MaxRuns, total : Nat,
                   waiting : SUBSET Team, slice : SUBSET Team, writing : SUBSET Team]
  BY <1>1 DEF ReviewerTypeOK
<1>4. CASE runs[r].done <= service.total
  <2>1. /\ runs' = [runs EXCEPT ![r] = row]
        /\ service' = NextSlice
        /\ UNCHANGED <<valid, reviews, criteria, faults>>
    BY <1>4 DEF Started
  <2>2. /\ row \in RunRow /\ row.status = "running" /\ row.total = service.total
        /\ row.event = runs[r].event /\ row.stage = runs[r].stage
        /\ row.teams = runs[r].teams /\ row.done = runs[r].done
    BY <1>2, <1>3 DEF RunRow, InFlight
  <2> HIDE DEF row
  <2>3. /\ service'.at \in {"finishing", "sending"} /\ service' \in [at : At \cup {"idle", "down"}, run : 0..MaxRuns, total : Nat,
                   waiting : SUBSET Team, slice : SUBSET Team, writing : SUBSET Team]
        /\ service'.run = r /\ service'.total = service.total
        /\ service'.waiting = service.waiting /\ service'.slice = service.slice
        /\ service'.at = "finishing" => service.waiting = {}
    BY <2>1, <1>3 DEF NextSlice, To, At
  <2>4. TableFacts' /\ Projects(r)' = Projects(r) /\ \A t : KeyOf(r, t)' = KeyOf(r, t)
    BY <1>1, <1>2, <1>4, <2>1, <2>2, RowUpdate
  <2>5. runs' \in Seq(RunRow) /\ Len(runs') = Len(runs) /\ Run' = Run /\ runs'[r] = row
    BY <1>1, <1>2, <2>1, <2>2, OneRow
  <2>6. ReviewerTypeOK'
    BY <1>1, <2>1, <2>3, <2>5 DEF ReviewerTypeOK
  <2>7. Sorted'
    BY <1>0, <1>1, <2>1, <2>2, <2>3, <2>4, <2>5 DEF Sorted, Waiting, InFlight
  <2>8. Counted'
    BY <1>0, <1>1, <2>1, <2>2, <2>3, <2>5 DEF Counted
  <2>9. Located'
    BY <1>2, <2>3, <2>5 DEF Located, Working
  <2> QED
    BY <2>4, <2>6, <2>7, <2>8, <2>9 DEF ReviewerInv, TableFacts
<1>5. CASE ~ (runs[r].done <= service.total)
  <2>1. service' = To("failing") /\ UNCHANGED <<valid, runs, reviews, criteria, faults>>
    BY <1>5 DEF Started
  <2> QED
    BY <2>1, FailingNext, <1>0, <1>1 DEF ReviewerTypeOK
<1> QED
  BY <1>4, <1>5

(* The next slice leaves the waiting projects for the model. *)
LEMMA SendStep ==
    ASSUME ReviewerInv, Send
    PROVE  ReviewerInv'
<1>0. service.at = "sending" /\ service.at \in At /\ service.at \in Busy
  BY DEF Send, At, Busy
<1>1. ReviewerTypeOK /\ TableFacts /\ Sorted /\ Counted /\ Located
  BY DEF ReviewerInv, TableFacts
<1> PICK r \in Run : r = service.run
  BY <1>0, Carried
<1>2. PICK slice \in SUBSET service.waiting :
          /\ service' = [service EXCEPT !.at = "announcing",
                                        !.waiting = @ \ slice, !.slice = slice]
          /\ UNCHANGED <<valid, runs, reviews, criteria, faults>>
  BY DEF Send, tables
<1>3. service \in ServiceType
  BY <1>0, Carried DEF ServiceType
<1>4. /\ service' \in ServiceType
      /\ service'.at = "announcing" /\ service'.run = r /\ service'.total = service.total
      /\ service'.waiting = service.waiting \ slice /\ service'.slice = slice
  BY <1>2, <1>3 DEF ServiceType, At
<1>5. /\ Cardinality(service.waiting) \in Nat
      /\ Cardinality(slice) \in Nat
      /\ Cardinality(service.waiting \ slice) = Cardinality(service.waiting) - Cardinality(slice)
  BY <1>3, TeamsAreCounted DEF ServiceType
<1>6. service.slice = {} /\ Cardinality(service.slice) = 0
  BY <1>0, <1>1, FS_EmptySet DEF Located
<1>7. ReviewerTypeOK'
  BY <1>1, <1>2, <1>4 DEF ReviewerTypeOK, ServiceType
<1>8. TableFacts'
  BY <1>1, <1>2, TablesStand DEF tables
<1>9. Projects(r)' = Projects(r) /\ (Waiting(r))' = Waiting(r) /\ \A t : KeyOf(r, t)' = KeyOf(r, t)
  BY <1>2 DEF Projects, Waiting, KeyOf
<1>10. Sorted'
  BY <1>0, <1>1, <1>2, <1>4, <1>6, <1>9 DEF Sorted
<1>11. Counted'
  BY <1>0, <1>1, <1>2, <1>3, <1>4, <1>5, <1>6 DEF Counted, ServiceType
<1>12. Located'
  BY <1>2, <1>4 DEF Located, Run
<1> QED
  BY <1>7, <1>8, <1>10, <1>11, <1>12 DEF ReviewerInv, TableFacts

(* The batch ends. *)
LEMMA BatchEndsStep ==
    ASSUME ReviewerInv, BatchEnds
    PROVE  ReviewerInv'
<1>0. service.at = "waiting" /\ service.at \in At /\ service.at \in Busy
  BY DEF BatchEnds, At, Busy
<1>1. ReviewerTypeOK /\ TableFacts /\ Sorted /\ Counted /\ Located
  BY DEF ReviewerInv, TableFacts
<1> PICK r \in Run : r = service.run
  BY <1>0, Carried
<1>2. service' = [service EXCEPT !.at = "clearing"] /\ UNCHANGED <<valid, runs, reviews, criteria, faults>>
  BY DEF BatchEnds, To, tables
<1>3. service \in ServiceType
  BY <1>0, Carried DEF ServiceType
<1>4. /\ service' \in ServiceType
      /\ service'.at = "clearing" /\ service'.run = r /\ service'.total = service.total
      /\ service'.waiting = service.waiting /\ service'.slice = service.slice
  BY <1>2, <1>3 DEF ServiceType, At
<1>5. ReviewerTypeOK'
  BY <1>1, <1>2, <1>4 DEF ReviewerTypeOK, ServiceType
<1>6. TableFacts'
  BY <1>1, <1>2, TablesStand DEF tables
<1>7. Projects(r)' = Projects(r) /\ (Waiting(r))' = Waiting(r) /\ \A t : KeyOf(r, t)' = KeyOf(r, t)
  BY <1>2 DEF Projects, Waiting, KeyOf
<1>8. Sorted' /\ Counted'
  BY <1>0, <1>1, <1>2, <1>4, <1>7 DEF Sorted, Counted
<1>9. Located'
  BY <1>2, <1>4 DEF Located, Run
<1> QED
  BY <1>5, <1>6, <1>8, <1>9 DEF ReviewerInv, TableFacts

(* The lines of the review before this one go. *)
LEMMA ClearStep ==
    ASSUME ReviewerInv, NEW t \in Team, Clear(t)
    PROVE  ReviewerInv'
<1>0. service.at = "clearing" /\ service.at \in At /\ service.at \in Busy /\ t \in service.slice
  BY DEF Clear, At, Busy
<1>1. ReviewerTypeOK /\ TableFacts /\ Sorted /\ Counted /\ Located
  BY DEF ReviewerInv, TableFacts
<1> PICK r \in Run : r = service.run
  BY <1>0, Carried
<1> DEFINE k == KeyOf(r, t)
<1>2. /\ criteria' = [criteria EXCEPT ![k] = 0]
      /\ service' = [service EXCEPT !.at = "saving", !.writing = {t}]
      /\ UNCHANGED <<valid, runs, reviews, faults>>
  BY DEF Clear
<1>3. service \in ServiceType /\ k \in Key
  BY <1>0, Carried DEF ServiceType
<1>4. /\ service' \in ServiceType
      /\ service'.at = "saving" /\ service'.run = r /\ service'.total = service.total
      /\ service'.waiting = service.waiting /\ service'.slice = service.slice
      /\ service'.writing = {t}
  BY <1>2, <1>3 DEF ServiceType, At
<1>5. Projects(r)' = Projects(r) /\ (Waiting(r))' = Waiting(r) /\ \A u : KeyOf(r, u)' = KeyOf(r, u)
  BY <1>2 DEF Projects, Waiting, KeyOf
<1> HIDE DEF k
<1>6. criteria' \in [Key -> 0..MaxRuns] /\ criteria'[k] = 0
      /\ \A l \in Key : l # k => criteria'[l] = criteria[l]
  BY <1>1, <1>2, <1>3, ReviewerAssumption DEF ReviewerTypeOK
<1>7. ReviewerTypeOK'
  BY <1>1, <1>2, <1>4, <1>6 DEF ReviewerTypeOK, ServiceType
<1>8. LinesBelong'
  BY <1>1, <1>2, <1>6 DEF TableFacts, LinesBelong
<1>9. OnlyTheLast' /\ ProgressInRange' /\ FinishedIsComplete'
  BY <1>1, <1>2 DEF TableFacts, OnlyTheLast, ProgressInRange, FinishedIsComplete,
     Run, Waiting, Projects, KeyOf
<1>10. Sorted' /\ Counted'
  BY <1>0, <1>1, <1>2, <1>4, <1>5 DEF Sorted, Counted
<1>11. Located'
  BY <1>0, <1>2, <1>4, <1>5, <1>6 DEF Located, Run, k
<1> QED
  BY <1>7, <1>8, <1>9, <1>10, <1>11 DEF ReviewerInv

(* A project that is written leaves the slice. *)
LEMMA WrittenNext ==
    ASSUME service \in ServiceType, NEW t \in service.slice, service.writing = {t},
           service' = Written
    PROVE  /\ service' \in ServiceType
           /\ service'.at \in {"counting", "clearing"}
           /\ service'.run = service.run /\ service'.total = service.total
           /\ service'.waiting = service.waiting /\ service'.slice = service.slice \ {t}
           /\ service'.at = "counting" => service'.slice = {}
           /\ Cardinality(service'.slice) <= Cardinality(service.slice)
           /\ Cardinality(service'.slice) \in Nat
<1>1. /\ service' \in ServiceType
      /\ service'.at \in {"counting", "clearing"}
      /\ service'.run = service.run /\ service'.total = service.total
      /\ service'.waiting = service.waiting /\ service'.slice = service.slice \ {t}
      /\ service'.at = "counting" => service'.slice = {}
  BY DEF Written, ServiceType, At
<1>2. service.slice \in SUBSET Team /\ (service.slice \ {t}) \in SUBSET service.slice
  BY DEF ServiceType
<1> QED
  BY <1>1, <1>2, TeamsAreCounted

(* The row is replaced, by this run. *)
LEMMA SaveStep ==
    ASSUME ReviewerInv, NEW t \in Team, NEW status \in {"reviewed", "unscored"}, Save(t, status)
    PROVE  ReviewerInv'
<1>0. service.at = "saving" /\ service.at \in At /\ service.at \in Busy /\ service.writing = {t}
  BY DEF Save, At, Busy
<1>1. ReviewerTypeOK /\ TableFacts /\ Sorted /\ Counted /\ Located
  BY DEF ReviewerInv, TableFacts
<1> PICK r \in Run : r = service.run
  BY <1>0, Carried
<1> DEFINE k == KeyOf(r, t)
           row == [run |-> r, status |-> status]
<1>2. /\ reviews' = [reviews EXCEPT ![k] = row]
      /\ service' = IF status = "reviewed" THEN To("listing") ELSE Written
      /\ UNCHANGED <<valid, runs, criteria, faults>>
  BY DEF Save
<1>3. service \in ServiceType /\ k \in Key
  BY <1>0, Carried DEF ServiceType
<1>4. t \in service.slice /\ criteria[k] = 0
  BY <1>0, <1>1 DEF Located
<1>5. Projects(r)' = Projects(r) /\ (Waiting(r))' = Waiting(r) /\ \A u : KeyOf(r, u)' = KeyOf(r, u)
  BY <1>2 DEF Projects, Waiting, KeyOf
<1>6. row \in [run : 0..MaxRuns, status : {"none", "reviewed", "unscored"}] /\ row.run = r
  BY <1>1, Rows, ReviewerAssumption
<1>7. /\ reviews' \in [Key -> [run : 0..MaxRuns, status : {"none", "reviewed", "unscored"}]]
      /\ reviews'[k] = row
      /\ \A l \in Key : l # k => reviews'[l] = reviews[l]
  <2> HIDE DEF k, row
  <2> QED
    BY <1>1, <1>2, <1>3, <1>6 DEF ReviewerTypeOK
<1>8. \A q \in Run, u \in Team : KeyOf(q, u) \in Key /\ (KeyOf(q, u) = k => runs[q].event = runs[r].event /\ u = t)
  BY <1>1, Rows, KeysApart
<1>9. \A q \in Run : \A u : KeyOf(q, u)' = KeyOf(q, u)
  BY <1>2 DEF KeyOf
<1>10. Waiting(r)
  BY <1>0, <1>1 DEF Sorted
<1>11. FinishedIsComplete'
  <2> SUFFICES ASSUME NEW q \in Run, runs[q].status = "finished", NEW u \in Projects(q)
               PROVE  reviews'[KeyOf(q, u)].run >= q
    <3>1. Run' = Run /\ \A q \in Run : Projects(q)' = Projects(q)
      BY <1>2 DEF Run, Projects
    <3> QED
      BY <1>2, <1>9, <3>1 DEF FinishedIsComplete
  <2>1. u \in Team
    BY <1>1, ProjectsAreTeams
  <2>2. CASE KeyOf(q, u) = k
    <3>1. ~ Waiting(q) /\ q # r /\ runs[q].event = runs[r].event
      BY <1>8, <1>10, <2>1, <2>2 DEF Waiting, InFlight
    <3>2. q \in Nat /\ r \in Nat
      BY <1>1, Rows
    <3>3. ~ (r < q)
      BY <1>1, <1>10, <3>1 DEF TableFacts, OnlyTheLast
    <3> QED
      BY <1>6, <1>7, <2>2, <3>2, <3>3
  <2>3. CASE KeyOf(q, u) # k
    BY <1>1, <1>7, <1>8, <2>1, <2>3 DEF TableFacts, FinishedIsComplete
  <2> QED
    BY <2>2, <2>3
<1>12. LinesBelong'
  BY <1>1, <1>2, <1>4, <1>7 DEF TableFacts, LinesBelong
<1>13. OnlyTheLast' /\ ProgressInRange'
  BY <1>1, <1>2 DEF TableFacts, OnlyTheLast, ProgressInRange, Run, Waiting
<1>14. /\ service' \in ServiceType
       /\ service'.at \in {"listing", "counting", "clearing"}
       /\ service'.run = r /\ service'.total = service.total
       /\ service'.waiting = service.waiting
       /\ service'.at = "listing" => status = "reviewed" /\ service'.writing = {t}
                                     /\ service'.slice = service.slice
       /\ service'.at = "counting" => service'.slice = {}
       /\ service'.slice \cup {t} = service.slice
       /\ Cardinality(service'.slice) <= Cardinality(service.slice)
       /\ Cardinality(service'.slice) \in Nat
  <2>1. CASE status = "reviewed"
    <3>1. service' = To("listing")
      BY <1>2, <2>1
    <3>2. /\ service' \in ServiceType
          /\ service'.at = "listing" /\ service'.run = r /\ service'.total = service.total
          /\ service'.waiting = service.waiting /\ service'.slice = service.slice
          /\ service'.writing = {t}
      BY <1>0, <1>3, <3>1 DEF To, ServiceType, At
    <3>3. Cardinality(service.slice) \in Nat
      BY <1>3, TeamsAreCounted DEF ServiceType
    <3> QED
      BY <1>4, <2>1, <3>2, <3>3
  <2>2. CASE status # "reviewed"
    <3>1. service' = Written
      BY <1>2, <2>2
    <3> QED
      BY <1>0, <1>3, <1>4, <3>1, WrittenNext
  <2> QED
    BY <2>1, <2>2
<1>15. ReviewerTypeOK'
  BY <1>1, <1>2, <1>7, <1>14 DEF ReviewerTypeOK, ServiceType
<1>16. Sorted'
  <2>1. /\ service.waiting \cap service.slice = {}
        /\ \A u \in Projects(r) : u \in service.waiting \cup service.slice
                                  \/ reviews[KeyOf(r, u)].run = r
        /\ \A u \in service.waiting : reviews[KeyOf(r, u)].run # r
    BY <1>0, <1>1 DEF Sorted
  <2>2. service'.waiting \cap service'.slice = {}
    BY <1>14, <2>1
  <2>3. \A u \in service.waiting : u \in Team /\ KeyOf(r, u) # k
    BY <1>3, <1>4, <1>8, <2>1 DEF ServiceType
  <2>4. \A u \in service.waiting : reviews'[KeyOf(r, u)].run # r
    BY <1>7, <1>8, <2>1, <2>3
  <2>5. \A u \in Projects(r) : u \in service'.waiting \cup service'.slice
                               \/ reviews'[KeyOf(r, u)].run = r
    <3> SUFFICES ASSUME NEW u \in Projects(r), u \notin service'.waiting \cup service'.slice
                 PROVE  reviews'[KeyOf(r, u)].run = r
      OBVIOUS
    <3>1. u \in Team
      BY <1>1, ProjectsAreTeams
    <3>2. CASE u = t
      BY <1>6, <1>7, <3>2
    <3>3. CASE u # t
      <4>1. u \notin service.waiting \cup service.slice
        BY <1>14, <3>3
      <4>2. KeyOf(r, u) # k /\ KeyOf(r, u) \in Key
        BY <1>8, <3>1, <3>3
      <4> QED
        BY <1>7, <2>1, <4>1, <4>2
    <3> QED
      BY <3>2, <3>3
  <2>6. service'.run = r /\ service'.waiting = service.waiting
    BY <1>14
  <2>7. (Waiting(service.run))' /\ Projects(service.run)' = Projects(r)
        /\ \A u : KeyOf(service.run, u)' = KeyOf(r, u)
    BY <1>2, <1>10, <2>6 DEF Waiting, Projects, KeyOf
  <2>8. \A u \in Projects(service.run)' : u \in service'.waiting \cup service'.slice
            \/ reviews'[KeyOf(service.run, u)'].run = service'.run
    BY <2>5, <2>6, <2>7
  <2>9. \A u \in service'.waiting : reviews'[KeyOf(service.run, u)'].run # service'.run
    BY <2>4, <2>6, <2>7
  <2> QED
    BY <2>2, <2>7, <2>8, <2>9 DEF Sorted
<1>17. Counted'
  <2>1. Cardinality(service.waiting) \in Nat /\ Cardinality(service.slice) \in Nat /\ service.total \in Nat
    BY <1>3, TeamsAreCounted DEF ServiceType
  <2> QED
    BY <1>0, <1>1, <1>2, <1>14, <2>1 DEF Counted
<1>18. Located'
  <2>1. service'.at = "listing" => reviews'[KeyOf(r, t)] = [run |-> r, status |-> "reviewed"]
    BY <1>7, <1>14
  <2>2. service'.at = "listing" => t \in service'.slice /\ service'.writing = {t}
    BY <1>4, <1>14
  <2>3. criteria'[KeyOf(r, t)'] = 0
    BY <1>2, <1>4, <1>5
  <2>4. Working' => service'.run \in Run'
    BY <1>2, <1>14 DEF Run
  <2> QED
    BY <1>5, <1>14, <2>1, <2>2, <2>3, <2>4 DEF Located
<1> QED
  BY <1>11, <1>12, <1>13, <1>15, <1>16, <1>17, <1>18 DEF ReviewerInv

(* And its lines are written under it. *)
LEMMA ListStep ==
    ASSUME ReviewerInv, NEW t \in Team, List(t)
    PROVE  ReviewerInv'
<1>0. service.at = "listing" /\ service.at \in At /\ service.at \in Busy /\ service.writing = {t}
  BY DEF List, At, Busy
<1>1. ReviewerTypeOK /\ TableFacts /\ Sorted /\ Counted /\ Located
  BY DEF ReviewerInv, TableFacts
<1> PICK r \in Run : r = service.run
  BY <1>0, Carried
<1> DEFINE k == KeyOf(r, t)
<1>2. /\ criteria' = [criteria EXCEPT ![k] = r]
      /\ service' = Written
      /\ UNCHANGED <<valid, runs, reviews, faults>>
  BY DEF List
<1>3. service \in ServiceType /\ k \in Key /\ r \in 0..MaxRuns
  BY <1>0, <1>1, Carried, Rows DEF ServiceType
<1>4. t \in service.slice /\ reviews[k] = [run |-> r, status |-> "reviewed"]
  BY <1>0, <1>1 DEF Located
<1>5. Projects(r)' = Projects(r) /\ (Waiting(r))' = Waiting(r) /\ \A u : KeyOf(r, u)' = KeyOf(r, u)
  BY <1>2 DEF Projects, Waiting, KeyOf
<1>6. /\ service' \in ServiceType
      /\ service'.at \in {"counting", "clearing"}
      /\ service'.run = r /\ service'.total = service.total
      /\ service'.waiting = service.waiting /\ service'.slice = service.slice \ {t}
      /\ service'.at = "counting" => service'.slice = {}
      /\ Cardinality(service'.slice) <= Cardinality(service.slice)
      /\ Cardinality(service'.slice) \in Nat
  BY <1>0, <1>2, <1>3, <1>4, WrittenNext
<1>7. criteria' \in [Key -> 0..MaxRuns] /\ criteria'[k] = r
      /\ \A l \in Key : l # k => criteria'[l] = criteria[l]
  <2> HIDE DEF k
  <2> QED
    BY <1>1, <1>2, <1>3 DEF ReviewerTypeOK
<1>8. ReviewerTypeOK'
  BY <1>1, <1>2, <1>6, <1>7 DEF ReviewerTypeOK, ServiceType
<1>9. LinesBelong'
  BY <1>1, <1>2, <1>4, <1>7 DEF TableFacts, LinesBelong
<1>10. OnlyTheLast' /\ ProgressInRange' /\ FinishedIsComplete'
  BY <1>1, <1>2 DEF TableFacts, OnlyTheLast, ProgressInRange, FinishedIsComplete,
     Run, Waiting, Projects, KeyOf
<1>11. Sorted'
  <2>1. reviews[KeyOf(r, t)].run = r
    BY <1>4
  <2> QED
    BY <1>0, <1>1, <1>2, <1>5, <1>6, <2>1 DEF Sorted
<1>12. Counted'
  <2>1. Cardinality(service.waiting) \in Nat /\ Cardinality(service.slice) \in Nat /\ service.total \in Nat
    BY <1>3, TeamsAreCounted DEF ServiceType
  <2> QED
    BY <1>0, <1>1, <1>2, <1>6, <2>1 DEF Counted
<1>13. Located'
  BY <1>2, <1>6 DEF Located, Run
<1> QED
  BY <1>8, <1>9, <1>10, <1>11, <1>12, <1>13 DEF ReviewerInv

(* progressed: what is counted as done is what is neither waiting nor sent. *)
LEMMA ProgressedNext ==
    ASSUME ReviewerInv, service.at \in {"announcing", "counting"},
           runs' = [runs EXCEPT ![service.run].done = Done],
           UNCHANGED <<valid, reviews, criteria, faults>>,
           NEW at \in {"waiting", "sending", "finishing"}, service' = To(at),
           at # "waiting" => service.slice = {},
           at = "finishing" => service.waiting = {}
    PROVE  ReviewerInv'
<1>0. service.at \in At /\ service.at \in Busy /\ service.at # "starting"
  BY DEF At, Busy
<1>1. ReviewerTypeOK /\ TableFacts /\ Sorted /\ Counted /\ Located
  BY DEF ReviewerInv, TableFacts
<1> PICK r \in Run : r = service.run
  BY <1>0, Carried
<1> DEFINE row == [runs[r] EXCEPT !.done = Done]
<1>2. runs' = [runs EXCEPT ![r] = row]
  OBVIOUS
<1>3. service \in ServiceType /\ runs[r] \in RunRow
  BY <1>0, Carried DEF ServiceType
<1>4. /\ Cardinality(service.waiting) \in Nat /\ Cardinality(service.slice) \in Nat
      /\ service.total \in Nat
  BY <1>3, TeamsAreCounted DEF ServiceType
<1>5. Done \in Nat /\ Done <= service.total /\ runs[r].total = service.total
  BY <1>0, <1>1, <1>4 DEF Done, Counted
<1>6. Waiting(r)
  BY <1>0, <1>1 DEF Sorted
<1>7. /\ row \in RunRow /\ row.done = Done /\ row.total = service.total
      /\ row.event = runs[r].event /\ row.stage = runs[r].stage
      /\ row.teams = runs[r].teams /\ row.status = runs[r].status
  BY <1>3, <1>5 DEF RunRow
<1> HIDE DEF row
<1>8. row.status # "finished"
  BY <1>6, <1>7 DEF Waiting, InFlight
<1>9. TableFacts' /\ Projects(r)' = Projects(r) /\ \A t : KeyOf(r, t)' = KeyOf(r, t)
  BY <1>1, <1>2, <1>5, <1>6, <1>7, <1>8, RowUpdate
<1>10. runs' \in Seq(RunRow) /\ Len(runs') = Len(runs) /\ Run' = Run /\ runs'[r] = row
  BY <1>1, <1>2, <1>7, OneRow
<1>11. /\ service' \in ServiceType
       /\ service'.at = at /\ service'.run = r /\ service'.total = service.total
       /\ service'.waiting = service.waiting /\ service'.slice = service.slice
  BY <1>3 DEF To, ServiceType, At
<1>12. ReviewerTypeOK'
  BY <1>1, <1>10, <1>11 DEF ReviewerTypeOK, ServiceType
<1>13. Sorted'
  <2>1. (Waiting(r))'
    BY <1>6, <1>7, <1>10 DEF Waiting
  <2> QED
    BY <1>0, <1>1, <1>9, <1>11, <2>1 DEF Sorted
<1>14. Counted'
  BY <1>0, <1>1, <1>7, <1>10, <1>11 DEF Counted
<1>15. Located'
  BY <1>10, <1>11 DEF Located, Working
<1> QED
  BY <1>9, <1>12, <1>13, <1>14, <1>15 DEF ReviewerInv, TableFacts

LEMMA AnnounceStep ==
    ASSUME ReviewerInv, Announce
    PROVE  ReviewerInv'
BY ProgressedNext DEF Announce

LEMMA CountStep ==
    ASSUME ReviewerInv, Count
    PROVE  ReviewerInv'
<1>1. service.slice = {}
  BY DEF Count, ReviewerInv, Located
<1>2. CASE service.waiting = {}
  BY <1>1, <1>2, ProgressedNext DEF Count, NextSlice
<1>3. CASE service.waiting # {}
  BY <1>1, <1>3, ProgressedNext DEF Count, NextSlice
<1> QED
  BY <1>2, <1>3

(* The run ends, one way or the other. *)
LEMMA EndsNext ==
    ASSUME ReviewerInv, service.at \in At,
           NEW status \in {"finished", "failed"}, Ends(status),
           status = "finished" => service.at = "finishing",
           UNCHANGED <<valid, reviews, criteria>>, faults' \in 0..MaxFaults,
           service' = Resting("idle") \/ service' = To("failing")
    PROVE  ReviewerInv'
<1>1. ReviewerTypeOK /\ TableFacts /\ Sorted /\ Counted /\ Located
  BY DEF ReviewerInv, TableFacts
<1> PICK r \in Run : r = service.run
  BY Carried
<1> DEFINE row == [runs[r] EXCEPT !.status = status]
<1>2. runs' = [runs EXCEPT ![r] = row]
  BY DEF Ends
<1>3. service \in ServiceType /\ runs[r] \in RunRow
  BY Carried DEF ServiceType
<1>4. /\ row \in RunRow /\ row.done = runs[r].done /\ row.total = runs[r].total
      /\ row.event = runs[r].event /\ row.stage = runs[r].stage
      /\ row.teams = runs[r].teams /\ row.status = status
  BY <1>3 DEF RunRow
<1> HIDE DEF row
<1>5. ASSUME status = "finished", NEW t \in Projects(r)
      PROVE  reviews[KeyOf(r, t)].run >= r
  <2>1. service.at = "finishing" /\ service.at \in Busy
    BY <1>5 DEF Busy, At
  <2>2. service.waiting = {} /\ service.slice = {}
    BY <1>1, <2>1 DEF Located
  <2>3. reviews[KeyOf(r, t)].run = r
    BY <1>1, <1>5, <2>1, <2>2 DEF Sorted
  <2>4. r \in Nat
    BY <1>1, Rows
  <2> QED
    BY <2>3, <2>4
<1>6. row.status \notin InFlight
  BY <1>4 DEF InFlight
<1>7. row.done <= row.total
  BY <1>1, <1>4 DEF TableFacts, ProgressInRange
<1>8. TableFacts'
  BY <1>1, <1>2, <1>4, <1>5, <1>6, <1>7, RowUpdate
<1>9. runs' \in Seq(RunRow) /\ Len(runs') = Len(runs) /\ Run' = Run
  BY <1>1, <1>2, <1>4, OneRow
<1>10. CASE service' = Resting("idle")
  BY <1>1, <1>8, <1>9, <1>10, AtRest DEF ReviewerTypeOK, ReviewerInv, TableFacts
<1>11. CASE service' = To("failing")
  <2>1. service' \in ServiceType /\ service'.at = "failing" /\ service'.run = r
    BY <1>3, <1>11 DEF To, ServiceType, At
  <2>2. ReviewerTypeOK'
    BY <1>1, <1>9, <2>1 DEF ReviewerTypeOK, ServiceType
  <2>3. Sorted' /\ Counted'
    BY <2>1 DEF Sorted, Counted, Busy
  <2>4. Located'
    BY <1>9, <2>1 DEF Located
  <2> QED
    BY <1>8, <2>2, <2>3, <2>4 DEF ReviewerInv, TableFacts
<1> QED
  BY <1>10, <1>11

(* The process stops, or is done with a run, and the tables stand. *)
LEMMA RestsNext ==
    ASSUME ReviewerInv, NEW at \in {"idle", "down"}, service' = Resting(at),
           UNCHANGED <<valid, tables>>, faults' \in 0..MaxFaults
    PROVE  ReviewerInv'
<1>1. ReviewerTypeOK /\ TableFacts
  BY DEF ReviewerInv, TableFacts
<1>2. TableFacts'
  BY <1>1, TablesStand
<1>3. ReviewerTypeOK'
  BY <1>1, AtRest DEF ReviewerTypeOK, tables
<1> QED
  BY <1>2, <1>3, AtRest DEF ReviewerInv, TableFacts

LEMMA FaultCounted ==
    ASSUME ReviewerTypeOK, Fault
    PROVE  faults' \in 0..MaxFaults
BY ReviewerAssumption DEF ReviewerTypeOK, Fault

LEMMA ReviewerStep == ReviewerInv /\ [ReviewerNext]_vars => ReviewerInv'
<1> SUFFICES ASSUME ReviewerInv, [ReviewerNext]_vars
             PROVE  ReviewerInv'
  OBVIOUS
<1>0. ReviewerTypeOK /\ faults \in 0..MaxFaults
  BY DEF ReviewerInv, ReviewerTypeOK
<1>1. CASE \E e \in Event, s \in Stage, teams \in Picks : Request(e, s, teams)
  BY <1>1, RequestStep
<1>2. CASE \E e \in Event, t \in Team : Strike(e, t)
  BY <1>2, StrikeStep
<1>3. CASE \E r \in Run : PickUp(r)
  BY <1>3, PickUpStep
<1>4. CASE Started
  BY <1>4, StartedStep
<1>5. CASE Send
  BY <1>5, SendStep
<1>6. CASE Announce
  BY <1>6, AnnounceStep
<1>7. CASE BatchEnds
  BY <1>7, BatchEndsStep
<1>8. CASE \E t \in Team : Clear(t)
  BY <1>8, ClearStep
<1>9. CASE \E t \in Team : \E status \in {"reviewed", "unscored"} : Save(t, status)
  BY <1>9, SaveStep
<1>10. CASE \E t \in Team : List(t)
  BY <1>10, ListStep
<1>11. CASE Count
  BY <1>11, CountStep
<1>12. CASE Finish
  BY <1>0, <1>12, EndsNext DEF Finish, At
<1>13. CASE Fail
  BY <1>0, <1>13, EndsNext DEF Fail, At
<1>14. CASE Restart
  BY <1>0, <1>14, RestsNext DEF Restart
<1>15. CASE Throw
  <2>1. faults' \in 0..MaxFaults
    BY <1>0, <1>15, FaultCounted DEF Throw
  <2>2. service.at \in At /\ UNCHANGED <<valid, tables>>
    BY <1>15 DEF Throw, Working
  <2>3. CASE service' = Resting("idle")
    BY <2>1, <2>2, <2>3, RestsNext
  <2>4. CASE service' = To("failing")
    BY <2>1, <2>2, <2>4, FailingNext DEF tables
  <2> QED
    BY <1>15, <2>3, <2>4 DEF Throw
<1>16. CASE LoseTheEnd
  <2>1. faults' \in 0..MaxFaults
    BY <1>0, <1>16, FaultCounted DEF LoseTheEnd
  <2> QED
    BY <1>16, <2>1, EndsNext DEF LoseTheEnd, At
<1>17. CASE Crash
  <2>1. faults' \in 0..MaxFaults
    BY <1>0, <1>17, FaultCounted DEF Crash
  <2> QED
    BY <1>17, <2>1, RestsNext DEF Crash
<1>18. CASE UNCHANGED vars
  BY <1>18 DEF vars, tables, ReviewerInv, ReviewerTypeOK, OnlyTheLast, Sorted, Counted, Located,
     ProgressInRange, LinesBelong, FinishedIsComplete, Run, Waiting, Working, Projects, KeyOf
<1> QED
  BY <1>1, <1>2, <1>3, <1>4, <1>5, <1>6, <1>7, <1>8, <1>9, <1>10, <1>11, <1>12, <1>13,
     <1>14, <1>15, <1>16, <1>17, <1>18 DEF ReviewerNext, Step

(* Only Send puts a project in the slice. *)
LEMMA OnlySendingFills ==
    ASSUME ReviewerTypeOK, [ReviewerNext]_vars, ~ Send
    PROVE  service'.slice \subseteq service.slice
<1>0. service \in ServiceType
  BY DEF ReviewerTypeOK, ServiceType
<1>1. CASE service' = service
  BY <1>1
<1>2. CASE \E at \in At : service' = To(at)
  BY <1>0, <1>2 DEF To, ServiceType
<1>3. CASE service' = Written
  BY <1>0, <1>3 DEF Written, ServiceType
<1>4. CASE service'.slice = {}
  BY <1>4
<1>5. CASE \E t \in Team : Clear(t)
  BY <1>0, <1>5 DEF Clear, ServiceType
<1>6. CASE (\E e \in Event, s \in Stage, teams \in Picks : Request(e, s, teams))
           \/ (\E e \in Event, t \in Team : Strike(e, t)) \/ UNCHANGED vars
  BY <1>1, <1>6 DEF Request, Strike, vars
<1>7. CASE (\E r \in Run : PickUp(r)) \/ Finish \/ Fail \/ Restart \/ Crash
  <2>1. CASE \E r \in Run : PickUp(r)
    BY <1>4, <2>1 DEF PickUp, Resting
  <2>2. CASE Finish \/ Fail \/ Restart \/ Crash
    BY <1>4, <2>2 DEF Finish, Fail, Restart, Crash, Resting
  <2> QED
    BY <1>7, <2>1, <2>2
<1>8. CASE Started \/ Announce \/ BatchEnds \/ Count \/ LoseTheEnd
  BY <1>2, <1>8 DEF Started, Announce, BatchEnds, Count, LoseTheEnd, NextSlice, To, At
<1>9. CASE Throw
  BY <1>2, <1>4, <1>9 DEF Throw, Resting, At
<1>10. CASE \E t \in Team : (\E status \in {"reviewed", "unscored"} : Save(t, status)) \/ List(t)
  <2>1. service' = To("listing") \/ service' = Written
    BY <1>10 DEF Save, List
  <2> QED
    BY <1>2, <1>3, <2>1 DEF At
<1> QED
  BY <1>5, <1>6, <1>7, <1>8, <1>9, <1>10 DEF ReviewerNext, Step

-----------------------------------------------------------------------------
(* The theorems. *)

(* The invariant holds however the service runs, stops and fails. *)
THEOREM ReviewerInvariance == ReviewerSpec => []ReviewerInv
BY InvInit, ReviewerStep, PTL DEF ReviewerSpec

(* The tables and the process's memory stay within their types.             *)
THEOREM ReviewerTypeCorrect == ReviewerSpec => []ReviewerTypeOK
<1>1. ReviewerInv => ReviewerTypeOK
  BY DEF ReviewerInv
<1> QED
  BY <1>1, ReviewerInvariance, PTL

(* No rubric line stands under another run's review, a finished run left no *)
(* standing project out, and the database never refuses a progress update.  *)
THEOREM ReviewsBelong == ReviewerSpec => []ReviewsFollowTheirRuns
<1>1. ReviewerInv => ReviewsFollowTheirRuns
  BY DEF ReviewerInv, ReviewsFollowTheirRuns
<1> QED
  BY <1>1, ReviewerInvariance, PTL

(* What a run wrote is never sent to the model by it again.                 *)
THEOREM NothingSentTwice == ReviewerSpec => NotSentTwice
<1>1. ReviewerInv /\ [ReviewerNext]_vars
      => \A t \in service'.slice \ service.slice :
            reviews[KeyOf(service'.run, t)].run # service'.run
  <2> SUFFICES ASSUME ReviewerInv, [ReviewerNext]_vars,
                      NEW t \in service'.slice, t \notin service.slice
               PROVE  reviews[KeyOf(service'.run, t)].run # service'.run
    OBVIOUS
  <2>1. CASE Send
    <3>1. /\ service.at \in Busy
          /\ t \in service.waiting /\ service'.run = service.run
      BY <2>1 DEF Send, Busy, At, ReviewerInv, ReviewerTypeOK
    <3> QED
      BY <3>1 DEF ReviewerInv, Sorted
  <2>2. CASE ~ Send
    <3>1. service'.slice \subseteq service.slice
      BY <2>2, OnlySendingFills DEF ReviewerInv
    <3> QED
      BY <3>1
  <2> QED
    BY <2>1, <2>2
<1> QED
  BY <1>1, ReviewerInvariance, PTL DEF NotSentTwice, ReviewerSpec

=============================================================================
