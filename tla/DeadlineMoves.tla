--------------------------- MODULE DeadlineMoves ---------------------------
(***************************************************************************)
(* The loop of move_deadlines (contract.rs), written as the code runs it:  *)
(* one move after another, each checked against the schedule and the usage *)
(* the moves before it left behind.  Schedule states its outcome without   *)
(* the loop (Allowed, Moved, Spent), which is what Lifecycle builds on;    *)
(* this module checks that the two agree on every list of moves.           *)
(***************************************************************************)
EXTENDS Schedule, Sequences, FiniteSetsExt

CONSTANTS
    InForce,    \* the schedules that may be in force before the call
    Spendings,  \* what earlier calls may have left in DataKey::ExtensionUsage
    Listable,   \* bound: the deadlines the list names
    Instants,   \* bound: the timestamps the call may run at and move to
    MaxMoves    \* bound: the length of the list

ASSUME MovesAssumption ==
    /\ InForce \subseteq SchedulesIn(Nat)
    /\ Spendings \subseteq [Deadline -> Usage]
    /\ Listable \subseteq Deadline
    /\ Instants \subseteq Nat
    /\ MaxMoves \in Nat

VARIABLES
    called_at,  \* the ledger's timestamp
    in_force,   \* HackathonState.schedule before the call
    spent,      \* DataKey::ExtensionUsage before the call
    moves       \* the Vec<DeadlineMove> of the call

call == <<called_at, in_force, spent, moves>>

DeadlineMove == [deadline : Listable, moved_to : Instants]

-----------------------------------------------------------------------------

\* Mutant of Step: the allowance is read from before the call, so one call may
\* spend it several times over.
StepOnOldUsage(at, done, move) ==
    LET d     == move.deadline
        added == move.moved_to - done.schedule[d]
    IN  IF /\ done.ok
           /\ MayMove(done.schedule, d, move.moved_to, at)
           /\ Fits(spent[d], added)
        THEN [ok       |-> TRUE,
              schedule |-> [done.schedule EXCEPT ![d] = move.moved_to],
              used     |-> [done.used EXCEPT ![d] = Record(spent[d], added)]]
        ELSE [done EXCEPT !.ok = FALSE]

(* One turn of the loop.  A refusal leaves the function, and the host rolls *)
(* the invocation back.                                                     *)
Step(at, done, move) ==
    LET d     == move.deadline
        added == move.moved_to - done.schedule[d]
    IN  IF /\ done.ok
           /\ MayMove(done.schedule, d, move.moved_to, at)
           /\ Fits(done.used[d], added)
        THEN [ok       |-> TRUE,
              schedule |-> [done.schedule EXCEPT ![d] = move.moved_to],
              used     |-> [done.used EXCEPT ![d] = Record(@, added)]]
        ELSE [done EXCEPT !.ok = FALSE]

\* What n turns leave, for every n the loop reaches.
Loop(s, u, at, list) ==
    LET done[n \in 0..Len(list)] ==
          IF n = 0 THEN [ok |-> TRUE, schedule |-> s, used |-> u]
          ELSE Step(at, done[n - 1], list[n])
    IN  done[Len(list)]

-----------------------------------------------------------------------------

MovesInit ==
    /\ called_at \in Instants
    /\ in_force \in InForce
    /\ spent \in Spendings
    /\ moves = <<>>

(* The organizer writes the list down. *)
Write ==
    /\ Len(moves) < MaxMoves
    /\ \E move \in DeadlineMove : moves' = Append(moves, move)
    /\ UNCHANGED <<called_at, in_force, spent>>

MovesNext == Write

MovesSpec == MovesInit /\ [][MovesNext]_call

-----------------------------------------------------------------------------

\* The moves of one deadline, by their places in the list.
Of(list, d) == {i \in DOMAIN list : list[i].deadline = d}

Ascending(s, list) ==
    \A d \in Deadline : \A i \in Of(list, d) :
        /\ list[i].moved_to > s[d]
        /\ \A j \in Of(list, d) : j < i => list[i].moved_to > list[j].moved_to

\* What an ascending list gains every deadline, up to its last move.
Gains(s, list) ==
    [d \in Deadline |->
        IF Of(list, d) = {} THEN Still
        ELSE [times   |-> Cardinality(Of(list, d)),
              seconds |-> list[Max(Of(list, d))].moved_to - s[d]]]

(* The loop accepts a list exactly when every deadline's moves ascend and   *)
(* their total is allowed, and then leaves exactly that total behind.       *)
Agree(s, u, at, list) ==
    LET end   == Loop(s, u, at, list)
        gains == Gains(s, list)
    IN  /\ end.ok <=> Ascending(s, list) /\ Allowed(s, u, gains, at)
        /\ end.ok => /\ end.schedule = Moved(s, gains)
                     /\ end.used = Spent(u, gains)
                     /\ gains \in [Deadline -> Shift]

(* Whatever the list and wherever it finds the deadlines, the loop and its  *)
(* closed form agree; so the order in which different deadlines are listed  *)
(* is, as the comment in move_deadlines has it, the caller's business and   *)
(* never the outcome's.                                                     *)
LoopMeetsItsOutcome == Agree(in_force, spent, called_at, moves)

=============================================================================
