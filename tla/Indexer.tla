------------------------------ MODULE Indexer ------------------------------
(***************************************************************************)
(* The indexer's loop for one contract (backend/indexer): pages of events  *)
(* from a node that serves a moving window, the log they are written to,   *)
(* the answers read from contract state beside them, the cursor, and the   *)
(* rows projected from the log; with the crashes and failing calls its     *)
(* comments speak of, and `--rebuild` as the process of its own it is.     *)
(*                                                                         *)
(* An event is its position in `chain`, the order of publication, which is *)
(* also the order the node serves.  What the log knows it by is its ledger *)
(* and the index `indexWithinLedger` cuts from its id, which counts within *)
(* one operation: events of two transactions may share it, or have it the  *)
(* other way around.  A row is what one projected key shows: the last      *)
(* event that shaped it and the answer read for it.  An answer is the last *)
(* event of its row that contract state reflected when it was asked for.   *)
(***************************************************************************)
EXTENDS Naturals, Sequences, FiniteSets, FiniteSetsExt

CONSTANTS
    Row,            \* the keys of the projected tables
    Asking,         \* those whose events prompt a read (reads.ts, ask)
    MaxDrift,       \* MAX_DRIFT_LEDGERS
    NearTheHead,    \* NEAR_THE_HEAD
    MaxRows,        \* how many rows one query returns (supabase/config.toml)
    SplitsLedgers,  \* whether a page may end between two events of a ledger
    RebuildAlone,   \* whether the operator stops the follower to rebuild
    Faults,         \* the steps of a lap at which a call may throw
    MaxLedger,      \* bound: ledgers
    MaxEvents,      \* bound: events on the chain
    MaxFaults       \* bound: crashes, throwing calls and rebuilds

\* Where a lap awaits something, in the order of the code.
Step == {"reading", "refused", "gathering", "storing", "answering", "moving",
         "noting", "checking", "projecting"}

ASSUME IndexerAssumption ==
    /\ Asking \subseteq Row
    /\ MaxDrift \in Nat /\ NearTheHead \in Nat /\ MaxRows \in Nat
    /\ SplitsLedgers \in BOOLEAN /\ RebuildAlone \in BOOLEAN
    /\ Faults \subseteq Step
    /\ MaxLedger \in Nat /\ MaxEvents \in Nat /\ MaxFaults \in Nat

VARIABLES
    head, oldest, chain,    \* the node: newest and oldest ledger, every event
    log,                    \* chain_events
    answers,                \* chain_reads
    cursor,                 \* indexer_cursor.last_ledger, 0 when there is no row
    rows,                   \* the projected tables
    known, stored,          \* cursor.ts: what this process believes of the cursor
    projected,              \* index.ts: whether this process has projected
    doing,                  \* where the loop is, "down" with no process
    page,                   \* the pass under way
    rebuild,                \* where a `--rebuild` is, with what it replayed
    unread,                 \* history: the events whose read failed (the warnings)
    faults                  \* how many have happened

node     == <<head, oldest, chain>>
ledgers  == <<log, answers>>
memory   == <<known, stored, projected, doing, page>>
vars     == <<node, ledgers, cursor, rows, memory, rebuild, unread, faults>>

Event   == [ledger : Nat, index : Nat, row : Row]
Shown   == [event : Nat, seen : Nat]
Belief  == [held : BOOLEAN, at : Nat]

Unset   == [held |-> FALSE, at |-> 0]
At(n)   == [held |-> TRUE, at |-> n]
NoRow   == [event |-> 0, seen |-> 0]
NoRows  == [r \in Row |-> NoRow]
NoPage  == [events |-> {}, through |-> 0, answers |-> {}]
Resting == [at |-> "no", rows |-> NoRows]

\* Published in ledgers from..through.
Between(from, through) == {p \in DOMAIN chain : chain[p].ledger \in from..through}

\* The events that prompt a read.
Prompting(events) == {p \in events : chain[p].row \in Asking}

\* The log's order, of its primary key and of every replay.
Before(p, q) ==
    \/ chain[p].ledger < chain[q].ledger
    \/ chain[p].ledger = chain[q].ledger /\ chain[p].index < chain[q].index

\* Two events the primary key of the log does not tell apart.
Alike(p, q) ==
    p # q /\ chain[p].ledger = chain[q].ledger /\ chain[p].index = chain[q].index

\* An answer is kept under the ledger and the row of the event it was asked for.
SameKey(a, b) ==
    /\ chain[a.event].ledger = chain[b.event].ledger
    /\ chain[a.event].row = chain[b.event].row

Newest(positions) == Max(positions \cup {0})

\* What one unranged query gives back of the log: its first rows.
Replayed == {p \in log : Cardinality({q \in log : Before(q, p)}) < MaxRows}

\* project(decode(events), reads), key by key: the last event in the log's order,
\* with the answer of the latest ledger that has one.
Projection ==
    [r \in Row |->
        LET mine == {p \in Replayed : chain[p].row = r}
            said == {a \in answers : chain[a.event].row = r}
        IN  [event |-> Newest({p \in mine : \A q \in mine : ~Before(p, q)}),
             seen  |-> Newest({a.seen : a \in {b \in said :
                                 \A c \in said : c.event <= b.event}})]]

(* apply: upserts, so a key the projection has no row for keeps its row.  *)
(* `reached` are the keys whose tables were written before a call threw.  *)
Applied(new, reached) ==
    [r \in Row |-> IF new[r].event = 0 \/ r \notin reached THEN rows[r] ELSE new[r]]

Init ==
    /\ head = 1 /\ oldest = 1 /\ chain = <<>>
    /\ log = {} /\ answers = {} /\ cursor = 0
    /\ rows = NoRows
    /\ known = Unset /\ stored = Unset /\ projected = FALSE
    /\ doing = "reading" /\ page = NoPage
    /\ rebuild = Resting /\ unread = {} /\ faults = 0

-----------------------------------------------------------------------------
\* The node.

\* A ledger closes with up to two events of the contract in it, of one operation or
\* of two.  An index is only ever compared, so it need be no more than their number.
CloseLedger ==
    /\ head < MaxLedger
    /\ head' = head + 1
    /\ \E n \in 0..2 : \E shaped \in [1..n -> Row], index \in [1..n -> 1..n] :
        /\ Len(chain) + n <= MaxEvents
        /\ chain' = chain \o [i \in 1..n |->
                        [ledger |-> head + 1, index |-> index[i], row |-> shaped[i]]]
    /\ UNCHANGED <<oldest, ledgers, cursor, rows, memory, rebuild, unread, faults>>

Prune ==
    /\ oldest < head
    /\ oldest' = oldest + 1
    /\ UNCHANGED <<head, chain, ledgers, cursor, rows, memory, rebuild, unread, faults>>

-----------------------------------------------------------------------------
\* One lap of the loop: pass, then health, then perhaps reproject.

\* resumeFrom: the row, for a process that has not read it yet.
Resume == IF known.held THEN known ELSE At(cursor)

\* getEvents from `start`: everything in start..through, or with a full page the
\* part up to some event of the last ledger.
Served(got, start, through) ==
    \/ got = Between(start, through)
    \/ /\ SplitsLedgers /\ got # {}
       /\ got = {p \in Between(start, through) : p <= Newest(got)}
       /\ chain[Newest(got)].ledger = through

Scanned(start) ==
    \E through \in start..head : \E got \in SUBSET Between(start, through) :
        /\ Served(got, start, through)
        /\ page' = [events |-> got, through |-> through, answers |-> {}]
        /\ doing' = IF got = {} THEN "noting" ELSE "gathering"

\* read: from the oldest ledger the first time, and otherwise from the next.
ReadPage ==
    /\ doing = "reading"
    /\ known' = Resume
    /\ stored' = IF known.held THEN stored ELSE At(cursor)
    /\ LET start == IF known'.at = 0 THEN oldest ELSE known'.at + 1
       IN  IF start \in oldest..head
              THEN Scanned(start)
              ELSE doing' = "refused" /\ UNCHANGED page
    /\ UNCHANGED <<node, ledgers, cursor, rows, projected, rebuild, unread, faults>>

\* Mutant of Refused: whichever side it fell off, the pass stands still.
RefusedStandsStill ==
    /\ doing = "refused"
    /\ page' = [NoPage EXCEPT !.through = known.at] /\ doing' = "noting"
    /\ UNCHANGED <<node, ledgers, cursor, rows, known, stored, projected, rebuild, unread, faults>>

\* ask's catch: ahead of the head the pass is empty, behind it jumps to the edge.
Refused ==
    /\ doing = "refused"
    /\ IF known.at + 1 > head
          THEN page' = [NoPage EXCEPT !.through = known.at] /\ doing' = "noting"
          ELSE Scanned(oldest)
    /\ UNCHANGED <<node, ledgers, cursor, rows, known, stored, projected, rebuild, unread, faults>>

LastOf(row) == Newest({p \in DOMAIN chain : chain[p].row = row})

\* gather: state as it is now, once per event; what cannot be read is left out.
Gather ==
    /\ doing = "gathering"
    /\ \E failed \in SUBSET Prompting(page.events) :
        /\ failed # {} => "gathering" \in Faults /\ faults < MaxFaults
        /\ faults' = IF failed = {} THEN faults ELSE faults + 1
        /\ unread' = unread \cup failed
        /\ page' = [events |-> page.events, through |-> page.through,
                    answers |-> {[event |-> p, seen |-> LastOf(chain[p].row)] :
                                    p \in Prompting(page.events) \ failed}]
    /\ doing' = "storing"
    /\ UNCHANGED <<node, ledgers, cursor, rows, known, stored, projected, rebuild>>

\* Mutant of StoreEvents: without their index, the events of a ledger collide.
StoreEventsByLedger ==
    /\ doing = "storing"
    /\ log' = log \cup {p \in page.events :
                            \A q \in page.events : chain[q].ledger = chain[p].ledger => q <= p}
    /\ doing' = "answering"
    /\ UNCHANGED <<node, answers, cursor, rows, known, stored, projected, page, rebuild, unread, faults>>

\* The page names one row of the log twice.
Clashing == \E p, q \in page.events : Alike(p, q)

\* store, its first half: an upsert that Postgres refuses for a key given twice.
\* What it replaces are the same events: pages hold ledgers from their beginning,
\* so that one with a later event of a key has the earlier one too.
StoreEvents ==
    /\ doing = "storing"
    /\ ~Clashing
    /\ log' = log \cup page.events
    /\ doing' = "answering"
    /\ UNCHANGED <<node, answers, cursor, rows, known, stored, projected, page, rebuild, unread, faults>>

\* Two submissions of a team in one ledger ask twice under one key.
Twins == \E a, b \in page.answers : a # b /\ SameKey(a, b)

\* Mutant of StoreReads: what the upsert returned is not looked at.
StoreReadsUnchecked ==
    /\ doing = "answering"
    /\ answers' = IF Twins THEN answers
                  ELSE {a \in answers : \A b \in page.answers : ~SameKey(a, b)} \cup page.answers
    /\ doing' = "moving"
    /\ UNCHANGED <<node, log, cursor, rows, known, stored, projected, page, rebuild, unread, faults>>

\* store, its second half: an upsert that Postgres refuses for a key given twice.
StoreReads ==
    /\ doing = "answering"
    /\ ~Twins
    /\ answers' = {a \in answers : \A b \in page.answers : ~SameKey(a, b)} \cup page.answers
    /\ doing' = "moving"
    /\ UNCHANGED <<node, log, cursor, rows, known, stored, projected, page, rebuild, unread, faults>>

\* cursor.ts, write: the row, and then the memory of it.
WriteCursor(ledger) ==
    /\ cursor' = ledger
    /\ known' = At(ledger)
    /\ stored' = At(ledger)

\* advanceTo: only ever forwards.
MoveCursor ==
    /\ doing = "moving"
    /\ IF page.through > known.at
          THEN WriteCursor(page.through)
          ELSE UNCHANGED <<cursor, known, stored>>
    /\ doing' = "checking"
    /\ UNCHANGED <<node, ledgers, rows, projected, page, rebuild, unread, faults>>

Drifted == page.through - stored.at >= MaxDrift

\* Mutant of NoteProgress: an empty page is taken for nothing up to the head.
NoteProgressToTheHead ==
    /\ doing = "noting"
    /\ known' = At(head) /\ UNCHANGED <<cursor, stored>>
    /\ doing' = "checking"
    /\ UNCHANGED <<node, ledgers, rows, projected, page, rebuild, unread, faults>>

\* noteProgress: the row only now and then.
NoteProgress ==
    /\ doing = "noting"
    /\ IF page.through > known.at
          THEN IF Drifted
                  THEN WriteCursor(page.through)
                  ELSE known' = At(page.through) /\ UNCHANGED <<cursor, stored>>
          ELSE UNCHANGED <<cursor, known, stored>>
    /\ doing' = "checking"
    /\ UNCHANGED <<node, ledgers, rows, projected, page, rebuild, unread, faults>>

\* Mutant of Health: what a pass found does not undo the last projection.
HealthForgetful ==
    /\ doing = "checking"
    /\ doing' = IF head > known.at + NearTheHead \/ projected THEN "reading" ELSE "projecting"
    /\ page' = NoPage
    /\ UNCHANGED <<node, ledgers, cursor, rows, known, stored, projected, rebuild, unread, faults>>

\* health, and what follow does with its answer and with what the pass found.
Health ==
    /\ doing = "checking"
    /\ projected' = (projected /\ page.events = {})
    /\ doing' = IF head > known.at + NearTheHead \/ projected' THEN "reading" ELSE "projecting"
    /\ page' = NoPage
    /\ UNCHANGED <<node, ledgers, cursor, rows, known, stored, rebuild, unread, faults>>

Reproject ==
    /\ doing = "projecting"
    /\ rows' = Applied(Projection, Row)
    /\ projected' = TRUE
    /\ doing' = "reading"
    /\ UNCHANGED <<node, ledgers, cursor, known, stored, page, rebuild, unread, faults>>

-----------------------------------------------------------------------------
\* What may go wrong.

\* A call throws: the lap of this contract ends there, and its pass is lost.
\* A scan noted is already known when the write of the row throws, and a
\* projection that throws has written some of the tables.
Throw ==
    /\ \/ doing \in Faults /\ faults < MaxFaults /\ faults' = faults + 1
       \/ doing = "storing" /\ Clashing /\ UNCHANGED faults
       \/ doing = "answering" /\ Twins /\ UNCHANGED faults
    /\ IF doing = "noting" /\ Drifted /\ page.through > known.at
          THEN known' = At(page.through)
          ELSE UNCHANGED known
    /\ IF doing = "projecting"
          THEN \E reached \in SUBSET Row : rows' = Applied(Projection, reached)
          ELSE UNCHANGED rows
    /\ doing' = "reading" /\ page' = NoPage
    /\ UNCHANGED <<node, ledgers, cursor, stored, projected, rebuild, unread>>

\* The row was written and the answer to that write never came.
LoseAnswer ==
    /\ doing = "moving" /\ doing \in Faults
    /\ page.through > known.at
    /\ faults < MaxFaults /\ faults' = faults + 1
    /\ cursor' = page.through
    /\ doing' = "reading" /\ page' = NoPage
    /\ UNCHANGED <<node, ledgers, rows, known, stored, projected, rebuild, unread>>

\* The process stops, by a crash or for a rebuild, and forgets.
Stop ==
    /\ doing # "down"
    /\ faults < MaxFaults /\ faults' = faults + 1
    /\ known' = Unset /\ stored' = Unset /\ projected' = FALSE
    /\ doing' = "down" /\ page' = NoPage
    /\ UNCHANGED <<node, ledgers, cursor, rows, rebuild, unread>>

Start ==
    /\ doing = "down"
    /\ RebuildAlone => rebuild.at = "no"
    /\ doing' = "reading"
    /\ UNCHANGED <<node, ledgers, cursor, rows, known, stored, projected, page, rebuild, unread, faults>>

-----------------------------------------------------------------------------
\* `--rebuild`, in a process of its own.

\* Mutant of Alone: a rebuild while the follower runs.
AloneOrNot == doing \in Step \cup {"down"}

\* What the operator sees to before a rebuild.
Alone == RebuildAlone => doing = "down"

Discard ==
    /\ rebuild.at = "no" /\ Alone
    /\ faults < MaxFaults /\ faults' = faults + 1
    /\ rows' = NoRows
    /\ rebuild' = [rebuild EXCEPT !.at = "rewinding"]
    /\ UNCHANGED <<node, ledgers, cursor, memory, unread>>

Rewind ==
    /\ rebuild.at = "rewinding"
    /\ cursor' = 0
    /\ rebuild' = [rebuild EXCEPT !.at = "replaying"]
    /\ UNCHANGED <<node, ledgers, rows, memory, unread, faults>>

Replay ==
    /\ rebuild.at = "replaying"
    /\ rebuild' = [at |-> "applying", rows |-> Projection]
    /\ UNCHANGED <<node, ledgers, cursor, rows, memory, unread, faults>>

Apply ==
    /\ rebuild.at = "applying"
    /\ rows' = Applied(rebuild.rows, Row)
    /\ rebuild' = Resting
    /\ UNCHANGED <<node, ledgers, cursor, memory, unread, faults>>

\* It throws, or is stopped, part of the way.
GiveUp ==
    /\ rebuild.at # "no"
    /\ IF rebuild.at = "applying"
          THEN \E reached \in SUBSET Row : rows' = Applied(rebuild.rows, reached)
          ELSE UNCHANGED rows
    /\ rebuild' = Resting
    /\ UNCHANGED <<node, ledgers, cursor, memory, unread, faults>>

-----------------------------------------------------------------------------
Lap == \/ ReadPage \/ Refused \/ Gather \/ StoreEvents \/ StoreReads
       \/ MoveCursor \/ NoteProgress \/ Health \/ Reproject

Rebuild == Discard \/ Rewind \/ Replay \/ Apply \/ GiveUp

Next == CloseLedger \/ Prune \/ Lap \/ Throw \/ LoseAnswer \/ Stop \/ Start \/ Rebuild

\* The loop runs forever, its host restarts it, and a rebuild begun is let end.
Fairness ==
    /\ WF_vars(Lap) /\ WF_vars(Start)
    /\ WF_vars(Rewind \/ Replay \/ Apply)

Spec == Init /\ [][Next]_vars /\ Fairness

-----------------------------------------------------------------------------
\* Types: positions are those of the chain, and what is shown is of the chain.
IndexerTypeOK ==
    /\ head \in 1..MaxLedger /\ oldest \in 1..head
    /\ chain \in Seq(Event) /\ \A p \in DOMAIN chain : chain[p].ledger \in 1..head
    /\ log \subseteq DOMAIN chain
    /\ answers \subseteq [event : DOMAIN chain, seen : DOMAIN chain]
    /\ cursor \in 0..head
    /\ rows \in [Row -> Shown]
    /\ known \in Belief /\ stored \in Belief /\ known.at <= head /\ stored.at <= head
    /\ projected \in BOOLEAN
    /\ doing \in Step \cup {"down"}
    /\ page.events \subseteq DOMAIN chain /\ page.through \in 0..head
    /\ page.answers \subseteq [event : page.events, seen : DOMAIN chain]
    /\ rebuild.at \in {"no", "rewinding", "replaying", "applying"}
    /\ rebuild.rows \in [Row -> Shown]
    /\ unread \subseteq DOMAIN chain
    /\ faults \in 0..MaxFaults

\* Nothing is missing up to a ledger but what the node had stopped serving.
LoggedUpTo(ledger) ==
    \A p \in DOMAIN chain :
        chain[p].ledger <= ledger => p \in log \/ chain[p].ledger < oldest

\* The cursor is never past rows that did not land (ingest.ts:157-159), in the
\* database or in the memory that is carried on from.
NothingSkipped ==
    /\ LoggedUpTo(cursor)
    /\ known.held => LoggedUpTo(known.at)

\* Every logged event behind the cursor that prompts a read has its answer beside
\* it; or its read failed and said so (reads.ts:31); or the node dropped the event
\* before a pass that was cut short could be repeated.
Answered(p) ==
    \/ \E a \in answers : a.event = p
    \/ p \in unread
    \/ chain[p].ledger < oldest

AnswersBesideTheirEvents ==
    \A p \in Prompting(log) : chain[p].ledger <= cursor => Answered(p)

\* However passes are repeated, cut short or replayed, no row goes back to an
\* older event or answer, but for a rebuild throwing every row away.
RowsNeverGoBack ==
    [][Discard \/ \A r \in Row : rows'[r].event >= rows[r].event
                                 /\ rows'[r].seen >= rows[r].seen]_vars

\* The log is the archive its comments say it is (ingest.ts:105).
Archive == INSTANCE EventArchive WITH archive <- log, covered <- cursor

ImplementsEventArchive == Archive!Spec

\* What the node no longer serves.
Dropped(p) == p \in Between(0, oldest - 1)

NoTwins ==
    \A p, q \in DOMAIN chain :
        p # q /\ chain[p].ledger = chain[q].ledger /\ chain[p].row = chain[q].row
            => chain[p].row \notin Asking

ToldApart == \A p, q \in DOMAIN chain : ~Alike(p, q)

\* The premise of both below: no upsert names one key twice, neither of the answers
\* nor of the events.
KeysAreUnique == [](NoTwins /\ ToldApart)

LoggedInTheEnd(p) == p \in DOMAIN chain ~> p \in log \/ Dropped(p)

\* Unless a ledger holds one team's submission twice or two events of one index,
\* whatever the node goes on serving is logged in the end, through every throw,
\* crash and rebuild.
EverythingIsLogged == KeysAreUnique => \A p \in 1..MaxEvents : LoggedInTheEnd(p)

\* And what is logged is shown in the end, or what comes after it in the log: rows
\* are what the log says, never the leftovers of the passes that happened to run
\* (index.ts:16-19).
Showing(p) ==
    LET shown == rows[chain[p].row].event
    IN  p \in log /\ shown # 0 /\ (shown = p \/ Before(p, shown))

LoggedIsShown ==
    KeysAreUnique => \A p \in 1..MaxEvents : p \in log ~> Showing(p) \/ Dropped(p)
=============================================================================
