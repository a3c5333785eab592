---------------------------- MODULE SealedReveal ----------------------------
(***************************************************************************)
(* How sealed scorecards and ballots reach the chain.                      *)
(*                                                                         *)
(* Judges and voters send signed, time-locked entries to the sealer        *)
(* (backend/sealer), which keeps one row per slot.  A loop in the sealer   *)
(* publishes the root of what it holds once the window shut, opens every   *)
(* entry under that root in Reveal, and asks for the ranking when all of   *)
(* that went through.  The contract (publish_score_root, reveal_score,     *)
(* publish_ballot_root, reveal_ballot, finalize_results) decides each      *)
(* call.  Everything the loop reads, it reads at one moment and uses at a  *)
(* later one, and intake goes on in between, on the word of a projection   *)
(* of the phase that lags behind the chain.                                *)
(*                                                                         *)
(* A Merkle root stands for the set of leaves it was built from, since     *)
(* seal.ts sorts them: a proof taken from a tree verifies exactly when     *)
(* tree and root are of the same set.                                      *)
(***************************************************************************)
EXTENDS Lifecycle

CONSTANTS
    Leaf,         \* the signed entries that may be sent
    KindOf,       \* of each, "scorecards" or "ballots"
    SlotOf,       \* of each, its row: a judge on a team, or a voter
    Ineligible,   \* slots the contract does not count: no judge of it, no vote
    Unreadable,   \* entries whose envelope does not open to what was signed
    Invalid,      \* entries that open, and that the rubric or the rules refuse
    MaxFailures   \* bound: laps of the sealer cut off by a failure

Kind == {"scorecards", "ballots"}

Slot == {SlotOf[l] : l \in Leaf}

ValidEntries ==
    /\ KindOf \in [Leaf -> Kind]
    /\ \A l, m \in Leaf : SlotOf[l] = SlotOf[m] => KindOf[l] = KindOf[m]
    /\ Unreadable \subseteq Leaf /\ Invalid \subseteq Leaf
    /\ Ineligible \subseteq Slot

ASSUME EntriesAssumption == ValidEntries /\ MaxFailures \in Nat

VARIABLES
    held,      \* the sealer's rows
    root,      \* the roots on chain, as the leaves under them; {} is none
    recorded,  \* the entries the contract has counted
    recused,   \* the slots whose judge stepped away
    collecting,\* whether the projection has the phase Judging
    asked,     \* POST /seal under way, one at a time: the leaves it has read
    lap,       \* where the sealer's loop is
    failures   \* laps that ended in an exception

onchain == <<root, recorded, recused>>
sealer  == <<held, collecting, asked, lap, failures>>
sealing == <<onchain, sealer>>
event   == <<lifecycle, sealing>>

OfKind(leaves, k) == {l \in leaves : KindOf[l] = k}

Nothing == [k \in Kind |-> {}]

(***************************************************************************)
(* One lap of rounds.ts for this event.  While sealing, `trees` are the    *)
(* leaves read and not yet published.  While revealing, `todo` are the     *)
(* entries read and not yet tried, `trees` the trees rebuilt so far, and   *)
(* `clean` says that nothing has been reported.                            *)
(***************************************************************************)
Idle == [doing |-> "nothing", todo |-> {}, trees |-> Nothing, clean |-> TRUE]

Laps == [doing : {"nothing", "sealing", "revealing"},
         todo  : SUBSET Leaf,
         trees : [Kind -> SUBSET Leaf],
         clean : BOOLEAN]

OnePerSlot(leaves) == \A l, m \in leaves : SlotOf[l] = SlotOf[m] => l = m

(* Every variable has its type, and no set of entries that was read from    *)
(* the sealer's table, published or counted has two of one slot.            *)
SealedTypeOK ==
    /\ held \in SUBSET Leaf
    /\ root \in [Kind -> SUBSET Leaf]
    /\ recorded \in SUBSET Leaf
    /\ recused \in SUBSET Slot
    /\ collecting \in BOOLEAN
    /\ asked \in SUBSET Leaf
    /\ lap \in Laps
    /\ failures \in 0..MaxFailures
    /\ OnePerSlot(held) /\ OnePerSlot(asked)
    /\ \A k \in Kind : /\ OnePerSlot(root[k]) /\ OnePerSlot(lap.trees[k])
                       /\ root[k] \cup lap.trees[k] \subseteq OfKind(Leaf, k)
    /\ \A l, m \in asked : KindOf[l] = KindOf[m]

SealedInit ==
    /\ Init
    /\ held = {}
    /\ root = Nothing
    /\ recorded = {}
    /\ recused = {}
    /\ collecting = FALSE
    /\ asked = {}
    /\ lap = Idle
    /\ failures = 0

-----------------------------------------------------------------------------
(***************************************************************************)
(* The contract's answers.                                                 *)
(***************************************************************************)

\* The deadline each root waits for.
Closes == [scorecards |-> "judging_closes_at",
           ballots    |-> "community_vote_closes_at"]

\* Mutant of MayPublish: a second root replaces the first.
MayPublishAgain(k) ==
    /\ k = "ballots" => VoteEnabled
    /\ phase = "Judging"
    /\ now >= schedule[Closes[k]]

(* publish_score_root, publish_ballot_root: the sealer named by the         *)
(* constitution, in Judging, after the window, once                         *)
MayPublish(k) ==
    /\ k = "ballots" => VoteEnabled
    /\ phase = "Judging"
    /\ now >= schedule[Closes[k]]
    /\ root[k] = {}

(* A root is sent to the contract, which stores it or refuses it. *)
Sent(k, leaves) ==
    root' = IF MayPublish(k) THEN [root EXCEPT ![k] = leaves] ELSE root

\* Mutant of Countable: a recusal does not keep the card from counting.
CountableDespiteRecusal(l) ==
    /\ \A m \in recorded : SlotOf[m] # SlotOf[l]
    /\ SlotOf[l] \notin Ineligible

(* Neither already counted, nor of somebody who may not judge or vote, nor  *)
(* of a judge who stepped away.                                             *)
Countable(l) ==
    /\ \A m \in recorded : SlotOf[m] # SlotOf[l]
    /\ SlotOf[l] \notin Ineligible \cup recused

(* reveal_score, reveal_ballot, given a proof taken from this tree *)
Accepts(l, tree) ==
    /\ phase = "Reveal"
    /\ tree = root[KindOf[l]]
    /\ Countable(l)
    /\ l \notin Invalid

\* Mutant of Objects: a proof that does not match is taken for an ordinary refusal.
ObjectsToTheRubricAlone(l, tree) ==
    /\ phase = "Reveal"
    /\ tree = root[KindOf[l]]
    /\ Countable(l)
    /\ l \in Invalid

\* Mutant of Objects: a judge who stepped away is taken for a fault.
ObjectsToRecusal(l, tree) ==
    /\ phase = "Reveal"
    /\ root[KindOf[l]] # {}
    /\ \/ tree # root[KindOf[l]]
       \/ SlotOf[l] \in recused
       \/ Countable(l) /\ l \in Invalid

(* The refusals outside EXPECTED: the proof does not lead to the root, or   *)
(* the entry passed every check before the rubric and failed that one.      *)
Objects(l, tree) ==
    /\ phase = "Reveal"
    /\ root[KindOf[l]] # {}
    /\ \/ tree # root[KindOf[l]]
       \/ Countable(l) /\ l \in Invalid

-----------------------------------------------------------------------------
(***************************************************************************)
(* Judges, voters and the projection.                                      *)
(***************************************************************************)

\* Mutant of Take: a second entry is added beside the first.
TakeBesideTheFirst(l) ==
    /\ collecting
    /\ l \notin held
    /\ held' = held \cup {l}
    /\ UNCHANGED <<lifecycle, onchain, collecting, asked, lap, failures>>

(* POST /scorecard, POST /ballot: the phase is the projection's, and the    *)
(* row of the slot is written over.  The phase is read some awaits before   *)
(* the write; the lag of Project stands for that delay too.                 *)
Take(l) ==
    /\ collecting
    /\ l \notin held
    /\ held' = {m \in held : SlotOf[m] # SlotOf[l]} \cup {l}
    /\ UNCHANGED <<lifecycle, onchain, collecting, asked, lap, failures>>

(* The indexer catches up with the phase. *)
Project ==
    /\ collecting' = (phase = "Judging")
    /\ collecting' # collecting
    /\ UNCHANGED <<lifecycle, onchain, held, asked, lap, failures>>

(* recuse: a judge of the team's track, until the window shuts *)
Recuse(s) ==
    /\ phase = "Judging"
    /\ now <= schedule["judging_closes_at"]
    /\ s \notin Ineligible \cup recused
    /\ \E l \in OfKind(Leaf, "scorecards") : SlotOf[l] = s
    /\ recused' = recused \cup {s}
    /\ UNCHANGED <<lifecycle, root, recorded, sealer>>

(* reveal_score, reveal_ballot by anybody who can prove an entry *)
RevealByAnyone(l) ==
    /\ l \in root[KindOf[l]]
    /\ Accepts(l, root[KindOf[l]])
    /\ recorded' = recorded \cup {l}
    /\ UNCHANGED <<lifecycle, root, recused, sealer>>

-----------------------------------------------------------------------------
(***************************************************************************)
(* POST /seal: the leaves are read in one step and the root built from     *)
(* them is sent in a later one.                                            *)
(***************************************************************************)

AskToSeal(k) ==
    /\ asked = {}
    /\ asked' = OfKind(held, k)
    /\ asked' # {}
    /\ UNCHANGED <<lifecycle, onchain, held, collecting, lap, failures>>

AnswerSeal ==
    /\ \E l \in asked : Sent(KindOf[l], asked)
    /\ asked' = {}
    /\ UNCHANGED <<lifecycle, recorded, recused, held, collecting, lap, failures>>

-----------------------------------------------------------------------------
(***************************************************************************)
(* The sealer's loop.  A call sent after its simulation went through may   *)
(* still be refused by a ledger that moved on; that throws, and the lap is *)
(* abandoned.                                                              *)
(***************************************************************************)

Publishing(trees) ==
    IF trees = Nothing THEN Idle
    ELSE [doing |-> "sealing", todo |-> {}, trees |-> trees, clean |-> TRUE]

(* round, work: in Judging, the leaves of both tables *)
BeginSealing ==
    /\ lap.doing = "nothing"
    /\ phase = "Judging"
    /\ lap' = Publishing([k \in Kind |-> OfKind(held, k)])
    /\ UNCHANGED <<lifecycle, onchain, held, collecting, asked, failures>>

(* The root of the scorecards first, then that of the ballots. *)
SendRoot(k) ==
    /\ lap.doing = "sealing"
    /\ lap.trees[k] # {}
    /\ k = "ballots" => lap.trees["scorecards"] = {}
    /\ Sent(k, lap.trees[k])
    /\ lap' = Publishing([lap.trees EXCEPT ![k] = {}])
    /\ UNCHANGED <<lifecycle, recorded, recused, held, collecting, asked, failures>>

(* round, work: in Reveal, the entries of both tables; those whose envelope *)
(* does not open to what was signed are left out without a report           *)
BeginReveal ==
    /\ lap.doing = "nothing"
    /\ phase = "Reveal"
    /\ lap' = [doing |-> "revealing", todo  |-> held \ Unreadable,
               trees |-> Nothing,     clean |-> TRUE]
    /\ UNCHANGED <<lifecycle, onchain, held, collecting, asked, failures>>

(* The tree is rebuilt from a second read of the table, that of the ballots *)
(* when the scorecards are done.                                            *)
RebuildTree(k) ==
    /\ lap.doing = "revealing"
    /\ OfKind(lap.todo, k) # {}
    /\ lap.trees[k] = {}
    /\ k = "ballots" => OfKind(lap.todo, "scorecards") = {}
    /\ lap' = [lap EXCEPT !.trees[k] = OfKind(held, k)]
    /\ UNCHANGED <<lifecycle, onchain, held, collecting, asked, failures>>

(* One entry: reported when it is not in the tree or the contract objects,  *)
(* counted when the contract accepts it, and passed over otherwise.         *)
RevealNext(l) ==
    LET tree == lap.trees[KindOf[l]] IN
    /\ lap.doing = "revealing"
    /\ l \in lap.todo
    /\ tree # {}
    /\ recorded' = IF l \in tree /\ Accepts(l, tree) THEN recorded \cup {l} ELSE recorded
    /\ lap' = [lap EXCEPT !.todo = @ \ {l},
                          !.clean = @ /\ l \in tree /\ ~ Objects(l, tree)]
    /\ UNCHANGED <<lifecycle, root, recused, held, collecting, asked, failures>>

(* After a clean lap, the ranking.  No disqualification case is open here.  *)
Rank ==
    /\ lap.doing = "revealing"
    /\ lap.todo = {}
    /\ lap.clean
    /\ FinalizeResults(FALSE)
    /\ lap' = Idle
    /\ UNCHANGED <<onchain, held, collecting, asked, failures>>

(* A lap that reported something, or that finds the event ranked already.   *)
GiveUp ==
    /\ lap.doing = "revealing"
    /\ lap.todo = {}
    /\ ~ lap.clean \/ phase # "Reveal"
    /\ lap' = Idle
    /\ UNCHANGED <<lifecycle, onchain, held, collecting, asked, failures>>

(* An exception: the node or the beacon did not answer, the process died.   *)
Abandon ==
    /\ lap.doing # "nothing"
    /\ failures < MaxFailures
    /\ failures' = failures + 1
    /\ lap' = Idle
    /\ UNCHANGED <<lifecycle, onchain, held, collecting, asked>>

SealerStep ==
    \/ BeginSealing \/ BeginReveal \/ Rank \/ GiveUp
    \/ \E k \in Kind : SendRoot(k) \/ RebuildTree(k)
    \/ \E l \in Leaf : RevealNext(l)

SealedNext ==
    \/ Next /\ UNCHANGED sealing
    \/ SealerStep \/ Abandon \/ Project \/ AnswerSeal
    \/ \E l \in Leaf : Take(l) \/ RevealByAnyone(l)
    \/ \E s \in Slot : Recuse(s)
    \/ \E k \in Kind : AskToSeal(k)

SealedSpec == SealedInit /\ [][SealedNext]_event

(* sealsMissing in the clock: it leaves Judging only when the scores' root  *)
(* is out, and the ballots' where the crowd votes.                          *)
SealsOut == root["scorecards"] # {} /\ (VoteEnabled => root["ballots"] # {})

(* Time passes, the clock closes windows, the sealer's loop goes on and the *)
(* projection catches up some time.  Nothing is assumed of judges, voters   *)
(* or the organizer.                                                        *)
SealedFairness ==
    /\ WF_event(Tick /\ UNCHANGED sealing)
    /\ WF_event((phase = "Judging" => SealsOut) /\ AdvancePhase /\ UNCHANGED sealing)
    /\ WF_event(SealerStep)
    /\ WF_event(Project)

FairSealedSpec == SealedSpec /\ SealedFairness

-----------------------------------------------------------------------------
(***************************************************************************)
(* What sealed judging promises.                                           *)
(***************************************************************************)

Stage ==
    IF phase \in {"Draft", "Funding", "Open", "Screening", "Judging"} THEN "collecting"
    ELSE IF phase = "Reveal" THEN "opening" ELSE "closed"

Cards == INSTANCE CommitReveal
    WITH stage <- Stage, sealed <- root["scorecards"],
         shown <- OfKind(recorded, "scorecards")

Votes == INSTANCE CommitReveal
    WITH stage <- Stage, sealed <- root["ballots"],
         shown <- OfKind(recorded, "ballots")

(* Scorecards and ballots each go through one round of commit and reveal,   *)
(* whatever the sealer's two reads of a changing table, its retries, POST   *)
(* /seal and anybody else's reveals do between them.                        *)
ImplementsCommitReveal == Cards!RoundSpec /\ Votes!RoundSpec

(* A judge who stepped away before the window shut is not in the result,    *)
(* although the sealer commits to the card they had sent.                   *)
RecusedDoNotCount == \A l \in recorded : SlotOf[l] \notin recused

(* When the sealer asks for the ranking, every entry committed to is on     *)
(* chain, or is one the contract does not count; slots that ever held an    *)
(* envelope that does not open are the exception the sealer leaves out.     *)
RankedWithEveryEntry ==
    [][Rank => \A k \in Kind : \A l \in root[k] :
          \/ l \in recorded
          \/ SlotOf[l] \in Ineligible \cup recused
          \/ \E m \in Unreadable : SlotOf[m] = SlotOf[l]]_event

(* With entries of every kind the rules ask for, none of them refused by    *)
(* the rubric and none arriving after the leaves under its root were read,  *)
(* judging ends in a ranking or the event is called off.                    *)
InGoodOrder ==
    /\ held \cap Invalid = {}
    /\ \A k \in Kind : root[k] # {} => OfKind(held, k) = root[k]

JudgedEventIsRanked ==
    []InGoodOrder =>
        (/\ phase = "Judging"
         /\ OfKind(held, "scorecards") # {}
         /\ VoteEnabled => OfKind(held, "ballots") # {})
        ~> phase \in {"Finalization", "Settlement", "Completed", "Cancelled"}

=============================================================================
