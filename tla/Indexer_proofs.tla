--------------------------- MODULE Indexer_proofs ---------------------------
(***************************************************************************)
(* What the indexer's writes guarantee, for every number of ledgers,       *)
(* events, crashes and throwing calls, with the follower and a rebuild     *)
(* side by side or not: as long as a page does not end inside a ledger,    *)
(* the cursor is never past a row that did not land.                       *)
(*                                                                         *)
(* A pass is safe to be cut off anywhere because of what its page says     *)
(* before anything is written: up to `through`, all that the node still    *)
(* served is in the log or on the page.  Each write turns one side of that *)
(* into the other, and the cursor only takes over `through` at the end.    *)
(*                                                                         *)
(* Rows are projected from the log and the answers, so they can only go    *)
(* back if what is projected does.  The last part shows that the log grows *)
(* at its end alone, by whole ledgers, so that the order of its keys, which *)
(* may not be that of publication, moves no row between two projections;   *)
(* and that the answer a row shows only gets younger.                      *)
(***************************************************************************)
EXTENDS Indexer, SequenceTheorems, SumTheorems

\* The node's ledgers only grow, and events lie in closed ledgers.
NodeInv ==
    /\ head \in Nat /\ oldest \in Nat
    /\ chain \in Seq(Event)
    /\ \A p \in DOMAIN chain : chain[p].ledger \in 1..head
    /\ log \subseteq DOMAIN chain

\* Cursor, memory and page never claim a ledger that is not closed yet.
ClaimsInv ==
    /\ cursor \in Nat /\ cursor <= head
    /\ known \in Belief /\ known.at <= head
    /\ page.through \in Nat /\ page.through <= head
    /\ page.events \subseteq DOMAIN chain
    /\ \A p \in page.events : chain[p].ledger <= page.through

\* A pass is under way only in a process that has read its cursor.
LapInv == doing \notin {"down", "reading"} => known.held

Writing == {"gathering", "storing", "answering", "moving", "noting"}

\* What a page does not hold up to its end was logged before it, or is gone.
PageInv ==
    /\ doing \in Writing =>
        \A p \in DOMAIN chain :
            chain[p].ledger <= page.through =>
                p \in log \/ p \in page.events \/ chain[p].ledger < oldest
    /\ doing \in {"answering", "moving"} => page.events \subseteq log
    /\ doing = "noting" => page.events = {}

SkipInv == NodeInv /\ ClaimsInv /\ LapInv /\ PageInv /\ NothingSkipped

\* The same of the answers: each event up to a ledger that prompts a read has its
\* answer, or is excused.
AnsweredUpTo(ledger) ==
    \A p \in DOMAIN chain :
        chain[p].row \in Asking /\ chain[p].ledger <= ledger => Answered(p)

PageAnswersInv ==
    /\ doing \in Writing =>
        \A p \in DOMAIN chain :
            chain[p].row \in Asking /\ chain[p].ledger <= page.through =>
                p \in page.events \/ Answered(p)
    /\ doing \in Writing =>
        \A p \in page.events : \A q \in DOMAIN chain :
            chain[q].ledger = chain[p].ledger => q \in page.events
    /\ doing \in {"storing", "answering"} =>
        \A p \in Prompting(page.events) :
            (\E a \in page.answers : a.event = p) \/ p \in unread
    /\ doing \in {"storing", "answering"} =>
        \A a \in page.answers : a.event \in page.events
    /\ doing = "moving" => \A p \in Prompting(page.events) : Answered(p)

AnswersInv ==
    /\ PageAnswersInv
    /\ AnsweredUpTo(cursor)
    /\ known.held => AnsweredUpTo(known.at)

-----------------------------------------------------------------------------
(***************************************************************************)
(* The chain only grows past the head, so what was said of the ledgers up  *)
(* to one that is closed still stands.                                     *)
(***************************************************************************)
LEMMA ChainGrows ==
    ASSUME NodeInv, CloseLedger
    PROVE  /\ head' = head + 1
           /\ chain' \in Seq(Event)
           /\ DOMAIN chain \subseteq DOMAIN chain'
           /\ \A p \in DOMAIN chain : chain'[p] = chain[p]
           /\ \A p \in DOMAIN chain' \ DOMAIN chain : chain'[p].ledger = head'
           /\ SubSeq(chain', 1, Len(chain)) = chain
  <1> USE DEF NodeInv
  <1>1. PICK n \in 0..2 : \E shaped \in [1..n -> Row], index \in [1..n -> 1..n] :
            chain' = chain \o [i \in 1..n |->
                        [ledger |-> head + 1, index |-> index[i], row |-> shaped[i]]]
    BY DEF CloseLedger
  <1>2. PICK shaped \in [1..n -> Row], index \in [1..n -> 1..n] :
            chain' = chain \o [i \in 1..n |->
                        [ledger |-> head + 1, index |-> index[i], row |-> shaped[i]]]
    BY <1>1
  <1> DEFINE new == [i \in 1..n |->
                        [ledger |-> head + 1, index |-> index[i], row |-> shaped[i]]]
  <1>3. head' = head + 1
    BY DEF CloseLedger
  <1>4. new \in Seq(Event) /\ Len(new) = n
    <2>1. \A i \in 1..n : new[i] \in Event
      BY <1>2 DEF Event
    <2>2. new \in [1..n -> Event]
      BY <2>1
    <2> QED
      BY <2>2, n \in Nat
  <1>5. \A i \in 1..n : new[i].ledger = head + 1
    OBVIOUS
  <1> HIDE DEF new
  <1>6. chain' = chain \o new
    BY <1>2 DEF new
  <1>7. chain' \in Seq(Event) /\ Len(chain') = Len(chain) + n
    <2>1. chain \in Seq(Event)
      OBVIOUS
    <2>2. chain \o new \in Seq(Event) /\ Len(chain \o new) = Len(chain) + Len(new)
      <3> HIDE DEF NodeInv
      <3> QED
        BY <1>4, <2>1
    <2> QED
      BY <1>4, <1>6, <2>2
  <1>8. \A p \in DOMAIN chain : chain'[p] = chain[p]
    BY <1>4, <1>6
  <1>9. \A p \in DOMAIN chain' \ DOMAIN chain : chain'[p] = new[p - Len(chain)] /\ p - Len(chain) \in 1..n
    <2> SUFFICES ASSUME NEW p \in DOMAIN chain', p \notin DOMAIN chain
                 PROVE  chain'[p] = new[p - Len(chain)] /\ p - Len(chain) \in 1..n
      OBVIOUS
    <2>1. chain \in Seq(Event) /\ Len(chain) \in Nat /\ DOMAIN chain = 1..Len(chain) /\ n \in Nat
      OBVIOUS
    <2>2. DOMAIN chain' = 1..(Len(chain) + n)
      BY <1>7, <2>1
    <2>3. p \in Len(chain)+1 .. Len(chain)+n
      BY <2>1, <2>2
    <2>4. (chain \o new)[p] = new[p - Len(chain)]
      BY <1>4, <2>1, <2>3
    <2> QED
      BY <1>6, <2>1, <2>3, <2>4
  <1>10. DOMAIN chain \subseteq DOMAIN chain'
    BY <1>7
  <1>11. SubSeq(chain', 1, Len(chain)) = chain
    <2> DEFINE part == SubSeq(chain', 1, Len(chain))
    <2>1. chain \in Seq(Event) /\ Len(chain) \in Nat /\ DOMAIN chain = 1..Len(chain)
      OBVIOUS
    <2>2. part \in Seq(Event) /\ Len(part) = Len(chain)
      BY <1>7, <2>1
    <2>3. \A i \in 1..Len(part) : part[i] = chain[i]
      <3>1. \A i \in 1..Len(chain) : part[i] = chain'[i] /\ chain'[i] = chain[i]
        BY <1>7, <1>8, <2>1
      <3> QED
        BY <2>2, <3>1
    <2> HIDE DEF part
    <2>4. part = chain
      BY <2>1, <2>2, <2>3, SeqEqual
    <2> QED
      BY <2>4 DEF part
  <1> QED
    BY <1>3, <1>5, <1>7, <1>8, <1>9, <1>10, <1>11

LEMMA LedgersAreNumbers ==
    ASSUME NodeInv
    PROVE  \A p \in DOMAIN chain : chain[p].ledger \in Nat
  BY DEF NodeInv

(***************************************************************************)
(* Every page runs from a ledger up to which all is logged, or gone.       *)
(***************************************************************************)
LEMMA PageScanned ==
    ASSUME NodeInv, ~SplitsLedgers,
           NEW start \in Nat, Scanned(start),
           \A p \in DOMAIN chain :
                chain[p].ledger < start => p \in log \/ chain[p].ledger < oldest
    PROVE  /\ doing' \in {"noting", "gathering"}
           /\ page'.through \in start..head
           /\ page'.events = Between(start, page'.through)
           /\ doing' = "noting" => page'.events = {}
           /\ \A p \in DOMAIN chain :
                chain[p].ledger <= page'.through =>
                    p \in log \/ p \in page'.events \/ chain[p].ledger < oldest
  <1> USE DEF NodeInv
  <1>1. PICK through \in start..head :
            /\ page' = [events |-> Between(start, through), through |-> through, answers |-> {}]
            /\ doing' = IF Between(start, through) = {} THEN "noting" ELSE "gathering"
    BY DEF Scanned, Served
  <1>2. \A p \in DOMAIN chain : chain[p].ledger \in Nat
    BY LedgersAreNumbers
  <1>3. \A p \in DOMAIN chain :
            chain[p].ledger <= through =>
                p \in log \/ p \in Between(start, through) \/ chain[p].ledger < oldest
    BY <1>2 DEF Between
  <1> QED
    BY <1>1, <1>3

-----------------------------------------------------------------------------
LEMMA SkipInit == ASSUME Init PROVE SkipInv
  <1> USE DEF Init
  <1>1. NodeInv
    BY EmptySeq DEF NodeInv
  <1>2. ClaimsInv
    BY DEF ClaimsInv, NoPage, Unset, Belief
  <1>3. LapInv /\ PageInv /\ NothingSkipped
    BY DEF LapInv, PageInv, Writing, NothingSkipped, LoggedUpTo, Unset
  <1> QED
    BY <1>1, <1>2, <1>3 DEF SkipInv

LEMMA SkipCloseLedger == ASSUME SkipInv, CloseLedger PROVE SkipInv'
  <1> USE DEF SkipInv
  <1>0. /\ UNCHANGED <<oldest, log, cursor, known, doing, page>>
    BY DEF CloseLedger, ledgers, memory
  <1>1. /\ head' = head + 1 /\ chain' \in Seq(Event)
        /\ DOMAIN chain \subseteq DOMAIN chain'
        /\ \A p \in DOMAIN chain : chain'[p] = chain[p]
        /\ \A p \in DOMAIN chain' \ DOMAIN chain : chain'[p].ledger = head'
    BY ChainGrows
  <1>2. \A p \in DOMAIN chain' : chain'[p].ledger <= head /\ head \in Nat => p \in DOMAIN chain
    BY <1>1
  <1>3. \A p \in DOMAIN chain : chain[p].ledger \in Nat
    BY LedgersAreNumbers
  <1>4. NodeInv'
    BY <1>0, <1>1, <1>3 DEF NodeInv
  <1>5. ClaimsInv'
    BY <1>0, <1>1 DEF ClaimsInv, NodeInv, Belief
  <1>6. \A n \in Nat : n <= head =>
            \A p \in DOMAIN chain' : chain'[p].ledger <= n => p \in DOMAIN chain /\ chain'[p] = chain[p]
    BY <1>1, <1>3 DEF NodeInv
  <1>7. PageInv'
    BY <1>0, <1>6 DEF PageInv, ClaimsInv
  <1>8. NothingSkipped'
    BY <1>0, <1>6 DEF NothingSkipped, LoggedUpTo, ClaimsInv, Belief
  <1>9. LapInv'
    BY <1>0 DEF LapInv
  <1> QED
    BY <1>4, <1>5, <1>7, <1>8, <1>9

LEMMA SkipPrune == ASSUME SkipInv, Prune PROVE SkipInv'
  <1> USE DEF SkipInv
  <1>0. /\ UNCHANGED <<head, chain, log, cursor, known, doing, page>>
        /\ oldest' = oldest + 1
    BY DEF Prune, ledgers, memory
  <1>1. \A p \in DOMAIN chain : chain[p].ledger < oldest => chain[p].ledger < oldest'
    BY <1>0, LedgersAreNumbers DEF NodeInv
  <1>2. NodeInv' /\ ClaimsInv' /\ LapInv'
    BY <1>0 DEF NodeInv, ClaimsInv, LapInv
  <1>3. PageInv'
    BY <1>0, <1>1 DEF PageInv
  <1>4. NothingSkipped'
    BY <1>0, <1>1 DEF NothingSkipped, LoggedUpTo
  <1> QED
    BY <1>2, <1>3, <1>4

LEMMA SkipReadPage ==
    ASSUME SkipInv, ~SplitsLedgers, ReadPage
    PROVE  SkipInv'
  <1> USE DEF SkipInv
  <1>0. UNCHANGED <<head, oldest, chain, log, cursor>>
    BY DEF ReadPage, node, ledgers
  <1>1. known' \in Belief /\ known'.held /\ known'.at <= head /\ LoggedUpTo(known'.at)
    BY DEF ReadPage, Resume, At, Belief, ClaimsInv, NothingSkipped, NodeInv
  <1>2. known'.at \in Nat
    BY <1>1 DEF Belief
  <1> DEFINE start == IF known'.at = 0 THEN oldest ELSE known'.at + 1
  <1>3. /\ start \in Nat
        /\ \A p \in DOMAIN chain :
                chain[p].ledger < start => p \in log \/ chain[p].ledger < oldest
    BY <1>1, <1>2, LedgersAreNumbers DEF NodeInv, LoggedUpTo
  <1>4. NodeInv' /\ NothingSkipped' /\ LapInv'
    BY <1>0, <1>1 DEF NodeInv, NothingSkipped, LoggedUpTo, LapInv
  <1>5. CASE Scanned(start)
    <2>1. /\ doing' \in {"noting", "gathering"}
          /\ page'.through \in start..head
          /\ page'.events = Between(start, page'.through)
          /\ doing' = "noting" => page'.events = {}
          /\ \A p \in DOMAIN chain :
                chain[p].ledger <= page'.through =>
                    p \in log \/ p \in page'.events \/ chain[p].ledger < oldest
      BY <1>3, <1>5, PageScanned
    <2>2. ClaimsInv'
      BY <1>0, <1>1, <1>3, <2>1 DEF ClaimsInv, Between, NodeInv
    <2>3. PageInv'
      BY <1>0, <2>1 DEF PageInv
    <2> QED
      BY <1>4, <2>2, <2>3
  <1>6. CASE doing' = "refused" /\ UNCHANGED page
    <2>1. ClaimsInv'
      BY <1>0, <1>1, <1>6 DEF ClaimsInv
    <2>2. PageInv'
      BY <1>6 DEF PageInv, Writing
    <2> QED
      BY <1>4, <2>1, <2>2
  <1> QED
    BY <1>5, <1>6 DEF ReadPage

LEMMA SkipRefused ==
    ASSUME SkipInv, ~SplitsLedgers, Refused
    PROVE  SkipInv'
  <1> USE DEF SkipInv
  <1>0. UNCHANGED <<head, oldest, chain, log, cursor, known>> /\ known.held
    BY DEF Refused, node, ledgers, LapInv
  <1>1. NodeInv' /\ NothingSkipped' /\ LapInv'
    BY <1>0 DEF NodeInv, NothingSkipped, LoggedUpTo, LapInv
  <1>2. CASE Scanned(oldest)
    <2>0. oldest \in Nat
      BY DEF NodeInv
    <2>1. /\ doing' \in {"noting", "gathering"}
          /\ page'.through \in oldest..head
          /\ page'.events = Between(oldest, page'.through)
          /\ doing' = "noting" => page'.events = {}
          /\ \A p \in DOMAIN chain :
                chain[p].ledger <= page'.through =>
                    p \in log \/ p \in page'.events \/ chain[p].ledger < oldest
      BY <1>2, <2>0, PageScanned
    <2>2. ClaimsInv'
      BY <1>0, <2>0, <2>1 DEF ClaimsInv, Between, NodeInv
    <2>3. PageInv'
      BY <1>0, <2>1 DEF PageInv
    <2> QED
      BY <1>1, <2>2, <2>3
  <1>3. CASE page' = [NoPage EXCEPT !.through = known.at] /\ doing' = "noting"
    <2>1. page'.events = {} /\ page'.through = known.at
      BY <1>3 DEF NoPage
    <2>2. ClaimsInv'
      BY <1>0, <2>1 DEF ClaimsInv, Belief
    <2>3. PageInv'
      BY <1>0, <1>3, <2>1 DEF PageInv, NothingSkipped, LoggedUpTo
    <2> QED
      BY <1>1, <2>2, <2>3
  <1> QED
    BY <1>2, <1>3 DEF Refused

LEMMA SkipGather == ASSUME SkipInv, Gather PROVE SkipInv'
  <1> USE DEF SkipInv
  <1>1. /\ UNCHANGED <<head, oldest, chain, log, cursor, known>>
        /\ doing = "gathering" /\ doing' = "storing"
        /\ page'.events = page.events /\ page'.through = page.through
    BY DEF Gather, node, ledgers
  <1>2. NodeInv' /\ ClaimsInv' /\ LapInv' /\ NothingSkipped'
    BY <1>1 DEF NodeInv, ClaimsInv, LapInv, NothingSkipped, LoggedUpTo
  <1>3. PageInv'
    BY <1>1 DEF PageInv, Writing
  <1> QED
    BY <1>2, <1>3

LEMMA SkipStoreEvents == ASSUME SkipInv, StoreEvents PROVE SkipInv'
  <1> USE DEF SkipInv
  <1>1. /\ UNCHANGED <<head, oldest, chain, cursor, known, page>>
        /\ doing = "storing" /\ doing' = "answering"
        /\ log' = log \cup page.events
    BY DEF StoreEvents, node
  <1>2. NodeInv' /\ ClaimsInv' /\ LapInv' /\ NothingSkipped'
    BY <1>1 DEF NodeInv, ClaimsInv, LapInv, NothingSkipped, LoggedUpTo
  <1>3. PageInv'
    BY <1>1 DEF PageInv, Writing
  <1> QED
    BY <1>2, <1>3

LEMMA SkipStoreReads == ASSUME SkipInv, StoreReads PROVE SkipInv'
  <1> USE DEF SkipInv
  <1>1. /\ UNCHANGED <<head, oldest, chain, log, cursor, known, page>>
        /\ doing = "answering" /\ doing' = "moving"
    BY DEF StoreReads, node
  <1>2. NodeInv' /\ ClaimsInv' /\ LapInv' /\ NothingSkipped'
    BY <1>1 DEF NodeInv, ClaimsInv, LapInv, NothingSkipped, LoggedUpTo
  <1>3. PageInv'
    BY <1>1 DEF PageInv, Writing
  <1> QED
    BY <1>2, <1>3

\* What the page claims has all landed by the time anybody takes it over.
LEMMA PageLanded ==
    ASSUME SkipInv, doing \in {"moving", "noting"}
    PROVE  LoggedUpTo(page.through)
  BY DEF SkipInv, PageInv, Writing, LoggedUpTo

\* A rewound cursor claims nothing at all.
LEMMA NothingBeforeTheFirstLedger == NodeInv => LoggedUpTo(0)
  BY DEF NodeInv, LoggedUpTo

\* Cursor and memory may take over any ledger up to which all is logged.
LEMMA ClaimsMove ==
    ASSUME SkipInv, UNCHANGED <<head, oldest, chain, log>>,
           NEW c, NEW k, cursor' = c, known' = k,
           c \in Nat, c <= head, LoggedUpTo(c),
           k \in Belief, k.at <= head, k.held => LoggedUpTo(k.at)
    PROVE  /\ NodeInv' /\ NothingSkipped'
           /\ cursor' \in Nat /\ cursor' <= head'
           /\ known' \in Belief /\ known'.at <= head'
  <1> USE DEF SkipInv
  <1>1. NodeInv'
    BY DEF NodeInv
  <1>2. LoggedUpTo(cursor)'
    BY DEF LoggedUpTo
  <1>3. (known.held => LoggedUpTo(known.at))'
    BY DEF LoggedUpTo
  <1> QED
    BY <1>1, <1>2, <1>3 DEF NothingSkipped

LEMMA SkipMoveCursor ==
    ASSUME SkipInv, MoveCursor \/ NoteProgress
    PROVE  SkipInv'
  <1> USE DEF SkipInv
  <1>1. /\ UNCHANGED <<head, oldest, chain, log, page>>
        /\ doing \in {"moving", "noting"} /\ doing' = "checking"
    BY DEF MoveCursor, NoteProgress, node, ledgers
  <1>2. /\ cursor' \in {cursor, page.through}
        /\ known' \in {known, At(page.through)}
    BY DEF MoveCursor, NoteProgress, WriteCursor
  <1>3. LoggedUpTo(page.through)
    BY <1>1, PageLanded
  <1>4. known.held
    BY <1>1 DEF LapInv
  <1>5. cursor' \in Nat /\ cursor' <= head /\ LoggedUpTo(cursor')
    BY <1>2, <1>3 DEF ClaimsInv, NothingSkipped
  <1>6. known' \in Belief /\ known'.held /\ known'.at <= head /\ LoggedUpTo(known'.at)
    <2>1. CASE known' = known
      BY <1>4, <2>1 DEF ClaimsInv, NothingSkipped
    <2>2. CASE known' = At(page.through)
      BY <1>3, <2>2 DEF ClaimsInv, At, Belief
    <2> QED
      BY <1>2, <2>1, <2>2
  <1>7. NodeInv' /\ NothingSkipped' /\ cursor' \in Nat /\ cursor' <= head'
        /\ known' \in Belief /\ known'.at <= head'
    BY <1>1, <1>5, <1>6, ClaimsMove
  <1>8. ClaimsInv' /\ LapInv' /\ PageInv'
    BY <1>1, <1>6, <1>7 DEF ClaimsInv, LapInv, PageInv, Writing
  <1> QED
    BY <1>7, <1>8

\* However a lap ends, it leaves no page under way and no claim past what landed.
LEMMA SkipLapOver ==
    ASSUME SkipInv, Health \/ Reproject \/ Throw \/ LoseAnswer \/ Stop \/ Start
    PROVE  SkipInv'
  <1> USE DEF SkipInv
  <1> USE DEF Health, Reproject, Throw, LoseAnswer, Stop, Start, node, ledgers
  <1>1. UNCHANGED <<head, oldest, chain, log>>
    OBVIOUS
  <1>2. page' \in {page, NoPage} /\ doing' \in {"reading", "projecting", "down"}
    OBVIOUS
  <1>3. \/ cursor' = cursor
        \/ cursor' = page.through /\ doing = "moving"
    OBVIOUS
  <1>4. \/ known' \in {known, Unset}
        \/ known' = At(page.through) /\ doing = "noting"
    OBVIOUS
  <1>5. doing' = "projecting" => known' = known /\ doing = "checking"
    OBVIOUS
  <1> HIDE DEF Health, Reproject, Throw, LoseAnswer, Stop, Start
  <1>6. cursor' \in Nat /\ cursor' <= head /\ LoggedUpTo(cursor')
    BY <1>3, PageLanded DEF ClaimsInv, NothingSkipped
  <1>7. known' \in Belief /\ known'.at <= head /\ (known'.held => LoggedUpTo(known'.at))
    <2>1. CASE known' = known
      BY <2>1 DEF ClaimsInv, NothingSkipped
    <2>2. CASE known' = Unset
      BY <2>2 DEF Unset, Belief, NodeInv, ClaimsInv
    <2>3. CASE known' = At(page.through) /\ doing = "noting"
      BY <2>3, PageLanded DEF ClaimsInv, At, Belief
    <2> QED
      BY <1>4, <2>1, <2>2, <2>3
  <1>8. NodeInv' /\ NothingSkipped' /\ cursor' \in Nat /\ cursor' <= head'
        /\ known' \in Belief /\ known'.at <= head'
    BY <1>1, <1>6, <1>7, ClaimsMove
  <1>9. ClaimsInv'
    BY <1>1, <1>2, <1>8 DEF ClaimsInv, NoPage, NodeInv
  <1>10. LapInv' /\ PageInv'
    BY <1>2, <1>5 DEF LapInv, PageInv, Writing
  <1> QED
    BY <1>8, <1>9, <1>10

LEMMA SkipRebuild == ASSUME SkipInv, Rebuild PROVE SkipInv'
  <1> USE DEF SkipInv
  <1>1. UNCHANGED <<head, oldest, chain, log, known, doing, page>> /\ cursor' \in {cursor, 0}
    BY DEF Rebuild, Discard, Rewind, Replay, Apply, GiveUp, node, ledgers, memory
  <1>2. cursor' \in Nat /\ cursor' <= head /\ LoggedUpTo(cursor')
    BY <1>1, NothingBeforeTheFirstLedger DEF ClaimsInv, NothingSkipped, NodeInv
  <1>3. NodeInv' /\ NothingSkipped' /\ cursor' \in Nat /\ cursor' <= head'
        /\ known' \in Belief /\ known'.at <= head'
    BY <1>1, <1>2, ClaimsMove DEF ClaimsInv, NothingSkipped
  <1>4. ClaimsInv' /\ LapInv' /\ PageInv'
    BY <1>1, <1>3 DEF ClaimsInv, LapInv, PageInv
  <1> QED
    BY <1>3, <1>4

LEMMA SkipUnchanged == ASSUME SkipInv, UNCHANGED vars PROVE SkipInv'
  BY DEF SkipInv, NodeInv, ClaimsInv, LapInv, PageInv, NothingSkipped, LoggedUpTo,
         vars, node, ledgers, memory

-----------------------------------------------------------------------------
(***************************************************************************)
(* The answers.                                                            *)
(***************************************************************************)
\* An answer stays, but for the one an upsert puts in its place.
LEMMA AnswersStay ==
    ASSUME SkipInv, chain' = chain, answers \subseteq answers', unread \subseteq unread',
           oldest' \in Nat, oldest' >= oldest
    PROVE  \A p \in DOMAIN chain : Answered(p) => Answered(p)'
  BY LedgersAreNumbers DEF SkipInv, Answered, NodeInv

\* Cursor and memory may take over any ledger up to which all is answered.
LEMMA AnsweredClaims ==
    ASSUME SkipInv, UNCHANGED <<oldest, chain, answers, unread>>,
           NEW c, NEW k, cursor' = c, known' = k,
           AnsweredUpTo(c), k.held => AnsweredUpTo(k.at)
    PROVE  AnsweredUpTo(cursor)' /\ (known.held => AnsweredUpTo(known.at))'
  <1>1. \A p : Answered(p)' <=> Answered(p)
    BY DEF Answered
  <1>2. AnsweredUpTo(cursor)'
    BY <1>1 DEF AnsweredUpTo
  <1>3. (known.held => AnsweredUpTo(known.at))'
    BY <1>1 DEF AnsweredUpTo
  <1> QED
    BY <1>2, <1>3

LEMMA AnswersInit == ASSUME Init PROVE AnswersInv
  BY DEF Init, AnswersInv, PageAnswersInv, AnsweredUpTo, Writing, Unset

LEMMA AnswersCloseLedger == ASSUME SkipInv, AnswersInv, CloseLedger PROVE AnswersInv'
  <1> USE DEF SkipInv, AnswersInv
  <1>0. UNCHANGED <<oldest, log, answers, cursor, known, doing, page, unread>>
    BY DEF CloseLedger, ledgers, memory
  <1>1. /\ head' = head + 1 /\ chain' \in Seq(Event)
        /\ DOMAIN chain \subseteq DOMAIN chain'
        /\ \A p \in DOMAIN chain : chain'[p] = chain[p]
        /\ \A p \in DOMAIN chain' \ DOMAIN chain : chain'[p].ledger = head'
    BY ChainGrows
  <1>2. \A n \in Nat : n <= head =>
            \A p \in DOMAIN chain' : chain'[p].ledger <= n => p \in DOMAIN chain /\ chain'[p] = chain[p]
    BY <1>1 DEF NodeInv
  <1>3. \A p \in DOMAIN chain : Answered(p) => Answered(p)'
    BY <1>0, <1>1 DEF Answered
  <1>4. AnsweredUpTo(cursor)'
    BY <1>0, <1>2, <1>3 DEF AnsweredUpTo, ClaimsInv
  <1>5. (known.held => AnsweredUpTo(known.at))'
    BY <1>0, <1>2, <1>3 DEF AnsweredUpTo, ClaimsInv, Belief
  <1>6. PageAnswersInv'
    <2>1. \A p \in DOMAIN chain' : chain'[p].ledger <= page.through =>
                p \in DOMAIN chain /\ chain'[p] = chain[p]
      BY <1>2 DEF ClaimsInv
    <2>2. (doing \in Writing =>
             \A p \in DOMAIN chain :
                chain[p].row \in Asking /\ chain[p].ledger <= page.through =>
                    p \in page.events \/ Answered(p))'
      BY <1>0, <1>3, <2>1 DEF PageAnswersInv
    <2>3. \A p \in page.events : p \in DOMAIN chain /\ chain'[p] = chain[p]
                                 /\ chain[p].ledger <= page.through
      BY <1>1 DEF ClaimsInv
    <2>4. (doing \in Writing =>
             \A p \in page.events : \A q \in DOMAIN chain :
                chain[q].ledger = chain[p].ledger => q \in page.events)'
      BY <1>0, <2>1, <2>3 DEF PageAnswersInv
    <2>5. Prompting(page.events)' = Prompting(page.events)
      BY <1>0, <2>3 DEF Prompting
    <2>6. \A p \in Prompting(page.events) : p \in DOMAIN chain
      BY <2>3 DEF Prompting
    <2> QED
      BY <1>0, <1>3, <2>2, <2>4, <2>5, <2>6 DEF PageAnswersInv
  <1> QED
    BY <1>4, <1>5, <1>6

LEMMA AnswersPrune == ASSUME SkipInv, AnswersInv, Prune PROVE AnswersInv'
  <1> USE DEF AnswersInv
  <1>0. /\ UNCHANGED <<head, chain, log, answers, cursor, known, doing, page, unread>>
        /\ oldest' = oldest + 1
    BY DEF Prune, ledgers, memory
  <1>1. \A p \in DOMAIN chain : Answered(p) => Answered(p)'
    BY <1>0, AnswersStay DEF SkipInv, NodeInv
  <1>2. AnsweredUpTo(cursor)' /\ (known.held => AnsweredUpTo(known.at))'
    BY <1>0, <1>1 DEF AnsweredUpTo
  <1>3. Prompting(page.events)' = Prompting(page.events) /\ Prompting(page.events) \subseteq DOMAIN chain
    BY <1>0 DEF Prompting, SkipInv, ClaimsInv
  <1>4. PageAnswersInv'
    BY <1>0, <1>1, <1>3 DEF PageAnswersInv
  <1> QED
    BY <1>2, <1>4

LEMMA AnswersNewPage ==
    ASSUME SkipInv, AnswersInv, ~SplitsLedgers, ReadPage \/ Refused
    PROVE  AnswersInv'
  <1> USE DEF SkipInv, AnswersInv
  <1>0. UNCHANGED <<head, oldest, chain, log, answers, cursor, unread>>
    BY DEF ReadPage, Refused, node, ledgers
  <1>1. known'.held /\ known'.at \in Nat /\ AnsweredUpTo(known'.at)
    BY DEF ReadPage, Refused, Resume, At, Belief, ClaimsInv, LapInv
  <1>2. AnsweredUpTo(cursor)' /\ (known.held => AnsweredUpTo(known.at))'
    BY <1>0, <1>1, AnsweredClaims
  <1>3. \A p : Answered(p)' <=> Answered(p)
    BY <1>0 DEF Answered
  <1>4. ASSUME NEW start \in Nat, Scanned(start),
               start = oldest \/ start = known'.at + 1
        PROVE  PageAnswersInv'
    <2>1. \A p \in DOMAIN chain :
              chain[p].ledger < start => p \in log \/ chain[p].ledger < oldest \/ chain[p].ledger <= known'.at
      BY <1>1, <1>4, LedgersAreNumbers DEF NodeInv
    <2>2. PICK through \in start..head :
            /\ page' = [events |-> Between(start, through), through |-> through, answers |-> {}]
            /\ doing' = IF Between(start, through) = {} THEN "noting" ELSE "gathering"
      BY <1>4 DEF Scanned, Served
    <2>3. page'.events = Between(start, through) /\ page'.through = through /\ through \in Nat
          /\ doing' \in {"noting", "gathering"}
      BY <2>2 DEF NodeInv
    <2>4. \A p \in DOMAIN chain :
              chain[p].row \in Asking /\ chain[p].ledger <= through =>
                  p \in Between(start, through) \/ Answered(p)
      BY <1>1, <1>4, <2>3, LedgersAreNumbers DEF Between, AnsweredUpTo, Answered, NodeInv
    <2>5. \A p \in Between(start, through) : \A q \in DOMAIN chain :
              chain[q].ledger = chain[p].ledger => q \in Between(start, through)
      BY DEF Between
    <2> QED
      BY <1>0, <1>3, <2>3, <2>4, <2>5 DEF PageAnswersInv
  <1>5. CASE doing' = "refused"
    BY <1>2, <1>5 DEF PageAnswersInv, Writing
  <1>6. CASE page' = [NoPage EXCEPT !.through = known.at] /\ doing' = "noting" /\ known' = known
    <2>1. page'.events = {} /\ page'.through = known.at
      BY <1>6 DEF NoPage
    <2>2. PageAnswersInv'
      BY <1>0, <1>1, <1>3, <1>6, <2>1 DEF PageAnswersInv, AnsweredUpTo
    <2> QED
      BY <1>2, <2>2
  <1>7. CASE ReadPage /\ doing' # "refused"
    <2>1. PICK start \in {oldest, known'.at + 1} : Scanned(start)
      BY <1>7 DEF ReadPage
    <2> QED
      BY <1>1, <1>2, <1>4, <2>1 DEF NodeInv
  <1>8. CASE Refused
    <2>1. Scanned(oldest) \/ (page' = [NoPage EXCEPT !.through = known.at] /\ doing' = "noting" /\ known' = known)
      BY <1>8 DEF Refused
    <2> QED
      BY <1>2, <1>4, <1>6, <2>1 DEF NodeInv
  <1> QED
    BY <1>5, <1>7, <1>8

LEMMA AnswersGather == ASSUME SkipInv, AnswersInv, Gather PROVE AnswersInv'
  <1> USE DEF AnswersInv
  <1>1. PICK failed \in SUBSET Prompting(page.events) :
            /\ unread' = unread \cup failed
            /\ page' = [events |-> page.events, through |-> page.through,
                        answers |-> {[event |-> p, seen |-> LastOf(chain[p].row)] :
                                        p \in Prompting(page.events) \ failed}]
    BY DEF Gather
  <1>2. /\ UNCHANGED <<head, oldest, chain, log, answers, cursor, known>>
        /\ doing = "gathering" /\ doing' = "storing"
        /\ page'.events = page.events /\ page'.through = page.through
    BY <1>1 DEF Gather, node, ledgers
  <1>3. \A p \in DOMAIN chain : Answered(p) => Answered(p)'
    BY <1>1, <1>2, AnswersStay DEF SkipInv, NodeInv
  <1>4. AnsweredUpTo(cursor)' /\ (known.held => AnsweredUpTo(known.at))'
    BY <1>2, <1>3 DEF AnsweredUpTo
  <1>5. Prompting(page.events)' = Prompting(page.events)
    BY <1>2 DEF Prompting
  <1>6. \A p \in Prompting(page.events) : (\E a \in page'.answers : a.event = p) \/ p \in unread'
    <2> SUFFICES ASSUME NEW p \in Prompting(page.events), p \notin failed
                 PROVE  \E a \in page'.answers : a.event = p
      BY <1>1
    <2>1. [event |-> p, seen |-> LastOf(chain[p].row)] \in page'.answers
      BY <1>1
    <2> QED
      BY <2>1
  <1>7. \A a \in page'.answers : a.event \in page.events
    BY <1>1 DEF Prompting
  <1>8. PageAnswersInv'
    BY <1>2, <1>3, <1>5, <1>6, <1>7 DEF PageAnswersInv, Writing
  <1> QED
    BY <1>4, <1>8

LEMMA AnswersStoreEvents == ASSUME SkipInv, AnswersInv, StoreEvents PROVE AnswersInv'
  <1> USE DEF AnswersInv
  <1>1. /\ UNCHANGED <<head, oldest, chain, answers, cursor, known, page, unread>>
        /\ doing = "storing" /\ doing' = "answering"
    BY DEF StoreEvents, node
  <1>2. \A p : Answered(p)' <=> Answered(p)
    BY <1>1 DEF Answered
  <1>3. AnsweredUpTo(cursor)' /\ (known.held => AnsweredUpTo(known.at))'
    BY <1>1, AnsweredClaims
  <1>4. PageAnswersInv'
    BY <1>1, <1>2 DEF PageAnswersInv, Writing, Prompting
  <1> QED
    BY <1>3, <1>4

\* An answer the upsert replaces was of a ledger the page holds in full, so its
\* event has a newer answer on the page or was warned of.
LEMMA AnswersStoreReads == ASSUME SkipInv, AnswersInv, StoreReads PROVE AnswersInv'
  <1> USE DEF AnswersInv, SkipInv
  <1>1. /\ UNCHANGED <<head, oldest, chain, log, cursor, known, page, unread>>
        /\ doing = "answering" /\ doing' = "moving"
        /\ answers' = {a \in answers : \A b \in page.answers : ~SameKey(a, b)} \cup page.answers
    BY DEF StoreReads, node
  <1>2. \A p \in Prompting(page.events) : Answered(p)'
    BY <1>1 DEF PageAnswersInv, Answered
  <1>3. \A p \in DOMAIN chain : chain[p].row \in Asking /\ Answered(p) => Answered(p)'
    <2> SUFFICES ASSUME NEW p \in DOMAIN chain, chain[p].row \in Asking, Answered(p)
                 PROVE  Answered(p)'
      OBVIOUS
    <2>1. CASE p \in unread \/ chain[p].ledger < oldest
      BY <1>1, <2>1 DEF Answered
    <2>2. CASE \E a \in answers : a.event = p
      <3>1. PICK a \in answers : a.event = p
        BY <2>2
      <3>2. CASE \A b \in page.answers : ~SameKey(a, b)
        BY <1>1, <3>1, <3>2 DEF Answered
      <3>3. CASE \E b \in page.answers : SameKey(a, b)
        <4>1. PICK b \in page.answers : chain[p].ledger = chain[b.event].ledger
          BY <3>1, <3>3 DEF SameKey
        <4>2. b.event \in page.events
          BY <1>1, <4>1 DEF PageAnswersInv
        <4>3. p \in page.events
          BY <1>1, <4>1, <4>2 DEF PageAnswersInv, Writing
        <4> QED
          BY <1>2, <4>3 DEF Prompting
      <3> QED
        BY <3>2, <3>3
    <2> QED
      BY <2>1, <2>2 DEF Answered
  <1>4. AnsweredUpTo(cursor)' /\ (known.held => AnsweredUpTo(known.at))'
    BY <1>1, <1>3 DEF AnsweredUpTo
  <1>5. Prompting(page.events)' = Prompting(page.events)
    BY <1>1 DEF Prompting
  <1>6. PageAnswersInv'
    BY <1>1, <1>2, <1>3, <1>5 DEF PageAnswersInv, Writing
  <1> QED
    BY <1>4, <1>6

\* What a page claims is answered by the time anybody takes it over.
LEMMA PageAnswered ==
    ASSUME SkipInv, AnswersInv, doing \in {"moving", "noting"}
    PROVE  AnsweredUpTo(page.through)
  <1>1. \A p \in page.events : chain[p].row \in Asking => doing = "moving" /\ p \in Prompting(page.events)
    BY DEF SkipInv, PageInv, Prompting
  <1> QED
    BY <1>1 DEF AnswersInv, PageAnswersInv, Writing, AnsweredUpTo

LEMMA AnswersMoveCursor ==
    ASSUME SkipInv, AnswersInv, MoveCursor \/ NoteProgress
    PROVE  AnswersInv'
  <1>1. /\ UNCHANGED <<oldest, chain, answers, unread>>
        /\ doing \in {"moving", "noting"} /\ doing' = "checking"
    BY DEF MoveCursor, NoteProgress, node, ledgers
  <1>2. /\ cursor' \in {cursor, page.through}
        /\ known' \in {known, At(page.through)}
    BY DEF MoveCursor, NoteProgress, WriteCursor
  <1>3. AnsweredUpTo(cursor')
    BY <1>1, <1>2, PageAnswered DEF AnswersInv
  <1>4. known'.held => AnsweredUpTo(known'.at)
    BY <1>1, <1>2, PageAnswered DEF AnswersInv, At
  <1>5. AnsweredUpTo(cursor)' /\ (known.held => AnsweredUpTo(known.at))'
    BY <1>1, <1>3, <1>4, AnsweredClaims
  <1>6. PageAnswersInv'
    BY <1>1 DEF PageAnswersInv, Writing
  <1> QED
    BY <1>5, <1>6 DEF AnswersInv

LEMMA AnswersLapOver ==
    ASSUME SkipInv, AnswersInv, Health \/ Reproject \/ Throw \/ LoseAnswer \/ Stop \/ Start
    PROVE  AnswersInv'
  <1> USE DEF Health, Reproject, Throw, LoseAnswer, Stop, Start, node, ledgers
  <1>1. UNCHANGED <<oldest, chain, answers, unread>> /\ doing' \in {"reading", "projecting", "down"}
    OBVIOUS
  <1>2. \/ cursor' = cursor
        \/ cursor' = page.through /\ doing = "moving"
    OBVIOUS
  <1>3. \/ known' \in {known, Unset}
        \/ known' = At(page.through) /\ doing = "noting"
    OBVIOUS
  <1> HIDE DEF Health, Reproject, Throw, LoseAnswer, Stop, Start
  <1>4. AnsweredUpTo(cursor')
    BY <1>2, PageAnswered DEF AnswersInv
  <1>5. known'.held => AnsweredUpTo(known'.at)
    BY <1>3, PageAnswered DEF AnswersInv, At, Unset
  <1>6. AnsweredUpTo(cursor)' /\ (known.held => AnsweredUpTo(known.at))'
    BY <1>1, <1>4, <1>5, AnsweredClaims
  <1>7. PageAnswersInv'
    BY <1>1 DEF PageAnswersInv, Writing
  <1> QED
    BY <1>6, <1>7 DEF AnswersInv

LEMMA AnswersRebuild == ASSUME SkipInv, AnswersInv, Rebuild PROVE AnswersInv'
  <1>1. UNCHANGED <<oldest, chain, log, answers, known, doing, page, unread>> /\ cursor' \in {cursor, 0}
    BY DEF Rebuild, Discard, Rewind, Replay, Apply, GiveUp, node, ledgers, memory
  <1>2. AnsweredUpTo(0)
    BY DEF SkipInv, NodeInv, AnsweredUpTo
  <1>3. AnsweredUpTo(cursor') /\ (known'.held => AnsweredUpTo(known'.at))
    BY <1>1, <1>2 DEF AnswersInv
  <1>4. AnsweredUpTo(cursor)' /\ (known.held => AnsweredUpTo(known.at))'
    BY <1>1, <1>3, AnsweredClaims
  <1>5. \A p : Answered(p)' <=> Answered(p)
    BY <1>1 DEF Answered
  <1>6. PageAnswersInv'
    BY <1>1, <1>5 DEF AnswersInv, PageAnswersInv, Prompting
  <1> QED
    BY <1>4, <1>6 DEF AnswersInv

LEMMA AnswersUnchanged == ASSUME SkipInv, AnswersInv, UNCHANGED vars PROVE AnswersInv'
  <1>1. UNCHANGED <<oldest, chain, log, answers, cursor, known, doing, page, unread>>
    BY DEF vars, node, ledgers, memory
  <1>2. \A p : Answered(p)' <=> Answered(p)
    BY <1>1 DEF Answered
  <1> QED
    BY <1>1, <1>2 DEF AnswersInv, PageAnswersInv, AnsweredUpTo, Prompting

-----------------------------------------------------------------------------
IndexerInv == SkipInv /\ AnswersInv

LEMMA IndexerStep ==
    ASSUME ~SplitsLedgers, IndexerInv, [Next]_vars
    PROVE  IndexerInv'
  <1> USE DEF IndexerInv
  <1>1. CASE CloseLedger
    BY <1>1, SkipCloseLedger, AnswersCloseLedger
  <1>2. CASE Prune
    BY <1>2, SkipPrune, AnswersPrune
  <1>3. CASE ReadPage \/ Refused
    BY <1>3, SkipReadPage, SkipRefused, AnswersNewPage
  <1>4. CASE Gather
    BY <1>4, SkipGather, AnswersGather
  <1>5. CASE StoreEvents
    BY <1>5, SkipStoreEvents, AnswersStoreEvents
  <1>6. CASE StoreReads
    BY <1>6, SkipStoreReads, AnswersStoreReads
  <1>7. CASE MoveCursor \/ NoteProgress
    BY <1>7, SkipMoveCursor, AnswersMoveCursor
  <1>8. CASE Health \/ Reproject \/ Throw \/ LoseAnswer \/ Stop \/ Start
    BY <1>8, SkipLapOver, AnswersLapOver
  <1>9. CASE Rebuild
    BY <1>9, SkipRebuild, AnswersRebuild
  <1>10. CASE UNCHANGED vars
    BY <1>10, SkipUnchanged, AnswersUnchanged
  <1> QED
    BY <1>1, <1>2, <1>3, <1>4, <1>5, <1>6, <1>7, <1>8, <1>9, <1>10 DEF Next, Lap

LEMMA IndexerAlways == ASSUME ~SplitsLedgers PROVE Spec => []IndexerInv
  <1>1. Init => IndexerInv
    BY SkipInit, AnswersInit DEF IndexerInv
  <1>2. IndexerInv /\ [Next]_vars => IndexerInv'
    BY IndexerStep
  <1> QED
    BY <1>1, <1>2, PTL DEF Spec

(***************************************************************************)
(* Unless a page ends inside a ledger, the cursor, in the database and in  *)
(* memory, is never past an event that did not land (ingest.ts:157-159).   *)
(***************************************************************************)
THEOREM CursorNeverSkips == ASSUME ~SplitsLedgers PROVE Spec => []NothingSkipped
  <1>1. IndexerInv => NothingSkipped
    BY DEF IndexerInv, SkipInv
  <1> QED
    BY <1>1, IndexerAlways, PTL

(***************************************************************************)
(* And no logged event behind it is without the answer it prompts, but for *)
(* those whose read failed and those the node dropped (reads.ts:31-35).    *)
(***************************************************************************)
THEOREM AnswersAreKept == ASSUME ~SplitsLedgers PROVE Spec => []AnswersBesideTheirEvents
  <1>1. IndexerInv => AnswersBesideTheirEvents
    BY DEF IndexerInv, SkipInv, NodeInv, AnswersInv, AnsweredUpTo,
           AnswersBesideTheirEvents, Prompting
  <1> QED
    BY <1>1, IndexerAlways, PTL

(***************************************************************************)
(* So the log is the archive it is taken for: each step of the indexer is  *)
(* a step of EventArchive, or nothing the archive sees (ingest.ts:105).    *)
(***************************************************************************)
LEMMA ArchiveStep ==
    ASSUME IndexerInv, IndexerInv', [Next]_vars
    PROVE  [Archive!Next]_(Archive!vars)
  <1> USE DEF IndexerInv, SkipInv, Archive!vars
  <1>1. CASE CloseLedger
    <2>1. UNCHANGED <<oldest, log, cursor>>
      BY <1>1 DEF CloseLedger, ledgers
    <2>2. /\ chain' \in Seq(Event) /\ DOMAIN chain \subseteq DOMAIN chain'
          /\ SubSeq(chain', 1, Len(chain)) = chain
          /\ \A p \in DOMAIN chain : chain'[p] = chain[p]
      BY <1>1, ChainGrows
    <2>3. Len(chain') > Len(chain) \/ chain' = chain
      <3>1. Len(chain) \in Nat /\ Len(chain') \in Nat /\ DOMAIN chain = 1..Len(chain)
            /\ DOMAIN chain' = 1..Len(chain')
        BY <2>2 DEF NodeInv
      <3>2. Len(chain') >= Len(chain)
        BY <2>2, <3>1
      <3>3. Len(chain') = Len(chain) => chain' = chain
        BY <2>2, <3>1, SeqEqual DEF NodeInv
      <3>4. \A m, n \in Nat : m >= n => m = n \/ m > n
        OBVIOUS
      <3> QED
        BY <3>1, <3>2, <3>3, <3>4, Zenon
    <2>4. CASE Len(chain') > Len(chain)
      <3>1. Archive!Publish
        BY <2>1, <2>2, <2>4 DEF Archive!Publish
      <3> QED
        BY <3>1 DEF Archive!Next
    <2>5. CASE chain' = chain
      BY <2>1, <2>5
    <2> QED
      BY <2>3, <2>4, <2>5
  <1>2. CASE Prune
    BY <1>2 DEF Prune, ledgers, Archive!Next, Archive!Expire, NodeInv
  <1>3. CASE StoreEvents
    BY <1>3 DEF StoreEvents, node, Archive!Next, Archive!Keep, NodeInv, ClaimsInv
  <1>4. CASE UNCHANGED <<chain, oldest, log>>
    <2>1. cursor' \in Nat /\ Archive!Answerable(cursor') \subseteq log
      BY <1>4 DEF Archive!Answerable, NothingSkipped, LoggedUpTo, ClaimsInv, NodeInv
    <2> QED
      BY <1>4, <2>1 DEF Archive!Next, Archive!Claim
  <1>5. CASE ReadPage \/ Refused \/ Gather \/ StoreReads \/ MoveCursor \/ NoteProgress
    BY <1>4, <1>5 DEF ReadPage, Refused, Gather, StoreReads, MoveCursor, NoteProgress, node, ledgers
  <1>6. CASE Health \/ Reproject \/ Throw \/ LoseAnswer \/ Stop \/ Start \/ Rebuild
    BY <1>4, <1>6 DEF Health, Reproject, Throw, LoseAnswer, Stop, Start,
                      Rebuild, Discard, Rewind, Replay, Apply, GiveUp, node, ledgers
  <1>7. CASE UNCHANGED vars
    BY <1>4, <1>7 DEF vars, node, ledgers
  <1> QED
    BY <1>1, <1>2, <1>3, <1>5, <1>6, <1>7 DEF Next, Lap

(***************************************************************************)
(* The follower keeps an archive of the chain: the log only grows, by      *)
(* events that were published, and claims to be complete up to the cursor, *)
(* with a lap cut off between any two of its writes (ingest.ts, cursor.ts). *)
(***************************************************************************)
THEOREM IndexerIsAnArchive == ASSUME ~SplitsLedgers PROVE Spec => ImplementsEventArchive
  <1>1. Init => Archive!Init
    BY DEF Init, Archive!Init
  <1>2. IndexerInv /\ IndexerInv' /\ [Next]_vars => [Archive!Next]_(Archive!vars)
    BY ArchiveStep
  <1> QED
    BY <1>1, <1>2, IndexerAlways, PTL DEF Spec, Archive!Spec, ImplementsEventArchive

-----------------------------------------------------------------------------
(***************************************************************************)
(* What is projected, and why it does not go back.                         *)
(***************************************************************************)

\* The chain is in the order of its ledgers.
ChainSorted ==
    \A p, q \in DOMAIN chain : p <= q => chain[p].ledger <= chain[q].ledger

\* Nothing is left to be logged in or ahead of a ledger that is logged: the log grows
\* at its end, by whole ledgers, and the part of it that one query returns does not
\* lose an event to another.
LogInv ==
    /\ \A q \in log, p \in DOMAIN chain :
          chain[p].ledger <= chain[q].ledger => p \in log \/ chain[p].ledger < oldest
    /\ \A q \in log, p \in page.events :
          chain[p].ledger <= chain[q].ledger => p \in log

\* The answers are of events on the chain and of what was there to be read, one for
\* each key; those of the page were read after all that are stored.
KeptInv ==
    /\ \A a \in answers \cup page.answers :
          /\ a.event \in DOMAIN chain
          /\ a.seen \in {0} \cup {p \in DOMAIN chain : chain[p].row = chain[a.event].row}
    /\ \A a, b \in answers : SameKey(a, b) => a = b
    /\ \A a \in answers \cup page.answers, b \in page.answers :
          chain[a.event].row = chain[b.event].row => a.seen <= b.seen

\* No row of one table is behind the same row of another.
NoOlder(new, old) ==
    \A r \in Row : new[r].event >= old[r].event /\ new[r].seen >= old[r].seen

\* The rows are not ahead of what would be projected now; and with the follower
\* stopped, what a rebuild replayed stays what would be projected.
RowsInv ==
    /\ rows \in [Row -> Shown]
    /\ rebuild \in [at : {"no", "rewinding", "replaying", "applying"}, rows : [Row -> Shown]]
    /\ NoOlder(Projection, rows)
    /\ rebuild.at # "no" => doing = "down" /\ rows = NoRows
    /\ rebuild.at = "applying" => rebuild.rows = Projection

StoredInv == ChainSorted /\ LogInv /\ KeptInv

\* What Projection makes one row of.
Mine(r)   == {p \in Replayed : chain[p].row = r}
Tops(r)   == {p \in Mine(r) : \A q \in Mine(r) : ~Before(p, q)}
Said(r)   == {a \in answers : chain[a.event].row = r}
Latest(r) == {b \in Said(r) : \A c \in Said(r) : c.event <= b.event}

\* An event is known by its position on the chain.
LEMMA PositionsAreNumbers ==
    NodeInv => /\ Len(chain) \in Nat /\ DOMAIN chain = 1..Len(chain)
               /\ \A p \in DOMAIN chain : chain[p] \in Event
  BY DEF NodeInv

\* Newest is the greatest of the positions given, or none.
LEMMA NewestIsGreatest ==
    ASSUME NEW S, NEW n \in Nat, S \subseteq 0..n
    PROVE  /\ Newest(S) \in Nat
           /\ Newest(S) \in S \cup {0}
           /\ \A p \in S : p <= Newest(S)
  <1> DEFINE T == S \cup {0}
  <1>1. T \subseteq 0..n /\ T # {} /\ T \in SUBSET Nat
    OBVIOUS
  <1>2. IsFiniteSet(0..n)
    BY FS_Interval
  <1>3. IsFiniteSet(T)
    BY <1>1, <1>2, FS_Subset
  <1>4. \E x \in T : \A y \in T : y <= x
    <2> HIDE DEF T
    <2> QED
      BY <1>1, <1>3, LargestMember
  <1>5. \E x \in T : \A y \in T : x >= y
    BY <1>1, <1>4
  <1>6. Newest(S) = CHOOSE x \in T : \A y \in T : x >= y
    BY Zenon DEF Newest, Max
  <1> HIDE DEF T
  <1>7. Newest(S) \in T /\ \A y \in T : Newest(S) >= y
    BY <1>5, <1>6
  <1>8. Newest(S) \in Nat /\ \A y \in T : y \in Nat /\ y <= Newest(S)
    BY <1>1, <1>7
  <1> QED
    BY <1>7, <1>8 DEF T

\* A finite set has a member for which a function is greatest.
LEMMA GreatestValue ==
    ASSUME NEW S, IsFiniteSet(S), S # {}, NEW f \in [S -> Nat]
    PROVE  \E x \in S : \A y \in S : f[y] <= f[x]
  <1> DEFINE T == {f[x] : x \in S}
  <1>1. f \in Surjection(S, T)
    BY DEF Surjection
  <1>2. IsFiniteSet(T)
    <2> HIDE DEF T
    <2> QED
      BY <1>1, FS_Surjection
  <1>3. T \in SUBSET Nat /\ T # {}
    OBVIOUS
  <1>4. \E x \in T : \A y \in T : y <= x
    <2> HIDE DEF T
    <2> QED
      BY <1>2, <1>3, LargestMember
  <1> QED
    BY <1>4

\* Any logged event is the last of its row in the log, or is before one that is.
EachIsTopped == \A r : \A p \in Mine(r) : \E q \in Tops(r) : q = p \/ Before(p, q)

\* The greatest ledger decides, and then the greatest index in it.
LEMMA TopExists == NodeInv => EachIsTopped
  <1> SUFFICES ASSUME NodeInv, NEW r, NEW p \in Mine(r)
               PROVE  \E q \in Tops(r) : q = p \/ Before(p, q)
    BY DEF EachIsTopped
  <1> DEFINE S == Mine(r)
             f == [q \in S |-> chain[q].ledger]
  <1>1. Len(chain) \in Nat /\ S \subseteq 1..Len(chain)
    BY PositionsAreNumbers DEF Mine, Replayed, NodeInv
  <1>2. \A q \in S : chain[q].ledger \in Nat /\ chain[q].index \in Nat
    BY <1>1, PositionsAreNumbers DEF Event
  <1>3. IsFiniteSet(S) /\ S # {}
    <2>1. IsFiniteSet(1..Len(chain))
      BY <1>1, FS_Interval
    <2>2. S \in SUBSET (1..Len(chain)) /\ p \in S
      BY <1>1
    <2> HIDE DEF S
    <2> QED
      BY <2>1, <2>2, FS_Subset
  <1>4. PICK x \in S : \A y \in S : chain[y].ledger <= chain[x].ledger
    <2>1. f \in [S -> Nat]
      BY <1>2
    <2>2. \E x \in S : \A y \in S : f[y] <= f[x]
      <3> HIDE DEF f, S
      <3> QED
        BY <1>3, <2>1, GreatestValue
    <2> QED
      BY <2>2
  <1> DEFINE L == {q \in S : chain[q].ledger = chain[x].ledger}
             g == [q \in L |-> chain[q].index]
  <1>5. IsFiniteSet(L) /\ L # {} /\ L \subseteq S
    <2>1. x \in L /\ L \in SUBSET S
      OBVIOUS
    <2> QED
      BY <1>3, <2>1, FS_Subset
  <1>6. PICK q \in L : \A y \in L : chain[y].index <= chain[q].index
    <2>1. g \in [L -> Nat]
      BY <1>2
    <2>2. \E q \in L : \A y \in L : g[y] <= g[q]
      <3> HIDE DEF g, L
      <3> QED
        BY <1>5, <2>1, GreatestValue
    <2> QED
      BY <2>2
  <1>7. q \in S /\ chain[q].ledger = chain[x].ledger
    OBVIOUS
  <1>8. \A y \in S : \/ chain[y].ledger < chain[q].ledger
                     \/ chain[y].ledger = chain[q].ledger /\ chain[y].index <= chain[q].index
    <2> SUFFICES ASSUME NEW y \in S, ~(chain[y].ledger < chain[q].ledger)
                 PROVE  chain[y].ledger = chain[q].ledger /\ chain[y].index <= chain[q].index
      OBVIOUS
    <2>1. chain[y].ledger = chain[x].ledger
      BY <1>2, <1>4, <1>7
    <2> QED
      BY <1>6, <1>7, <2>1
  <1> HIDE DEF f, L, g
  <1>9. \A y \in S : ~Before(q, y)
    BY <1>2, <1>7, <1>8 DEF Before
  <1>10. q \in Tops(r)
    BY <1>7, <1>9 DEF Tops
  <1>11. CASE Before(p, q)
    BY <1>10, <1>11
  <1>12. CASE ~Before(p, q)
    <2>1. chain[p].ledger = chain[q].ledger /\ chain[p].index = chain[q].index
      BY <1>2, <1>7, <1>8, <1>12 DEF Before
    <2>2. \A y \in S : ~Before(p, y)
      BY <1>9, <2>1 DEF Before
    <2>3. p \in Tops(r)
      BY <2>2 DEF Tops
    <2> QED
      BY <2>3
  <1> QED
    BY <1>11, <1>12

\* Among the answers of a row there is a latest one.
EachHasALatest == \A r : \A a \in Said(r) : \E b \in Latest(r) : a.event <= b.event

\* A row that was spoken of has a latest answer: the answers are finitely many.
LEMMA LatestExists == NodeInv /\ KeptInv => EachHasALatest
  <1> SUFFICES ASSUME NodeInv, KeptInv, NEW r, NEW a \in Said(r)
               PROVE  \E b \in Latest(r) : a.event <= b.event
    BY DEF EachHasALatest
  <1> DEFINE S == {c.event : c \in Said(r)}
  <1>1. /\ Len(chain) \in Nat /\ DOMAIN chain = 1..Len(chain)
    BY PositionsAreNumbers
  <1>2. \A c \in Said(r) : c.event \in 1..Len(chain)
    BY <1>1 DEF Said, KeptInv
  <1>3. S \subseteq 1..Len(chain) /\ S # {} /\ S \in SUBSET Nat
    BY <1>1, <1>2
  <1>4. IsFiniteSet(1..Len(chain))
    BY <1>1, FS_Interval
  <1>5. IsFiniteSet(S)
    BY <1>3, <1>4, FS_Subset
  <1>6. \E x \in S : \A y \in S : y <= x
    <2> HIDE DEF S
    <2> QED
      BY <1>3, <1>5, LargestMember
  <1>7. PICK b \in Said(r) : \A y \in S : y <= b.event
    BY <1>6
  <1>8. b \in Latest(r)
    BY <1>7 DEF Latest
  <1> QED
    BY <1>7, <1>8

\* What a row is projected from: the last event in the log, and a latest answer.
ReadOff(r) ==
    /\ Projection[r].event \in Tops(r) \cup {0}
    /\ Projection[r].event \in Nat
    /\ \A p \in Tops(r) : p <= Projection[r].event
    /\ Projection[r].seen \in {a.seen : a \in Latest(r)} \cup {0}
    /\ Projection[r].seen \in Nat
    /\ \A a \in Latest(r) : a.seen <= Projection[r].seen

RowsReadOff == \A r \in Row : ReadOff(r)

\* What a projected row shows, read off the log and the answers.
LEMMA ProjectionRead == NodeInv /\ KeptInv => RowsReadOff
  <1> SUFFICES ASSUME NodeInv, KeptInv, NEW r \in Row
               PROVE  ReadOff(r)
    BY DEF RowsReadOff
  <1> DEFINE X == {a.seen : a \in Latest(r)}
  <1>1. Len(chain) \in Nat /\ DOMAIN chain = 1..Len(chain)
    BY PositionsAreNumbers
  <1>2. Tops(r) \subseteq 0..Len(chain)
    BY <1>1 DEF Tops, Mine, Replayed, NodeInv
  <1>3. X \subseteq 0..Len(chain)
    <2>1. \A a \in Latest(r) : a.seen \in 0..Len(chain)
      BY <1>1 DEF Latest, Said, KeptInv
    <2> QED
      BY <2>1
  <1>4. Projection[r] = [event |-> Newest(Tops(r)), seen |-> Newest(X)]
    BY Zenon DEF Projection, Tops, Mine, Latest, Said
  <1>5. /\ Newest(Tops(r)) \in Nat /\ Newest(Tops(r)) \in Tops(r) \cup {0}
        /\ \A p \in Tops(r) : p <= Newest(Tops(r))
    BY <1>1, <1>2, NewestIsGreatest
  <1>6. /\ Newest(X) \in Nat /\ Newest(X) \in X \cup {0}
        /\ \A p \in X : p <= Newest(X)
    <2> HIDE DEF X
    <2> QED
      BY <1>1, <1>3, NewestIsGreatest
  <1>7. Projection[r].event = Newest(Tops(r)) /\ Projection[r].seen = Newest(X)
    BY <1>4
  <1>8. \A a \in Latest(r) : a.seen \in X
    OBVIOUS
  <1>9. \A a \in Latest(r) : a.seen <= Newest(X)
    BY <1>6, <1>8
  <1> QED
    BY <1>5, <1>6, <1>7, <1>9, Zenon DEF ReadOff, X

\* Later events replayed and younger answers make rows that are no older.
LEMMA ProjectionGrows ==
    ASSUME NodeInv, KeptInv, NodeInv', KeptInv',
           \A r \in Row : \A p \in Tops(r) : \E q \in Tops(r)' : p <= q,
           \A r \in Row : \A a \in Latest(r) : \E b \in Latest(r)' : a.seen <= b.seen
    PROVE  NoOlder(Projection', Projection)
  <1> SUFFICES ASSUME NEW r \in Row
               PROVE  /\ Projection'[r].event >= Projection[r].event
                      /\ Projection'[r].seen >= Projection[r].seen
    BY DEF NoOlder
  <1> DEFINE e == Projection[r].event
             s == Projection[r].seen
  <1>1. /\ e \in Nat /\ e \in Tops(r) \cup {0}
        /\ s \in Nat /\ s \in {a.seen : a \in Latest(r)} \cup {0}
    BY ProjectionRead DEF RowsReadOff, ReadOff
  <1>2. NodeInv' /\ KeptInv' => RowsReadOff'
    BY ProjectionRead, PTL
  <1>3. /\ Projection'[r].event \in Nat /\ Projection'[r].seen \in Nat
        /\ \A p \in Tops(r)' : p <= Projection'[r].event
        /\ \A a \in Latest(r)' : a.seen <= Projection'[r].seen
    BY <1>2 DEF RowsReadOff, ReadOff
  <1>4. e <= Projection'[r].event
    <2>1. CASE e = 0
      BY <1>3, <2>1
    <2>2. CASE e \in Tops(r)
      <3>1. PICK q \in Tops(r)' : e <= q
        BY <2>2
      <3>2. q <= Projection'[r].event
        BY <1>3, <3>1
      <3>3. q \in Nat
        BY <3>1, PositionsAreNumbers DEF Tops, Mine, Replayed, NodeInv
      <3> QED
        BY <1>1, <1>3, <3>1, <3>2, <3>3
    <2> QED
      BY <1>1, <2>1, <2>2
  <1>5. s <= Projection'[r].seen
    <2>1. CASE s = 0
      BY <1>3, <2>1
    <2>2. CASE s # 0
      <3>1. PICK a \in Latest(r) : s = a.seen
        BY <1>1, <2>2
      <3>2. PICK b \in Latest(r)' : a.seen <= b.seen
        OBVIOUS
      <3>3. b.seen <= Projection'[r].seen
        BY <1>3, <3>2
      <3>4. b.seen \in Nat
        <4>1. b \in answers' /\ DOMAIN chain' \subseteq Nat
          BY <3>2, PositionsAreNumbers DEF Latest, Said, NodeInv
        <4> QED
          BY <4>1 DEF KeptInv
      <3> QED
        BY <1>1, <1>3, <3>1, <3>2, <3>3, <3>4
    <2> QED
      BY <2>1, <2>2
  <1> QED
    BY <1>1, <1>3, <1>4, <1>5

\* Nothing stored and nothing published: nothing else is projected.
LEMMA ProjectionStands ==
    ASSUME UNCHANGED <<chain, log, answers>>
    PROVE  Projection' = Projection
  <1>1. chain' = chain /\ log' = log /\ answers' = answers
    OBVIOUS
  <1> QED
    BY <1>1 DEF Projection, Replayed, Before

(***************************************************************************)
(* The log grows at its end, and answers are replaced by younger ones.     *)
(***************************************************************************)
\* The follower has nothing yet, and nothing to be in disorder.
LEMMA StoredInit == ASSUME Init PROVE StoredInv
  BY EmptySeq DEF Init, StoredInv, ChainSorted, LogInv, KeptInv, NoPage

\* What is new on the chain comes after all that was there.
LEMMA StoredCloseLedger ==
    ASSUME SkipInv, StoredInv, CloseLedger
    PROVE  StoredInv' /\ Projection' = Projection
  <1> USE DEF SkipInv, StoredInv
  <1>1. UNCHANGED <<oldest, log, answers, page>>
    BY DEF CloseLedger, ledgers, memory
  <1>2. /\ head' = head + 1 /\ chain' \in Seq(Event)
        /\ DOMAIN chain \subseteq DOMAIN chain'
        /\ \A p \in DOMAIN chain : chain'[p] = chain[p]
        /\ \A p \in DOMAIN chain' \ DOMAIN chain : chain'[p].ledger = head'
    BY ChainGrows
  <1>3. /\ Len(chain) \in Nat /\ DOMAIN chain = 1..Len(chain)
        /\ Len(chain') \in Nat /\ DOMAIN chain' = 1..Len(chain')
    BY <1>2, PositionsAreNumbers
  <1>4. \A p \in DOMAIN chain, q \in DOMAIN chain' : q <= p => q \in DOMAIN chain
    BY <1>3
  <1>5. /\ head \in Nat /\ log \subseteq DOMAIN chain /\ page.events \subseteq DOMAIN chain
        /\ \A p \in DOMAIN chain : chain[p].ledger \in Nat /\ chain[p].ledger <= head
    BY DEF NodeInv, ClaimsInv
  <1>6. ChainSorted'
    <2> SUFFICES ASSUME NEW p \in DOMAIN chain', NEW q \in DOMAIN chain', p <= q
                 PROVE  chain'[p].ledger <= chain'[q].ledger
      BY DEF ChainSorted
    <2>1. CASE q \in DOMAIN chain
      BY <1>2, <1>4, <2>1 DEF ChainSorted
    <2>2. CASE q \notin DOMAIN chain
      <3>1. chain'[q].ledger = head + 1
        BY <1>2, <2>2
      <3>2. chain'[p].ledger \in Nat /\ chain'[p].ledger <= head + 1
        BY <1>2, <1>5
      <3> QED
        BY <3>1, <3>2
    <2> QED
      BY <2>1, <2>2
  <1>7. LogInv'
    <2>1. \A q \in log : chain'[q] = chain[q] /\ chain[q].ledger \in Nat /\ chain[q].ledger <= head
      BY <1>2, <1>5
    <2>2. \A p \in DOMAIN chain' : p \in DOMAIN chain \/ chain'[p].ledger = head + 1
      BY <1>2
    <2>3. \A q \in log, p \in DOMAIN chain' :
              chain'[p].ledger <= chain'[q].ledger => p \in DOMAIN chain /\ chain'[p] = chain[p]
      <3> SUFFICES ASSUME NEW q \in log, NEW p \in DOMAIN chain', p \notin DOMAIN chain
                   PROVE  ~(chain'[p].ledger <= chain'[q].ledger)
        BY <1>2
      <3> QED
        BY <1>5, <2>1, <2>2
    <2>4. \A p \in page.events : chain'[p] = chain[p]
      BY <1>2, <1>5
    <2>5. \A q \in log, p \in DOMAIN chain' :
              chain'[p].ledger <= chain'[q].ledger => p \in log \/ chain'[p].ledger < oldest
      BY <2>1, <2>3 DEF LogInv
    <2>6. \A q \in log, p \in page.events :
              chain'[p].ledger <= chain'[q].ledger => p \in log
      BY <2>1, <2>4 DEF LogInv
    <2> QED
      BY <1>1, <2>5, <2>6 DEF LogInv
  <1>8. \A a \in answers \cup page.answers :
            a.event \in DOMAIN chain /\ chain'[a.event] = chain[a.event]
    BY <1>2 DEF KeptInv
  <1>9. KeptInv'
    <2>1. \A a \in answers \cup page.answers :
              /\ a.event \in DOMAIN chain'
              /\ a.seen \in {0} \cup {p \in DOMAIN chain' : chain'[p].row = chain'[a.event].row}
      BY <1>2, <1>8 DEF KeptInv
    <2>2. \A a, b \in answers :
              /\ chain'[a.event].ledger = chain'[b.event].ledger
              /\ chain'[a.event].row = chain'[b.event].row
              => a = b
      BY <1>8 DEF KeptInv, SameKey
    <2>3. \A a \in answers \cup page.answers, b \in page.answers :
              chain'[a.event].row = chain'[b.event].row => a.seen <= b.seen
      BY <1>8 DEF KeptInv
    <2> QED
      BY <1>1, <2>1, <2>2, <2>3 DEF KeptInv, SameKey
  <1>10. Projection' = Projection
    <2>1. /\ \A p, q \in log : Before(p, q)' <=> Before(p, q)
          /\ \A p \in log : chain'[p] = chain[p]
      BY <1>1, <1>2, <1>5 DEF Before
    <2>2. \A p \in log : {q \in log : Before(q, p)'} = {q \in log : Before(q, p)}
      BY <2>1
    <2>3. Replayed' = Replayed
      BY <1>1, <2>2 DEF Replayed
    <2>4. \A r : Mine(r)' = Mine(r)
      BY <2>1, <2>3 DEF Mine, Replayed
    <2>5. \A r : Tops(r)' = Tops(r)
      <3> SUFFICES ASSUME NEW r PROVE Tops(r)' = Tops(r)
        OBVIOUS
      <3>1. Mine(r) \subseteq log /\ Mine(r)' = Mine(r)
        BY <2>4 DEF Mine, Replayed
      <3> QED
        BY <2>1, <3>1 DEF Tops
    <2>6. \A r : Latest(r)' = Latest(r)
      BY <1>1, <1>8 DEF Latest, Said
    <2>7. Projection = [r \in Row |-> [event |-> Newest(Tops(r)),
                                       seen  |-> Newest({a.seen : a \in Latest(r)})]]
      BY Zenon DEF Projection, Tops, Mine, Latest, Said
    <2>8. Projection' = [r \in Row |-> [event |-> Newest(Tops(r)'),
                                        seen  |-> Newest({a.seen : a \in Latest(r)'})]]
      BY Zenon DEF Projection, Tops, Mine, Latest, Said
    <2> QED
      BY <2>5, <2>6, <2>7, <2>8, Zenon
  <1> QED
    BY <1>6, <1>7, <1>9, <1>10

\* Nothing is stored, and the page is the same or given up.
LEMMA StoredKept ==
    ASSUME SkipInv, StoredInv, UNCHANGED <<chain, log, answers>>,
           oldest' \in Nat, oldest' >= oldest,
           page'.events \subseteq page.events, page'.answers \subseteq page.answers
    PROVE  StoredInv' /\ Projection' = Projection
  <1> USE DEF SkipInv, StoredInv
  <1>1. ChainSorted'
    BY DEF ChainSorted
  <1>2. LogInv'
    <2>1. \A p \in DOMAIN chain : chain[p].ledger < oldest => chain[p].ledger < oldest'
      BY LedgersAreNumbers DEF NodeInv
    <2> QED
      BY <2>1 DEF LogInv
  <1>3. KeptInv'
    BY DEF KeptInv, SameKey
  <1> QED
    BY <1>1, <1>2, <1>3, ProjectionStands

\* However a lap ends, and whoever rewinds, what is stored stays as it was.
LEMMA StoredLapOver ==
    ASSUME SkipInv, StoredInv,
           \/ Prune \/ MoveCursor \/ NoteProgress \/ Health \/ Reproject
           \/ Throw \/ LoseAnswer \/ Stop \/ Start \/ Rebuild \/ UNCHANGED vars
    PROVE  StoredInv' /\ Projection' = Projection
  <1>1. UNCHANGED <<chain, log, answers>>
    BY DEF Prune, MoveCursor, NoteProgress, Health, Reproject, Throw, LoseAnswer, Stop,
           Start, Rebuild, Discard, Rewind, Replay, Apply, GiveUp, vars, node, ledgers
  <1>2. oldest' = oldest \/ oldest' = oldest + 1
    BY DEF Prune, MoveCursor, NoteProgress, Health, Reproject, Throw, LoseAnswer, Stop,
           Start, Rebuild, Discard, Rewind, Replay, Apply, GiveUp, vars, node
  <1>3. page' = page \/ page' = NoPage
    BY DEF Prune, MoveCursor, NoteProgress, Health, Reproject, Throw, LoseAnswer, Stop,
           Start, Rebuild, Discard, Rewind, Replay, Apply, GiveUp, vars, memory
  <1>4. oldest \in Nat
    BY DEF SkipInv, NodeInv
  <1>5. oldest' \in Nat /\ oldest' >= oldest
    BY <1>2, <1>4
  <1>6. page'.events \subseteq page.events /\ page'.answers \subseteq page.answers
    BY <1>3 DEF NoPage
  <1> QED
    BY <1>1, <1>5, <1>6, StoredKept

\* A new page holds only what the node still serves.
LEMMA StoredNewPage ==
    ASSUME ~SplitsLedgers, SkipInv, StoredInv, ReadPage \/ Refused
    PROVE  StoredInv' /\ Projection' = Projection
  <1> USE DEF SkipInv, StoredInv
  <1>1. UNCHANGED <<oldest, chain, log, answers>>
    BY DEF ReadPage, Refused, node, ledgers
  <1>2. /\ oldest \in Nat /\ head \in Nat
        /\ \A p \in DOMAIN chain : chain[p].ledger \in Nat
    BY LedgersAreNumbers DEF NodeInv
  <1>3. \/ page' = page
        \/ page'.events = {} /\ page'.answers = {}
        \/ \E start \in oldest..head : Scanned(start)
    <2>1. CASE ReadPage
      <3> DEFINE start == IF known'.at = 0 THEN oldest ELSE known'.at + 1
      <3>1. (start \in oldest..head /\ Scanned(start)) \/ UNCHANGED page
        BY <2>1 DEF ReadPage
      <3> QED
        BY <3>1
    <2>2. CASE Refused
      <3>1. CASE known.at + 1 > head
        BY <2>2, <3>1 DEF Refused, NoPage
      <3>2. CASE ~(known.at + 1 > head)
        <4>1. Scanned(oldest)
          BY <2>2, <3>2 DEF Refused
        <4>2. PICK through \in oldest..head : TRUE
          BY <4>1 DEF Scanned
        <4>3. oldest \in oldest..head
          BY <1>2, <4>2
        <4> QED
          BY <4>1, <4>3
      <3> QED
        BY <3>1, <3>2
    <2> QED
      BY <2>1, <2>2
  <1>4. CASE page' = page \/ (page'.events = {} /\ page'.answers = {})
    BY <1>1, <1>2, <1>4, StoredKept
  <1>5. CASE \E start \in oldest..head : Scanned(start)
    <2>1. PICK start \in oldest..head : Scanned(start)
      BY <1>5
    <2>2. PICK through \in start..head :
              page' = [events |-> Between(start, through), through |-> through, answers |-> {}]
      BY <2>1 DEF Scanned, Served
    <2>3. \A p \in page'.events : p \in DOMAIN chain /\ ~(chain[p].ledger < oldest)
      BY <1>2, <2>1, <2>2 DEF Between
    <2>4. LogInv'
      BY <1>1, <2>3 DEF LogInv
    <2>5. KeptInv'
      BY <1>1, <2>2 DEF KeptInv, SameKey
    <2>6. ChainSorted'
      BY <1>1 DEF ChainSorted
    <2> QED
      BY <1>1, <2>4, <2>5, <2>6, ProjectionStands
  <1> QED
    BY <1>3, <1>4, <1>5

\* What is read now reflects all the events any stored answer does.
LEMMA StoredGather ==
    ASSUME SkipInv, StoredInv, Gather
    PROVE  StoredInv' /\ Projection' = Projection
  <1> USE DEF SkipInv, StoredInv
  <1>1. UNCHANGED <<oldest, chain, log, answers>>
    BY DEF Gather, node, ledgers
  <1>2. PICK failed \in SUBSET Prompting(page.events) :
            page' = [events |-> page.events, through |-> page.through,
                     answers |-> {[event |-> p, seen |-> LastOf(chain[p].row)] :
                                     p \in Prompting(page.events) \ failed}]
    BY DEF Gather
  <1>3. /\ page'.events = page.events
        /\ \A b \in page'.answers : /\ b.event \in page.events /\ b.event \in DOMAIN chain
                                    /\ b.seen = LastOf(chain[b.event].row)
    BY <1>2 DEF Prompting, ClaimsInv
  <1>4. \A r : /\ LastOf(r) \in {0} \cup {p \in DOMAIN chain : chain[p].row = r}
               /\ LastOf(r) \in Nat
               /\ \A p \in {0} \cup {q \in DOMAIN chain : chain[q].row = r} : p <= LastOf(r)
    <2> SUFFICES ASSUME NEW r
                 PROVE  /\ LastOf(r) \in {0} \cup {p \in DOMAIN chain : chain[p].row = r}
                        /\ LastOf(r) \in Nat
                        /\ \A p \in {0} \cup {q \in DOMAIN chain : chain[q].row = r} : p <= LastOf(r)
      OBVIOUS
    <2> DEFINE S == {p \in DOMAIN chain : chain[p].row = r}
    <2>1. Len(chain) \in Nat /\ DOMAIN chain = 1..Len(chain)
      BY PositionsAreNumbers
    <2>2. S \subseteq 0..Len(chain)
      BY <2>1
    <2>3. LastOf(r) = Newest(S)
      BY Zenon DEF LastOf
    <2> HIDE DEF S
    <2>4. /\ Newest(S) \in Nat /\ Newest(S) \in S \cup {0}
          /\ \A p \in S : p <= Newest(S)
      BY <2>1, <2>2, NewestIsGreatest
    <2>5. \A p \in {0} \cup S : p <= Newest(S)
      BY <2>4
    <2>6. LastOf(r) \in {0} \cup S /\ LastOf(r) \in Nat /\ \A p \in {0} \cup S : p <= LastOf(r)
      BY <2>3, <2>4, <2>5
    <2> QED
      BY <2>6, Zenon DEF S
  <1>5. KeptInv'
    <2>1. \A a \in answers \cup page'.answers :
              /\ a.event \in DOMAIN chain
              /\ a.seen \in {0} \cup {p \in DOMAIN chain : chain[p].row = chain[a.event].row}
      BY <1>3, <1>4 DEF KeptInv
    <2>2. \A a \in answers \cup page'.answers, b \in page'.answers :
              chain[a.event].row = chain[b.event].row => a.seen <= b.seen
      BY <1>3, <1>4, <2>1
    <2> QED
      BY <1>1, <2>1, <2>2 DEF KeptInv, SameKey
  <1>6. LogInv' /\ ChainSorted'
    BY <1>1, <1>3 DEF LogInv, ChainSorted
  <1> QED
    BY <1>1, <1>5, <1>6, ProjectionStands

\* Events are stored behind those that were, in later ledgers, so the last one of a
\* row is the one it was or is further on.
LEMMA StoredEvents ==
    ASSUME SkipInv, SkipInv', StoredInv, StoreEvents
    PROVE  /\ StoredInv'
           /\ \A r : /\ \A p \in Tops(r) : \E q \in Tops(r)' : p <= q
                     /\ Latest(r)' = Latest(r)
  <1> USE DEF SkipInv, StoredInv
  <1>1. /\ UNCHANGED <<oldest, chain, answers, page>> /\ log' = log \cup page.events
        /\ doing = "storing"
    BY DEF StoreEvents, node
  <1>2. /\ log \subseteq DOMAIN chain /\ page.events \subseteq DOMAIN chain
        /\ page.through \in Nat
        /\ \A p \in DOMAIN chain : p \in Nat /\ chain[p].ledger \in Nat
    BY LedgersAreNumbers, PositionsAreNumbers DEF NodeInv, ClaimsInv
  <1>3. \A q \in page.events, p \in DOMAIN chain :
            chain[p].ledger <= chain[q].ledger => p \in log' \/ chain[p].ledger < oldest
    <2> SUFFICES ASSUME NEW q \in page.events, NEW p \in DOMAIN chain,
                        chain[p].ledger <= chain[q].ledger
                 PROVE  p \in log' \/ chain[p].ledger < oldest
      OBVIOUS
    <2>1. q \in DOMAIN chain /\ chain[q].ledger <= page.through
      BY <1>2 DEF ClaimsInv
    <2>2. chain[p].ledger <= page.through
      BY <1>2, <2>1
    <2> QED
      BY <1>1, <2>2 DEF PageInv, Writing
  <1>4. LogInv'
    BY <1>1, <1>3 DEF LogInv
  <1>5. KeptInv' /\ ChainSorted'
    BY <1>1 DEF KeptInv, SameKey, ChainSorted
  <1>6. \A p, q : Before(p, q)' <=> Before(p, q)
    BY <1>1 DEF Before
  <1>7. \A p \in log, q \in log' : chain[q].ledger <= chain[p].ledger => q \in log
    BY <1>1 DEF LogInv
  <1>8. \A p \in log : {q \in log' : Before(q, p)'} = {q \in log : Before(q, p)}
    <2>1. \A p \in log, q \in log' : Before(q, p) => q \in log
      BY <1>1, <1>2, <1>7 DEF Before
    <2> QED
      BY <1>1, <1>6, <2>1
  <1>9. \A p \in log : p \in Replayed' <=> p \in Replayed
    BY <1>1, <1>8 DEF Replayed
  <1>10. ASSUME NEW r, NEW p \in Tops(r)
         PROVE  \E q \in Tops(r)' : p <= q
    <2>1. p \in Mine(r) /\ p \in log /\ p \in DOMAIN chain /\ \A q \in Mine(r) : ~Before(p, q)
      BY <1>2, <1>10 DEF Tops, Mine, Replayed
    <2>2. p \in Mine(r)'
      BY <1>1, <1>9, <2>1 DEF Mine
    <2>3. NodeInv' => EachIsTopped'
      BY TopExists, PTL
    <2>4. PICK q \in Tops(r)' : q = p \/ Before(p, q)
      BY <1>6, <2>2, <2>3 DEF EachIsTopped
    <2>5. q \in log' /\ q \in DOMAIN chain /\ q \in Mine(r)'
      BY <1>1, <1>2, <2>4 DEF Tops, Mine, Replayed
    <2>6. CASE q = p
      BY <1>2, <2>1, <2>4, <2>6
    <2>7. CASE Before(p, q)
      <3>1. ~(chain[q].ledger <= chain[p].ledger)
        <4> SUFFICES ASSUME chain[q].ledger <= chain[p].ledger
                     PROVE  FALSE
          OBVIOUS
        <4>1. q \in log
          BY <1>7, <2>1, <2>5
        <4>2. q \in Mine(r)
          BY <1>1, <1>9, <2>5, <4>1 DEF Mine
        <4> QED
          BY <2>1, <2>7, <4>2
      <3>2. ~(q <= p)
        BY <2>1, <2>5, <3>1 DEF ChainSorted
      <3> QED
        BY <1>2, <2>1, <2>4, <2>5, <3>2
    <2> QED
      BY <2>4, <2>6, <2>7
  <1>11. \A r : Latest(r)' = Latest(r)
    BY <1>1 DEF Said, Latest
  <1> QED
    BY <1>4, <1>5, <1>10, <1>11

\* Where an answer is replaced, its row shows one that was read later.
LEMMA StoredAnswers ==
    ASSUME SkipInv, SkipInv', StoredInv, StoreReads
    PROVE  /\ StoredInv'
           /\ \A r : /\ Tops(r)' = Tops(r)
                     /\ \A a \in Latest(r) : \E b \in Latest(r)' : a.seen <= b.seen
  <1> USE DEF SkipInv, StoredInv
  <1>1. /\ UNCHANGED <<oldest, chain, log, page>> /\ ~Twins
        /\ answers' = {a \in answers : \A b \in page.answers : ~SameKey(a, b)} \cup page.answers
    BY DEF StoreReads, node
  <1>2. \A a \in answers' : \/ a \in page.answers
                            \/ a \in answers /\ \A b \in page.answers : ~SameKey(a, b)
    BY <1>1
  <1>3. \A a, b \in answers' : SameKey(a, b) => a = b
    <2> SUFFICES ASSUME NEW a \in answers', NEW b \in answers', SameKey(a, b)
                 PROVE  a = b
      OBVIOUS
    <2>1. SameKey(b, a)
      BY DEF SameKey
    <2>2. CASE a \in page.answers /\ b \in page.answers
      BY <1>1, <2>2 DEF Twins
    <2>3. CASE a \notin page.answers \/ b \notin page.answers
      BY <1>2, <2>1, <2>3 DEF KeptInv
    <2> QED
      BY <2>2, <2>3
  <1>4. KeptInv'
    <2>1. answers' \cup page.answers \subseteq answers \cup page.answers
      BY <1>1
    <2> QED
      BY <1>1, <1>3, <2>1 DEF KeptInv, SameKey
  <1>5. LogInv' /\ ChainSorted'
    BY <1>1 DEF LogInv, ChainSorted
  <1>6. \A r : Tops(r)' = Tops(r)
    BY <1>1 DEF Tops, Mine, Replayed, Before
  <1>7. ASSUME NEW r, NEW a \in Latest(r)
        PROVE  \E b \in Latest(r)' : a.seen <= b.seen
    <2>1. /\ a \in answers /\ chain[a.event].row = r
          /\ a.event \in DOMAIN chain /\ a.seen \in Nat
          /\ \A c \in Said(r) : c.event <= a.event
      BY <1>7, PositionsAreNumbers DEF Latest, Said, KeptInv
    <2>2. PICK d \in answers' : /\ chain[d.event].ledger = chain[a.event].ledger
                                /\ chain[d.event].row = chain[a.event].row
      <3>1. CASE a \in answers'
        BY <3>1
      <3>2. CASE a \notin answers'
        BY <1>1, <2>1, <3>2 DEF SameKey
      <3> QED
        BY <3>1, <3>2
    <2>3. d \in Said(r)'
      BY <1>1, <2>1, <2>2 DEF Said
    <2>4. NodeInv' /\ KeptInv' => EachHasALatest'
      BY LatestExists, PTL
    <2>5. PICK b \in Latest(r)' : d.event <= b.event
      BY <1>4, <2>3, <2>4 DEF EachHasALatest
    <2>6. b \in answers' /\ chain[b.event].row = r
      BY <1>1, <2>5 DEF Latest, Said
    <2>7. CASE b \in page.answers
      BY <2>1, <2>5, <2>6, <2>7 DEF KeptInv
    <2>8. CASE b \notin page.answers
      <3>1. b \in answers
        BY <1>2, <2>6, <2>8
      <3>2. b.event <= a.event
        BY <2>1, <2>6, <3>1 DEF Said
      <3>3. b.event \in DOMAIN chain /\ d.event \in DOMAIN chain
        BY <1>1, <2>2, <3>1 DEF KeptInv
      <3>4. /\ chain[d.event].ledger <= chain[b.event].ledger
            /\ chain[b.event].ledger <= chain[a.event].ledger
        BY <2>1, <2>5, <3>2, <3>3 DEF ChainSorted
      <3>5. chain[b.event].ledger = chain[a.event].ledger
        <4>1. chain[b.event].ledger \in Nat /\ chain[a.event].ledger \in Nat
          BY <2>1, <3>3, LedgersAreNumbers
        <4> QED
          BY <2>2, <3>4, <4>1
      <3>6. b = a
        BY <2>1, <2>6, <3>1, <3>5 DEF KeptInv, SameKey
      <3> QED
        BY <2>1, <2>5, <3>6
    <2> QED
      BY <2>7, <2>8
  <1> QED
    BY <1>4, <1>5, <1>6, <1>7

(***************************************************************************)
(* The rows follow the projection.                                         *)
(***************************************************************************)
\* A projection is one row of each.
LEMMA ProjectionTyped == NodeInv /\ KeptInv => Projection \in [Row -> Shown]
  <1> SUFFICES ASSUME NodeInv, KeptInv
               PROVE  Projection \in [Row -> Shown]
    OBVIOUS
  <1>1. \A r \in Row : Projection[r].event \in Nat /\ Projection[r].seen \in Nat
    BY ProjectionRead DEF RowsReadOff, ReadOff
  <1>2. Projection = [r \in Row |-> [event |-> Projection[r].event,
                                     seen  |-> Projection[r].seen]]
    BY DEF Projection
  <1> QED
    BY <1>1, <1>2 DEF Shown

\* Being no older is an order on tables of rows.
LEMMA NoOlderCarriesOver ==
    ASSUME NEW f \in [Row -> Shown], NEW g \in [Row -> Shown], NEW h \in [Row -> Shown],
           NoOlder(f, g), NoOlder(g, h)
    PROVE  NoOlder(f, h)
  BY DEF NoOlder, Shown

\* Rows that nobody wrote are no older than they were.
LEMMA NoOlderThanItself == ASSUME NEW f \in [Row -> Shown] PROVE NoOlder(f, f)
  BY DEF NoOlder, Shown

\* Every row is no older than an empty one.
LEMMA NoOlderThanNothing ==
    ASSUME NEW f \in [Row -> Shown]
    PROVE  NoOlder(f, NoRows) /\ NoRows \in [Row -> Shown]
  BY DEF NoOlder, Shown, NoRows, NoRow

\* Whichever tables were written, rows end between what they were and the projection.
LEMMA Applying ==
    ASSUME NEW new \in [Row -> Shown], NEW reached,
           rows \in [Row -> Shown], NoOlder(new, rows), rows' = Applied(new, reached)
    PROVE  /\ rows' \in [Row -> Shown]
           /\ NoOlder(rows', rows) /\ NoOlder(new, rows')
  <1>1. \A r \in Row : rows'[r] = rows[r] \/ rows'[r] = new[r]
    BY DEF Applied
  <1>2. rows' \in [Row -> Shown]
    BY DEF Applied
  <1>3. \A r \in Row : /\ rows[r].event \in Nat /\ rows[r].seen \in Nat
                       /\ new[r].event \in Nat /\ new[r].seen \in Nat
    BY DEF Shown
  <1>4. \A r \in Row : new[r].event >= rows[r].event /\ new[r].seen >= rows[r].seen
    BY DEF NoOlder
  <1>5. \A r \in Row : /\ rows'[r].event >= rows[r].event /\ rows'[r].seen >= rows[r].seen
                       /\ new[r].event >= rows'[r].event /\ new[r].seen >= rows'[r].seen
    BY <1>1, <1>3, <1>4
  <1> QED
    BY <1>2, <1>5 DEF NoOlder

\* The rows start empty, with no rebuild under way.
LEMMA RowsInit == ASSUME Init PROVE RowsInv
  <1>1. NodeInv /\ KeptInv
    BY SkipInit, StoredInit DEF SkipInv, StoredInv
  <1>2. Projection \in [Row -> Shown]
    BY <1>1, ProjectionTyped
  <1>3. rows = NoRows /\ rebuild = Resting
    BY DEF Init
  <1> QED
    BY <1>2, <1>3, NoOlderThanNothing DEF RowsInv, Resting

\* A step that writes no rows, with the projection growing under them.
LEMMA RowsStand ==
    ASSUME RowsInv, Projection \in [Row -> Shown], Projection' \in [Row -> Shown],
           NoOlder(Projection', Projection), UNCHANGED <<rows, rebuild>>,
           rebuild.at # "no" => doing' = "down" /\ Projection' = Projection
    PROVE  RowsInv' /\ NoOlder(rows', rows)
  <1>1. rows \in [Row -> Shown] /\ NoOlder(Projection, rows)
    BY DEF RowsInv
  <1>2. NoOlder(Projection', rows)
    BY <1>1, NoOlderCarriesOver
  <1>3. NoOlder(rows', rows)
    BY <1>1, NoOlderThanItself
  <1> QED
    BY <1>2, <1>3 DEF RowsInv

\* A step of the follower means that no rebuild is under way.
LEMMA FollowerRuns ==
    ASSUME RowsInv, Lap \/ Throw \/ LoseAnswer \/ Stop
    PROVE  doing # "down" /\ rebuild.at = "no"
  <1>1. doing # "down"
    BY IndexerAssumption
    DEF Lap, ReadPage, Refused, Gather, StoreEvents, StoreReads, MoveCursor, NoteProgress,
        Health, Reproject, Throw, LoseAnswer, Stop, Step
  <1> QED
    BY <1>1 DEF RowsInv

\* Every step of the follower, the node and a rebuild: rows end no older than they were,
\* unless the step is the one that throws them away.
LEMMA RowsStep ==
    ASSUME ~SplitsLedgers, RebuildAlone, SkipInv, SkipInv', StoredInv, RowsInv, [Next]_vars
    PROVE  StoredInv' /\ RowsInv' /\ (Discard \/ NoOlder(rows', rows))
  <1>1. /\ rows \in [Row -> Shown] /\ NoOlder(Projection, rows)
        /\ rebuild.at # "no" => doing = "down" /\ rows = NoRows
        /\ Projection \in [Row -> Shown]
    BY ProjectionTyped DEF RowsInv, SkipInv, StoredInv
  <1>2. NodeInv' /\ KeptInv' => (Projection \in [Row -> Shown])'
    BY ProjectionTyped, PTL
  <1>3. StoredInv' => Projection' \in [Row -> Shown]
    BY <1>2 DEF SkipInv, StoredInv
  <1>4. CASE StoreEvents \/ StoreReads
    <2>1. StoredInv' /\ \A r : /\ \A p \in Tops(r) : \E q \in Tops(r)' : p <= q
                               /\ \A a \in Latest(r) : \E b \in Latest(r)' : a.seen <= b.seen
      <3>1. CASE StoreEvents
        <4>1. StoredInv' /\ \A r : /\ \A p \in Tops(r) : \E q \in Tops(r)' : p <= q
                                   /\ Latest(r)' = Latest(r)
          BY <3>1, StoredEvents
        <4>2. \A r : \A a \in Latest(r) : a.seen <= a.seen
          BY PositionsAreNumbers DEF Latest, Said, SkipInv, StoredInv, KeptInv
        <4> QED
          BY <4>1, <4>2
      <3>2. CASE StoreReads
        <4>1. StoredInv' /\ \A r : /\ Tops(r)' = Tops(r)
                                   /\ \A a \in Latest(r) : \E b \in Latest(r)' : a.seen <= b.seen
          BY <3>2, StoredAnswers
        <4>2. \A r : \A p \in Tops(r) : p \in Nat
          BY PositionsAreNumbers DEF Tops, Mine, Replayed, SkipInv, NodeInv
        <4>3. \A r : \A p \in Tops(r) : \E q \in Tops(r)' : p <= q
          BY <4>1, <4>2
        <4> QED
          BY <4>1, <4>3
      <3> QED
        BY <1>4, <3>1, <3>2
    <2>2. NoOlder(Projection', Projection)
      BY <2>1, ProjectionGrows DEF SkipInv, StoredInv
    <2>3. UNCHANGED <<rows, rebuild>>
      BY <1>4 DEF StoreEvents, StoreReads
    <2>4. rebuild.at = "no"
      BY <1>4, FollowerRuns DEF Lap
    <2> QED
      BY <1>1, <1>3, <2>1, <2>2, <2>3, <2>4, RowsStand
  <1>5. CASE ~(StoreEvents \/ StoreReads)
    <2>1. StoredInv' /\ Projection' = Projection
      BY <1>5, StoredCloseLedger, StoredLapOver, StoredNewPage, StoredGather DEF Next, Lap
    <2>2. NoOlder(Projection', Projection) /\ Projection' \in [Row -> Shown]
      BY <1>1, <2>1, NoOlderThanItself
    <2>3. CASE \/ CloseLedger \/ Prune \/ ReadPage \/ Refused \/ Gather \/ MoveCursor
               \/ NoteProgress \/ Health \/ LoseAnswer \/ Stop \/ Start \/ UNCHANGED vars
      <3>1. UNCHANGED <<rows, rebuild>>
        BY <2>3 DEF CloseLedger, Prune, ReadPage, Refused, Gather, MoveCursor,
                    NoteProgress, Health, LoseAnswer, Stop, Start, vars
      <3>2. rebuild.at # "no" => doing' = "down"
        <4>1. CASE CloseLedger \/ Prune \/ UNCHANGED vars
          <5>1. doing' = doing
            BY <4>1 DEF CloseLedger, Prune, vars, memory
          <5> QED
            BY <1>1, <5>1
        <4>2. CASE Start
          BY <4>2 DEF Start
        <4>3. CASE \/ ReadPage \/ Refused \/ Gather \/ MoveCursor \/ NoteProgress
                   \/ Health \/ LoseAnswer \/ Stop
          BY <4>3, FollowerRuns DEF Lap
        <4> QED
          BY <2>3, <4>1, <4>2, <4>3
      <3> QED
        BY <1>1, <2>1, <2>2, <3>1, <3>2, RowsStand
    <2>4. CASE Reproject \/ Throw
      <3>1. rebuild.at = "no" /\ rebuild' = rebuild
        BY <2>4, FollowerRuns DEF Lap, Reproject, Throw
      <3>2. rows' = rows \/ \E reached : rows' = Applied(Projection, reached)
        BY <2>4 DEF Reproject, Throw
      <3>3. CASE rows' = rows
        BY <1>1, <2>1, <2>2, <3>1, <3>3, RowsStand
      <3>4. CASE \E reached : rows' = Applied(Projection, reached)
        <4>1. rows' \in [Row -> Shown] /\ NoOlder(rows', rows) /\ NoOlder(Projection, rows')
          BY <1>1, <3>4, Applying
        <4> QED
          BY <2>1, <3>1, <4>1 DEF RowsInv
      <3> QED
        BY <3>2, <3>3, <3>4
    <2>5. CASE Discard
      <3>1. /\ rows' = NoRows /\ rebuild' = [rebuild EXCEPT !.at = "rewinding"]
            /\ doing' = doing /\ doing = "down"
        BY <2>5 DEF Discard, Alone, memory
      <3>2. /\ rebuild'.at = "rewinding"
            /\ rebuild' \in [at : {"no", "rewinding", "replaying", "applying"},
                             rows : [Row -> Shown]]
        BY <3>1 DEF RowsInv
      <3>3. NoOlder(Projection', rows') /\ rows' \in [Row -> Shown]
        BY <2>2, <3>1, NoOlderThanNothing
      <3>4. RowsInv'
        BY <3>1, <3>2, <3>3 DEF RowsInv
      <3> QED
        BY <2>1, <2>5, <3>4
    <2>6. CASE Rewind \/ Replay
      <3>1. /\ rebuild.at # "no" /\ rows' = rows /\ doing' = doing
            /\ \/ rebuild' = [rebuild EXCEPT !.at = "replaying"]
               \/ rebuild' = [at |-> "applying", rows |-> Projection]
        BY <2>6 DEF Rewind, Replay, memory
      <3>2. /\ rebuild' \in [at : {"no", "rewinding", "replaying", "applying"},
                             rows : [Row -> Shown]]
            /\ rebuild'.at = "applying" => rebuild'.rows = Projection
        BY <1>1, <3>1 DEF RowsInv
      <3>3. RowsInv'
        BY <1>1, <2>1, <3>1, <3>2 DEF RowsInv
      <3>4. NoOlder(rows', rows)
        BY <1>1, <3>1, NoOlderThanItself
      <3> QED
        BY <2>1, <3>3, <3>4
    <2>7. CASE Apply \/ GiveUp
      <3>1. rebuild' = Resting /\ rows \in [Row -> Shown]
        BY <1>1, <2>7 DEF Apply, GiveUp
      <3>2. rows' = rows \/ \E reached : rows' = Applied(Projection, reached)
        <4>1. CASE rebuild.at = "applying"
          <5>1. rebuild.rows = Projection
            BY <4>1 DEF RowsInv
          <5> QED
            BY <2>7, <5>1 DEF Apply, GiveUp
        <4>2. CASE rebuild.at # "applying"
          BY <2>7, <4>2 DEF Apply, GiveUp
        <4> QED
          BY <4>1, <4>2
      <3>3. rows' \in [Row -> Shown] /\ NoOlder(rows', rows) /\ NoOlder(Projection, rows')
        <4>1. CASE rows' = rows
          BY <1>1, <4>1, NoOlderThanItself
        <4>2. CASE \E reached : rows' = Applied(Projection, reached)
          BY <1>1, <4>2, Applying
        <4> QED
          BY <3>2, <4>1, <4>2
      <3>4. RowsInv'
        BY <2>1, <3>1, <3>3, NoOlderThanNothing DEF RowsInv, Resting
      <3> QED
        BY <2>1, <3>3, <3>4
    <2> QED
      BY <1>5, <2>3, <2>4, <2>5, <2>6, <2>7 DEF Next, Lap, Rebuild
  <1> QED
    BY <1>4, <1>5

(***************************************************************************)
(* As long as a page does not end inside a ledger and the follower is      *)
(* stopped for a rebuild, no pass repeated, cut short or replayed takes a  *)
(* row back to an older event or answer, whatever part of a long log one   *)
(* query returns; only a rebuild that throws every row away does           *)
(* (project.ts, ingest.ts:188).                                            *)
(***************************************************************************)
THEOREM RowsOnlyMoveOn ==
    ASSUME ~SplitsLedgers, RebuildAlone
    PROVE  Spec => RowsNeverGoBack
  <1> DEFINE Inv == IndexerInv /\ StoredInv /\ RowsInv
             Step1 == Discard \/ NoOlder(rows', rows)
  <1>1. Init => Inv
    BY SkipInit, AnswersInit, StoredInit, RowsInit DEF IndexerInv
  <1>2. Inv /\ [Next]_vars => Inv' /\ Step1
    <2> SUFFICES ASSUME Inv, [Next]_vars
                 PROVE  Inv' /\ Step1
      OBVIOUS
    <2>1. IndexerInv'
      BY IndexerStep
    <2>2. StoredInv' /\ RowsInv' /\ Step1
      BY <2>1, RowsStep DEF IndexerInv
    <2> QED
      BY <2>1, <2>2
  <1>3. Step1 => Discard \/ \A r \in Row : rows'[r].event >= rows[r].event
                                           /\ rows'[r].seen >= rows[r].seen
    BY DEF NoOlder
  <1> QED
    BY <1>1, <1>2, <1>3, PTL DEF Spec, RowsNeverGoBack
=============================================================================
