--------------------------- MODULE CashOut_proofs ---------------------------
(***************************************************************************)
(* Proofs about CashOut, for either kind of anchor, any number of          *)
(* withdrawals and payments, and however often a call fails or the tab is  *)
(* closed.                                                                 *)
(***************************************************************************)
EXTENDS CashOut, FiniteSetTheorems, TLAPS

\* What the assumption on the bounds says is open to every step.
USE CashOutAssumption

-----------------------------------------------------------------------------
(***************************************************************************)
(* The invariant: a card that is about to open a withdrawal and was not    *)
(* refused the list still has none open, since nothing but this card opens *)
(* one; a card that shows a withdrawal, and a payment that is made for     *)
(* one, name one the anchor has; and the account's sequence counts the     *)
(* payments that were applied.                                             *)
(***************************************************************************)

Transfer == [status : {"incomplete", Waits, "pending_anchor", "completed", "expired"},
             amount : Amount \cup {Unnamed}, blind : BOOLEAN]

Payment == [transfer : 1..MaxTransfers, amount : Amount, sequence : 0..MaxPayments,
            status : {"pending", "landed", "failed", "dropped"}]

Places   == {"closed", "running", "sending", "failed"} \cup Beginning
Statuses == {"none", "incomplete", Waits, "pending_anchor", "completed", "expired"}
Amounts  == Amount \cup {Unnamed, TheAddress}

Page == [at : Places, token : BOOLEAN, id : 0..MaxTransfers, status : Statuses,
         amountIn : Amounts, blind : BOOLEAN, lists : Nat]

Paying == [at : {"idle"} \cup Sending, id : 0..MaxTransfers, amountIn : Amounts,
           now : 0..MaxHeld, sequence : 0..MaxPayments]

Applied == {p \in DOMAIN payments : payments[p].status \in {"landed", "failed"}}

Bounded ==
    /\ Len(transfers) <= MaxTransfers
    /\ Len(payments) <= MaxPayments
    /\ held <= won
    /\ sequence = Cardinality(Applied)

\* Where the card shows a transfer, and where it has seen the list.
Shows  == {"amounting", "running", "sending"}
Looked == {"identifying", "opening"}

LookedFirst == page.at \in Looked /\ ~ page.blind => Open = {}

Placed == /\ page.at \in Shows => page.id \in DOMAIN transfers
          /\ pay.at \in Sending => pay.id \in DOMAIN transfers

Weighed == pay.at \in {"building", "signing"} => pay.now > 0

CashOutInv == /\ CashOutTypeOK /\ Bounded /\ Placed /\ Weighed
              /\ LookedFirst /\ OneOpenTransfer

-----------------------------------------------------------------------------

(* The shape of what the anchor, the network and the card hold.             *)
LEMMA Rows ==
    CashOutTypeOK <=> /\ hosted \in Anchors /\ asset \in Assets /\ asks \in BOOLEAN
                      /\ held \in 0..MaxHeld /\ won \in 0..MaxHeld
                      /\ sequence \in 0..MaxPayments
                      /\ payments \in Seq(Payment)
                      /\ transfers \in Seq(Transfer)
                      /\ page \in Page /\ pay \in Paying
                      /\ faults \in 0..MaxFaults
BY DEF CashOutTypeOK, Payment, Transfer, Page, Paying, Places, Statuses, Amounts

(* The places, statuses and amounts the steps below write down.             *)
LEMMA Names ==
    /\ {"closed", "running", "sending", "failed", "proving", "looking", "identifying",
        "opening", "amounting"} \subseteq Places
    /\ {"none", "incomplete", Waits} \subseteq Statuses
    /\ Amount \cup {Unnamed, TheAddress} \subseteq Amounts
    /\ Sending = {"weighing", "building", "signing", "polling"}
BY DEF Places, Beginning, Sending, Statuses, Amounts

(* What the steps below make of the card and of the payment.                *)
LEMMA Cards ==
    ASSUME page \in Page, pay \in Paying, NEW at \in Places
    PROVE  /\ To(at) \in Page /\ To(at).at = at
           /\ To(at).id = page.id /\ To(at).blind = page.blind
           /\ Fresh \in Page /\ Fresh.at = "closed"
           /\ Without(at) \in Page /\ Without(at).at = at
           /\ Refuse \in Page /\ Refuse.at = "failed"
           /\ Back \in Page /\ Back.at = "running" /\ Back.id = pay.id
           /\ Back.lists = page.lists
           /\ Idle \in Paying /\ Idle.at = "idle" /\ Idle.id = 0
<1>1. /\ To(at) \in Page /\ To(at).at = at
      /\ To(at).id = page.id /\ To(at).blind = page.blind
  BY DEF To, Page
<1>2. /\ Fresh \in Page /\ Fresh.at = "closed"
      /\ Idle \in Paying /\ Idle.at = "idle" /\ Idle.id = 0
  BY Names DEF Fresh, Idle, Page, Paying
<1>3. Without(at) \in Page /\ Without(at).at = at
  BY <1>2 DEF Without, Page
<1>4. Refuse \in Page /\ Refuse.at = "failed"
  BY <1>2, Names DEF Refuse, Without, Page
<1>5. /\ Back \in Page /\ Back.at = "running" /\ Back.id = pay.id
      /\ Back.lists = page.lists
  BY Names DEF Back, Page, Paying
<1> QED
  BY <1>1, <1>2, <1>3, <1>4, <1>5

(* Where the card is once the list names nothing that is open.              *)
LEMMA OpensNext ==
    ASSUME page \in Page, NEW blind \in BOOLEAN
    PROVE  /\ NoneOpen(blind) \in Page /\ NoneOpen(blind).blind = blind
           /\ NoneOpen(blind).at \in Looked
<1> DEFINE to == IF hosted THEN "opening" ELSE "identifying"
<1>1. /\ to \in Places /\ to \in Looked
      /\ NoneOpen(blind) = [page EXCEPT !.at = to, !.blind = blind]
  BY Names DEF NoneOpen, Looked
<1> HIDE DEF to
<1> QED
  BY <1>1 DEF Page

(* A step that leaves the network and the anchor alone has to show that the *)
(* tab is still in place.                                                   *)
LEMMA TabStep ==
    ASSUME CashOutInv, Outside, faults' \in 0..MaxFaults,
           page' \in Page, pay' \in Paying, Placed', Weighed', LookedFirst'
    PROVE  CashOutInv'
<1>1. /\ hosted \in Anchors /\ asset \in Assets /\ asks \in BOOLEAN
      /\ held \in 0..MaxHeld /\ won \in 0..MaxHeld
      /\ sequence \in 0..MaxPayments /\ payments \in Seq(Payment)
      /\ transfers \in Seq(Transfer)
  BY Rows DEF CashOutInv
<1>2. UNCHANGED <<hosted, asset, asks, held, won, sequence, payments, transfers>>
  BY DEF Outside, terms, ledger
<1>3. CashOutTypeOK'
  BY <1>1, <1>2 DEF CashOutTypeOK, Payment, Transfer, Page, Paying, Places, Statuses, Amounts
<1>4. Bounded' /\ OneOpenTransfer'
  BY <1>2 DEF CashOutInv, Bounded, Applied, OneOpenTransfer, Open
<1> QED
  BY <1>3, <1>4 DEF CashOutInv

(* A step of the card, with the payment that is made behind it left alone.  *)
LEMMA CardStep ==
    ASSUME CashOutInv, Outside, UNCHANGED pay, faults' \in 0..MaxFaults, page' \in Page,
           page'.at \in Shows => page'.id \in DOMAIN transfers,
           page'.at \in Looked /\ ~ page'.blind => Open = {}
    PROVE  CashOutInv'
<1>1. pay' \in Paying /\ UNCHANGED transfers
  BY Rows DEF CashOutInv, Outside
<1>2. Placed' /\ Weighed' /\ LookedFirst'
  BY <1>1 DEF CashOutInv, Placed, Weighed, LookedFirst, Open
<1> QED
  BY <1>1, <1>2, TabStep

(* A step of the payment that leaves the card alone.                        *)
LEMMA PayStep ==
    ASSUME CashOutInv, Outside, UNCHANGED <<page, faults>>, pay' \in Paying,
           pay.at \in Sending, pay'.id = pay.id,
           pay'.at \in {"building", "signing"} => pay'.now > 0
    PROVE  CashOutInv'
<1>1. page' \in Page /\ faults' \in 0..MaxFaults /\ UNCHANGED transfers
  BY Rows DEF CashOutInv, Outside
<1>2. Placed' /\ Weighed' /\ LookedFirst'
  BY <1>1 DEF CashOutInv, Placed, Weighed, LookedFirst, Open
<1> QED
  BY <1>1, <1>2, TabStep

(* A step that ends the payment, and what the card shows then.              *)
LEMMA EndStep ==
    ASSUME CashOutInv, NEW card \in Page, Ends(card), faults' \in 0..MaxFaults,
           \/ card.at \in {"closed", "failed"}
           \/ card.at = "running" /\ card.id \in DOMAIN transfers
    PROVE  CashOutInv'
<1>1. Outside /\ page' = card /\ pay' = Idle /\ UNCHANGED transfers
  BY DEF Ends, Outside
<1>2. page \in Page /\ pay \in Paying
  BY Rows DEF CashOutInv
<1>3. Idle \in Paying /\ Idle.at = "idle"
  BY <1>2, Names, Cards
<1>4. Placed' /\ Weighed' /\ LookedFirst'
  BY <1>1, <1>3, Names DEF Placed, Weighed, LookedFirst, Shows, Looked
<1> QED
  BY <1>1, <1>3, <1>4, TabStep

(* The anchor's transfers are told to the card as they are.                 *)
LEMMA ToldShape ==
    ASSUME CashOutTypeOK, Bounded, NEW i \in DOMAIN transfers
    PROVE  /\ Told(i) \in Page /\ Told(i).id = i /\ Told(i).at = page.at
<1>1. transfers \in Seq(Transfer) /\ page \in Page
  BY Rows
<1>2. transfers[i] \in Transfer /\ i \in 1..MaxTransfers
  BY <1>1 DEF Bounded
<1>3. transfers[i].status \in Statuses /\ transfers[i].amount \in Amounts
  BY <1>2 DEF Transfer, Statuses, Amounts
<1>4. i \in 0..MaxTransfers
  BY <1>2
<1> DEFINE status == transfers[i].status
           amount == transfers[i].amount
<1>5. Told(i) = [page EXCEPT !.id = i, !.status = status, !.amountIn = amount]
  BY DEF Told
<1> HIDE DEF status, amount
<1> QED
  BY <1>1, <1>3, <1>4, <1>5 DEF Page, status, amount

LEMMA InvInit == CashOutInit => CashOutInv
<1> SUFFICES ASSUME CashOutInit
             PROVE  CashOutInv
  OBVIOUS
<1>1. Kept \in 0..MaxHeld
  BY DEF Kept, CashOutInit, CashOutAssumption
<1>2. CashOutTypeOK
  BY <1>1 DEF CashOutInit, CashOutTypeOK, Fresh, Idle, Waits, Beginning, Sending, Amount
<1>3. Applied = {} /\ Cardinality({}) = 0
  BY FS_EmptySet DEF CashOutInit, Applied
<1>4. Bounded
  BY <1>1, <1>3 DEF CashOutInit, Bounded
<1> QED
  BY <1>2, <1>4 DEF CashOutInit, CashOutInv, Placed, Weighed, LookedFirst, Shows, Looked,
                    OneOpenTransfer, Open, Fresh, Idle, Sending

(* What the card does by itself and on a click, but for opening a           *)
(* withdrawal and for paying one.                                           *)
LEMMA CardMoves ==
    ASSUME CashOutInv,
           \/ Prove \/ Look \/ Identify \/ FillAmount \/ Poll \/ Resume
           \/ Begin \/ Retry \/ BeginFails \/ ListRefused
    PROVE  CashOutInv'
<1>1. /\ page \in Page /\ pay \in Paying /\ held \in 0..MaxHeld /\ MaxHeld \in Nat
      /\ faults \in 0..MaxFaults /\ CashOutTypeOK /\ Bounded /\ MaxFaults \in Nat
      /\ Placed /\ LookedFirst
  BY Rows DEF CashOutInv
<1>2. Open \subseteq DOMAIN transfers
  BY DEF Open
<1>3. Outside /\ UNCHANGED pay /\ faults' \in 0..MaxFaults
  <2>1. ASSUME NEW v, Only(v)
        PROVE  Outside /\ UNCHANGED pay /\ faults' = faults
    BY <2>1 DEF Only
  <2>2. ASSUME BeginFails \/ ListRefused
        PROVE  Outside /\ UNCHANGED pay /\ faults' = faults + 1 /\ faults < MaxFaults
    BY <2>2 DEF BeginFails, ListRefused, Fault
  <2>3. ASSUME Prove \/ Identify \/ FillAmount \/ Poll \/ Begin \/ Retry
        PROVE  \E v : Only(v)
    BY <2>3 DEF Prove, Identify, FillAmount, Poll, Begin, Retry
  <2>4. ASSUME Look \/ Resume
        PROVE  \E v : Only(v)
    BY <2>4 DEF Look, Resume
  <2> QED
    BY <1>1, <2>1, <2>2, <2>3, <2>4
<1>4. CASE Prove \/ Begin \/ Retry
  <2>1. \/ \E at \in {"looking", "proving", "closed"} : page' = To(at)
        \/ page' = [page EXCEPT !.at = "looking", !.token = TRUE]
    BY <1>4 DEF Prove, Begin, Retry, Only
  <2>2. page' \in Page /\ page'.at \in {"looking", "proving", "closed"}
    <3>1. ASSUME NEW at \in {"looking", "proving", "closed"}, page' = To(at)
          PROVE  page' \in Page /\ page'.at = at
      BY <1>1, <3>1, Names, Cards
    <3>2. CASE page' = [page EXCEPT !.at = "looking", !.token = TRUE]
      BY <1>1, <3>2, Names DEF Page
    <3> QED
      BY <2>1, <3>1, <3>2
  <2> QED
    BY <1>3, <2>2, CardStep DEF Shows, Looked
<1>5. CASE Look
  <2>1. CASE Open = {} /\ page' = NoneOpen(FALSE)
    <3>1. page' \in Page /\ page'.at \in Looked
      BY <1>1, <2>1, OpensNext
    <3> QED
      BY <1>3, <2>1, <3>1, CardStep DEF Shows, Looked
  <2>2. ASSUME NEW i \in Open, page' = [Told(i) EXCEPT !.at = "amounting"]
        PROVE  CashOutInv'
    <3>1. Told(i) \in Page /\ Told(i).id = i
      BY <1>1, <1>2, ToldShape
    <3>2. page' \in Page /\ page'.id = i /\ page'.at = "amounting"
      BY <2>2, <3>1, Names DEF Page
    <3> QED
      BY <1>2, <1>3, <3>2, CardStep DEF Shows, Looked
  <2> QED
    BY <1>5, <2>1, <2>2 DEF Look, Only
<1>6. CASE Identify \/ BeginFails
  <2>1. \/ page' = Refuse
        \/ page.at = "identifying" /\ page' = To("opening")
    BY <1>6 DEF Identify, BeginFails, Only
  <2>2. CASE page' = Refuse
    <3>1. page' \in Page /\ page'.at = "failed"
      BY <1>1, <2>2, Names, Cards
    <3> QED
      BY <1>3, <3>1, CardStep DEF Shows, Looked
  <2>3. CASE page.at = "identifying" /\ page' = To("opening")
    <3>1. page' \in Page /\ page'.at = "opening" /\ page'.blind = page.blind
      BY <1>1, <2>3, Names, Cards
    <3> QED
      BY <1>1, <1>3, <2>3, <3>1, CardStep DEF LookedFirst, Shows, Looked
  <2> QED
    BY <2>1, <2>2, <2>3
<1>7. CASE FillAmount
  <2>1. /\ page.at = "amounting"
        /\ \/ page' = To("running") \/ page' = Refuse
           \/ held # 0 /\ page' = [page EXCEPT !.at = "running", !.amountIn = held]
    BY <1>7 DEF FillAmount, Only
  <2>2. held # 0 => held \in Amounts
    BY <1>1 DEF Amount, Amounts
  <2>3. page' \in Page /\ (page'.at = "failed" \/ (page'.at = "running" /\ page'.id = page.id))
    <3>1. CASE page' = To("running") \/ page' = Refuse
      <4>1. /\ To("running") \in Page /\ To("running").at = "running"
            /\ To("running").id = page.id /\ Refuse \in Page /\ Refuse.at = "failed"
        BY <1>1, Names, Cards
      <4> QED
        BY <3>1, <4>1
    <3>2. CASE held # 0 /\ page' = [page EXCEPT !.at = "running", !.amountIn = held]
      BY <1>1, <2>2, <3>2, Names DEF Page
    <3> QED
      BY <2>1, <3>1, <3>2
  <2> QED
    BY <1>1, <1>3, <2>1, <2>3, CardStep DEF Placed, Shows, Looked
<1>8. CASE Poll
  <2>1. page.at = "running" /\ page' = Told(page.id)
    BY <1>8 DEF Poll, Only, Showing
  <2>2. page.id \in DOMAIN transfers
    BY <1>1, <2>1 DEF Placed, Shows
  <2>3. page' \in Page /\ page'.id = page.id /\ page'.at = "running"
    BY <1>1, <2>1, <2>2, ToldShape
  <2> QED
    BY <1>3, <2>2, <2>3, CardStep DEF Shows, Looked
<1>9. ASSUME page.lists > 0, page' = [page EXCEPT !.lists = page.lists - 1]
      PROVE  CashOutInv'
  <2>1. page' \in Page /\ page'.at = page.at /\ page'.id = page.id /\ page'.blind = page.blind
    <3>1. page.lists - 1 \in Nat
      BY <1>1, <1>9 DEF Page
    <3> QED
      BY <1>1, <1>9, <3>1 DEF Page
  <2> QED
    BY <1>1, <1>3, <2>1, CardStep DEF Placed, LookedFirst
<1>10. CASE Resume
  <2>1. page.lists > 0
    BY <1>10 DEF Resume
  <2>2. ASSUME NEW i \in Open,
               page' = [Told(i) EXCEPT !.at = "running", !.lists = page.lists - 1]
        PROVE  CashOutInv'
    <3>1. Told(i) \in Page /\ Told(i).id = i /\ page.lists - 1 \in Nat
      BY <1>1, <1>2, <2>1, ToldShape DEF Page
    <3>2. page' \in Page /\ page'.id = i /\ page'.at = "running"
      BY <2>2, <3>1, Names DEF Page
    <3> QED
      BY <1>2, <1>3, <3>2, CardStep DEF Shows, Looked
  <2> QED
    BY <1>9, <1>10, <2>2 DEF Resume, Only
<1>11. CASE ListRefused
  <2>1. CASE page.at = "looking" /\ page' = NoneOpen(TRUE)
    <3>1. page' \in Page /\ page'.blind /\ page'.at \in Looked
      BY <1>1, <2>1, OpensNext
    <3> QED
      BY <1>3, <3>1, CardStep DEF Shows, Looked
  <2>2. CASE page.at = "identifying" /\ page' = To("opening")
    <3>1. page' \in Page /\ page'.at = "opening" /\ page'.blind = page.blind
      BY <1>1, <2>2, Names, Cards
    <3> QED
      BY <1>1, <1>3, <2>2, <3>1, CardStep DEF LookedFirst, Shows, Looked
  <2> QED
    BY <1>9, <1>11, <2>1, <2>2 DEF ListRefused
<1> QED
  BY <1>4, <1>5, <1>6, <1>7, <1>8, <1>10, <1>11

(* What a payment does, but for being signed.                               *)
LEMMA PayMoves ==
    ASSUME CashOutInv,
           Send \/ Weigh \/ Build \/ Learn \/ Reload \/ SendFails \/ Decline \/ CloseTab
    PROVE  CashOutInv'
<1>1. /\ page \in Page /\ pay \in Paying /\ held \in 0..MaxHeld /\ MaxHeld \in Nat
      /\ sequence \in 0..MaxPayments /\ faults \in 0..MaxFaults /\ MaxFaults \in Nat
      /\ Placed /\ Weighed
  BY Rows DEF CashOutInv
<1>2. /\ Fresh \in Page /\ Fresh.at = "closed"
      /\ Without("failed") \in Page /\ Without("failed").at = "failed"
      /\ Back \in Page /\ Back.at = "running" /\ Back.id = pay.id
  BY <1>1, Names, Cards
<1>3. CASE Send
  <2>1. /\ page.at = "running" /\ Outside /\ UNCHANGED faults /\ page' = To("sending")
        /\ pay' = [Idle EXCEPT !.at = "weighing", !.id = page.id, !.amountIn = page.amountIn]
    BY <1>3 DEF Send, Showing
  <2>2. page' \in Page /\ page'.at = "sending" /\ page'.id = page.id
    BY <1>1, <2>1, Names, Cards
  <2>3. pay' \in Paying /\ pay'.at = "weighing" /\ pay'.id = page.id
    <3>1. Idle \in Paying
      BY <1>1, Names, Cards
    <3> QED
      BY <1>1, <2>1, <3>1, Names DEF Page, Paying
  <2>4. Placed' /\ Weighed' /\ LookedFirst'
    BY <1>1, <2>1, <2>2, <2>3 DEF Outside, Placed, Weighed, LookedFirst, Shows, Looked
  <2> QED
    BY <1>1, <2>1, <2>2, <2>3, <2>4, TabStep
<1>4. CASE Weigh
  <2>1. CASE Ends(Without("failed")) /\ UNCHANGED faults
    BY <1>1, <1>2, <2>1, EndStep
  <2>2. CASE held # 0 /\ Pays([pay EXCEPT !.at = "building", !.now = held])
    <3>1. pay.at \in Sending /\ Outside /\ UNCHANGED <<page, faults>>
      BY <1>4, <2>2, Names DEF Weigh, Pays
    <3>2. pay' \in Paying /\ pay'.id = pay.id /\ pay'.now = held
      BY <1>1, <2>2, Names DEF Pays, Paying
    <3>3. held > 0
      BY <1>1, <2>2
    <3> QED
      BY <3>1, <3>2, <3>3, PayStep
  <2> QED
    BY <1>4, <2>1, <2>2 DEF Weigh
<1>5. CASE Build
  <2>1. /\ pay.at = "building" /\ Outside /\ UNCHANGED <<page, faults>>
        /\ pay' = [pay EXCEPT !.at = "signing", !.sequence = sequence]
    BY <1>5 DEF Build, Pays
  <2>2. pay' \in Paying /\ pay'.id = pay.id /\ pay'.now = pay.now
    BY <1>1, <2>1, Names DEF Paying
  <2> QED
    BY <1>1, <2>1, <2>2, Names, PayStep DEF Weighed
<1>6. CASE Learn
  <2>1. pay.id \in DOMAIN transfers /\ UNCHANGED faults
    BY <1>1, <1>6, Names DEF Learn, Placed
  <2>2. CASE Ends(Without("failed"))
    BY <1>1, <1>2, <2>1, <2>2, EndStep
  <2>3. CASE Ends([Back EXCEPT !.lists = page.lists + 1])
    <3> DEFINE card == [Back EXCEPT !.lists = page.lists + 1]
    <3>1. page.lists + 1 \in Nat
      BY <1>1 DEF Page
    <3>2. card \in Page /\ card.at = "running" /\ card.id = pay.id
      BY <1>2, <3>1 DEF Page
    <3> HIDE DEF card
    <3>3. Ends(card)
      BY <2>3 DEF card
    <3> QED
      BY <1>1, <2>1, <3>2, <3>3, EndStep
  <2> QED
    BY <1>6, <2>2, <2>3 DEF Learn
<1>7. CASE Reload \/ CloseTab
  BY <1>1, <1>2, <1>7, EndStep DEF Reload, CloseTab, Fault
<1>8. CASE SendFails
  BY <1>1, <1>2, <1>8, EndStep DEF SendFails, Fault
<1>9. CASE Decline
  <2>1. pay.id \in DOMAIN transfers /\ faults' \in 0..MaxFaults /\ Ends(Back)
    BY <1>1, <1>9, Names DEF Decline, Placed, Fault
  <2> QED
    BY <1>2, <2>1, EndStep
<1> QED
  BY <1>3, <1>4, <1>5, <1>6, <1>7, <1>8, <1>9

-----------------------------------------------------------------------------
(* The anchor. *)

(* A withdrawal that is opened after the list was read is the only one that *)
(* is open: nobody but this card opens one, and it stopped at the list.     *)
LEMMA OpeningStep ==
    ASSUME CashOutInv, OpenTransfer
    PROVE  CashOutInv'
<1> DEFINE status == IF hosted THEN "incomplete" ELSE Waits
           row    == [status |-> status, amount |-> Unnamed, blind |-> page.blind]
           N      == Len(transfers)
<1>1. /\ page \in Page /\ pay \in Paying
      /\ transfers \in Seq(Transfer) /\ payments \in Seq(Payment)
      /\ hosted \in Anchors /\ asset \in Assets /\ asks \in BOOLEAN
      /\ held \in 0..MaxHeld /\ won \in 0..MaxHeld
      /\ sequence \in 0..MaxPayments /\ faults \in 0..MaxFaults
      /\ Bounded /\ LookedFirst /\ OneOpenTransfer /\ Placed /\ Weighed
  BY Rows DEF CashOutInv
<1>2. /\ page.at = "opening" /\ N < MaxTransfers
      /\ transfers' = Append(transfers, row)
      /\ page' = [page EXCEPT !.at = "amounting", !.id = N + 1, !.status = status,
                              !.amountIn = IF hosted THEN Unnamed ELSE TheAddress,
                              !.blind = FALSE]
      /\ UNCHANGED <<hosted, asset, asks, ledger, payments, pay, faults>>
  BY DEF OpenTransfer, terms
<1>3. row \in Transfer /\ row.blind = page.blind
  BY <1>1 DEF Transfer, Page
<1>4. page' \in Page /\ page'.id = N + 1 /\ page'.at = "amounting"
  <2> DEFINE asked == IF hosted THEN Unnamed ELSE TheAddress
  <2>1. status \in Statuses /\ asked \in Amounts /\ N + 1 \in 0..MaxTransfers
    BY <1>1, <1>2, Names
  <2>2. page' = [page EXCEPT !.at = "amounting", !.id = N + 1, !.status = status,
                             !.amountIn = asked, !.blind = FALSE]
    BY <1>2
  <2> HIDE DEF asked, status, N
  <2> QED
    BY <1>1, <2>1, <2>2, Names DEF Page
<1> HIDE DEF row
<1>5. /\ transfers' \in Seq(Transfer) /\ Len(transfers') = N + 1 /\ N \in Nat
      /\ DOMAIN transfers' = 1..N + 1 /\ DOMAIN transfers = 1..N
      /\ \A i \in 1..N : transfers'[i] = transfers[i]
      /\ transfers'[N + 1] = row
  BY <1>1, <1>2, <1>3
<1>6. CashOutTypeOK'
  BY <1>1, <1>2, <1>4, <1>5 DEF CashOutTypeOK, Transfer, Payment, Page, Paying, Places, Statuses, Amounts, ledger
<1>7. Bounded'
  BY <1>1, <1>2, <1>5 DEF Bounded, Applied, ledger
<1>8. Placed' /\ Weighed' /\ LookedFirst'
  BY <1>1, <1>2, <1>4, <1>5 DEF Placed, Weighed, LookedFirst, Shows, Looked
<1>9. OneOpenTransfer'
  <2> SUFFICES ASSUME NEW i \in Open', NEW j \in Open', i < j
               PROVE  transfers'[j].blind
    BY DEF OneOpenTransfer
  <2>1. i \in 1..N /\ i \in Open
    BY <1>5 DEF Open
  <2>2. CASE j \in 1..N
    <3>1. j \in Open /\ transfers'[j] = transfers[j]
      BY <1>5, <2>2 DEF Open
    <3> QED
      BY <1>1, <2>1, <3>1 DEF OneOpenTransfer
  <2>3. CASE j = N + 1
    <3>1. page.blind
      BY <1>1, <1>2, <2>1 DEF LookedFirst, Looked
    <3> QED
      BY <1>3, <1>5, <2>3, <3>1
  <2> QED
    BY <1>5, <2>2, <2>3 DEF Open
<1> QED
  BY <1>6, <1>7, <1>8, <1>9 DEF CashOutInv

(* The anchor moves a withdrawal on.  One that has settled stays settled.   *)
LEMMA AnchorStep ==
    ASSUME CashOutInv, NEW i \in DOMAIN transfers, NEW row \in Transfer,
           transfers' = [transfers EXCEPT ![i] = row],
           ~ Settled(transfers[i].status), row.blind = transfers[i].blind,
           UNCHANGED <<terms, ledger, payments, tab>>, faults' \in 0..MaxFaults
    PROVE  CashOutInv'
<1>1. /\ page \in Page /\ pay \in Paying
      /\ transfers \in Seq(Transfer) /\ payments \in Seq(Payment)
      /\ hosted \in Anchors /\ asset \in Assets /\ asks \in BOOLEAN
      /\ held \in 0..MaxHeld /\ won \in 0..MaxHeld
      /\ sequence \in 0..MaxPayments
      /\ Bounded /\ LookedFirst /\ OneOpenTransfer /\ Placed /\ Weighed
  BY Rows DEF CashOutInv
<1>2. /\ transfers' \in Seq(Transfer) /\ Len(transfers') = Len(transfers)
      /\ DOMAIN transfers' = DOMAIN transfers
      /\ transfers'[i] = row
      /\ \A j \in DOMAIN transfers : j # i => transfers'[j] = transfers[j]
  BY <1>1
<1>3. Open' \subseteq Open /\ i \in Open
  BY <1>2 DEF Open
<1>4. CashOutTypeOK'
  BY <1>1, <1>2 DEF CashOutTypeOK, Transfer, Payment, Page, Paying, Places, Statuses, Amounts,
                    terms, ledger, tab
<1>5. Bounded'
  BY <1>1, <1>2 DEF Bounded, Applied, ledger
<1>6. Placed' /\ Weighed' /\ LookedFirst'
  BY <1>1, <1>2, <1>3 DEF Placed, Weighed, LookedFirst, tab
<1>7. \A j \in Open : transfers'[j].blind = transfers[j].blind
  BY <1>2 DEF Open
<1>8. OneOpenTransfer'
  BY <1>1, <1>3, <1>7 DEF OneOpenTransfer
<1> QED
  BY <1>4, <1>5, <1>6, <1>8 DEF CashOutInv

LEMMA AnchorMoves ==
    ASSUME CashOutInv, NEW i \in DOMAIN transfers,
           Ready(i) \/ Accept(i) \/ PayOut(i) \/ Expire(i)
    PROVE  CashOutInv'
<1>1. transfers \in Seq(Transfer) /\ faults \in 0..MaxFaults
  BY Rows DEF CashOutInv
<1>2. transfers[i] \in Transfer
  BY <1>1
<1>3. ASSUME NEW status \in {Waits, "pending_anchor", "completed", "expired"},
             NEW amount \in Amount \cup {Unnamed}
      PROVE  /\ [transfers[i] EXCEPT !.status = status, !.amount = amount] \in Transfer
             /\ [transfers[i] EXCEPT !.status = status] \in Transfer
             /\ [transfers[i] EXCEPT !.status = status, !.amount = amount].blind
                  = transfers[i].blind
             /\ [transfers[i] EXCEPT !.status = status].blind = transfers[i].blind
  BY <1>2 DEF Transfer
<1>4. CASE Ready(i)
  <2>1. PICK amount \in Amount \cup {Unnamed} :
           transfers' = [transfers EXCEPT ![i] =
                           [transfers[i] EXCEPT !.status = Waits, !.amount = amount]]
    BY <1>4 DEF Ready
  <2>2. /\ ~ Settled(transfers[i].status)
        /\ UNCHANGED <<terms, ledger, payments, tab>> /\ faults' \in 0..MaxFaults
    BY <1>1, <1>4 DEF Ready, Settled
  <2> DEFINE row == [transfers[i] EXCEPT !.status = Waits, !.amount = amount]
  <2>3. row \in Transfer /\ row.blind = transfers[i].blind
    BY <1>3
  <2> HIDE DEF row
  <2> QED
    BY <2>1, <2>2, <2>3, AnchorStep DEF row
<1>5. CASE Accept(i) \/ PayOut(i) \/ Expire(i)
  <2>1. PICK status \in {"pending_anchor", "completed", "expired"} :
           transfers' = [transfers EXCEPT ![i] = [transfers[i] EXCEPT !.status = status]]
    BY <1>5 DEF Accept, PayOut, Expire, Becomes
  <2>2. /\ ~ Settled(transfers[i].status)
        /\ UNCHANGED <<terms, ledger, payments, tab>> /\ faults' \in 0..MaxFaults
    BY <1>1, <1>5 DEF Accept, PayOut, Expire, Becomes, Settled, Fault, Waits
  <2> DEFINE row == [transfers[i] EXCEPT !.status = status]
  <2>3. row \in Transfer /\ row.blind = transfers[i].blind
    BY <1>3
  <2> HIDE DEF row
  <2> QED
    BY <2>1, <2>2, <2>3, AnchorStep DEF row
<1> QED
  BY <1>4, <1>5

-----------------------------------------------------------------------------
(* The network. *)

(* What changes the wallet or the payments, and leaves the withdrawals      *)
(* alone.                                                                   *)
LEMMA LedgerStep ==
    ASSUME CashOutInv, UNCHANGED <<terms, transfers, page, faults>>,
           held' \in 0..MaxHeld, won' \in 0..MaxHeld, sequence' \in 0..MaxPayments,
           payments' \in Seq(Payment), pay' \in Paying, pay'.id = pay.id,
           pay'.at \in Sending => pay.at \in Sending,
           Bounded', Weighed'
    PROVE  CashOutInv'
<1>1. /\ hosted \in Anchors /\ asset \in Assets /\ asks \in BOOLEAN
      /\ transfers \in Seq(Transfer) /\ faults \in 0..MaxFaults /\ page \in Page
  BY Rows DEF CashOutInv
<1>2. CashOutTypeOK' /\ Placed' /\ LookedFirst'
  <2>1. CashOutTypeOK'
    BY <1>1 DEF CashOutTypeOK, Payment, Transfer, Page, Paying, Places, Statuses, Amounts, terms
  <2>2. Placed' /\ LookedFirst'
    BY DEF CashOutInv, Placed, LookedFirst, Open
  <2> QED
    BY <2>1, <2>2
<1>3. OneOpenTransfer'
  BY DEF CashOutInv, OneOpenTransfer, Open
<1> QED
  BY <1>2, <1>3 DEF CashOutInv

(* A prize is paid to the wallet, or the winner moves some of it.           *)
LEMMA WalletMoves ==
    ASSUME CashOutInv, Win \/ Spend
    PROVE  CashOutInv'
<1>1. /\ held \in 0..MaxHeld /\ won \in 0..MaxHeld /\ sequence \in 0..MaxPayments
      /\ payments \in Seq(Payment) /\ pay \in Paying /\ MaxHeld \in Nat
      /\ Bounded /\ Weighed
  BY Rows DEF CashOutInv
<1>2. /\ UNCHANGED <<terms, transfers, page, faults>> /\ UNCHANGED <<sequence, payments, pay>>
      /\ \/ won < MaxHeld /\ won' = won + 1 /\ held' = held + 1
         \/ held > Kept /\ won' = won /\ held' = held - 1
  BY DEF Win, Spend, tab
<1>3. held' \in 0..MaxHeld /\ won' \in 0..MaxHeld /\ held' <= won'
  BY <1>1, <1>2 DEF Bounded, Kept
<1>4. Bounded' /\ Weighed'
  BY <1>1, <1>2, <1>3 DEF Bounded, Applied, Weighed
<1> QED
  BY <1>1, <1>2, <1>3, <1>4, LedgerStep

(* A payment is signed for the withdrawal the card shows.                   *)
LEMMA SignStep ==
    ASSUME CashOutInv, Sign
    PROVE  CashOutInv'
<1> DEFINE row == [transfer |-> pay.id, amount |-> pay.now,
                   sequence |-> pay.sequence, status |-> "pending"]
           N == Len(payments)
<1>1. /\ held \in 0..MaxHeld /\ won \in 0..MaxHeld /\ sequence \in 0..MaxPayments
      /\ payments \in Seq(Payment) /\ pay \in Paying /\ transfers \in Seq(Transfer)
      /\ {MaxHeld, MaxTransfers, MaxPayments} \subseteq Nat
      /\ Bounded /\ Placed /\ Weighed
  BY Rows DEF CashOutInv
<1>2. /\ pay.at = "signing" /\ N < MaxPayments
      /\ payments' = Append(payments, row)
      /\ pay' = [pay EXCEPT !.at = "polling", !.now = 0, !.sequence = 0]
      /\ UNCHANGED <<terms, held, won, sequence, transfers, page, faults>>
  BY DEF Sign, ledger
<1>3. pay.id \in 1..MaxTransfers /\ pay.now \in Amount
  BY <1>1, <1>2 DEF Placed, Weighed, Bounded, Sending, Paying, Amount
<1>4. row \in Payment /\ row.status = "pending"
  BY <1>1, <1>3 DEF Payment, Paying
<1>5. pay' \in Paying /\ pay'.at = "polling" /\ pay'.id = pay.id
  <2>1. 0 \in 0..MaxHeld /\ 0 \in 0..MaxPayments
    BY <1>1
  <2>2. pay' = [pay EXCEPT !.at = "polling", !.now = 0, !.sequence = 0]
    BY <1>2
  <2> QED
    BY <1>1, <2>1, <2>2, Names DEF Paying
<1> HIDE DEF row
<1>6. /\ payments' \in Seq(Payment) /\ Len(payments') = N + 1 /\ N \in Nat
      /\ DOMAIN payments' = 1..N + 1 /\ DOMAIN payments = 1..N
      /\ \A p \in 1..N : payments'[p] = payments[p]
      /\ payments'[N + 1] = row
  BY <1>1, <1>2, <1>4
<1>7. Applied' = Applied
  BY <1>4, <1>6 DEF Applied
<1>8. Bounded'
  BY <1>1, <1>2, <1>6, <1>7 DEF Bounded
<1>9. Weighed' /\ pay.at \in Sending
  BY <1>2, <1>5, Names DEF Weighed
<1> QED
  BY <1>1, <1>2, <1>5, <1>6, <1>8, <1>9, LedgerStep

(* A payment is applied, for the next number of the account, or forgotten.  *)
LEMMA NetworkMoves ==
    ASSUME CashOutInv, NEW p \in DOMAIN payments, Land(p) \/ Drop(p)
    PROVE  CashOutInv'
<1>1. /\ held \in 0..MaxHeld /\ won \in 0..MaxHeld /\ sequence \in 0..MaxPayments
      /\ payments \in Seq(Payment) /\ pay \in Paying
      /\ {MaxHeld, MaxTransfers, MaxPayments} \subseteq Nat
      /\ Bounded /\ Weighed
  BY Rows DEF CashOutInv
<1>2. payments[p] \in Payment /\ payments[p].amount \in Nat
  <2>1. payments[p] \in Payment
    BY <1>1
  <2>2. payments[p].amount \in 1..MaxHeld
    BY <2>1 DEF Payment, Amount
  <2> QED
    BY <1>1, <2>1, <2>2
<1>3. ASSUME NEW status \in {"landed", "failed", "dropped"}
      PROVE  /\ [payments[p] EXCEPT !.status = status] \in Payment
             /\ [payments[p] EXCEPT !.status = status].status = status
  BY <1>2 DEF Payment
<1>4. PICK status \in {"landed", "failed", "dropped"} :
         /\ payments[p].status = "pending"
         /\ payments' = [payments EXCEPT ![p] = [payments[p] EXCEPT !.status = status]]
         /\ status \in {"landed", "failed"} => sequence' = sequence + 1
         /\ status = "dropped" => sequence' = sequence
         /\ \/ held' = held
            \/ payments[p].amount <= held /\ held' = held - payments[p].amount
         /\ UNCHANGED <<terms, won, transfers, page, pay, faults>>
  <2>1. payments[p].amount + Kept <= held => payments[p].amount <= held
    BY <1>1, <1>2 DEF Kept
  <2> QED
    BY <2>1 DEF Land, Drop, ledger, tab
<1> DEFINE row == [payments[p] EXCEPT !.status = status]
<1>5. row \in Payment /\ row.status = status
  BY <1>3
<1>6. payments' = [payments EXCEPT ![p] = row]
  BY <1>4
<1> HIDE DEF row
<1>7. /\ payments' \in Seq(Payment) /\ Len(payments') = Len(payments)
      /\ DOMAIN payments' = DOMAIN payments /\ DOMAIN payments = 1..Len(payments)
      /\ Len(payments) \in Nat
      /\ payments'[p] = row
      /\ \A q \in DOMAIN payments : q # p => payments'[q] = payments[q]
  BY <1>1, <1>5, <1>6
<1>8. held' \in 0..MaxHeld /\ held' <= won'
  BY <1>1, <1>2, <1>4 DEF Bounded
<1>9. p \notin Applied /\ IsFiniteSet(Applied) /\ IsFiniteSet(1..Len(payments))
      /\ Cardinality(1..Len(payments)) = Len(payments)
  <2>1. IsFiniteSet(1..Len(payments)) /\ Cardinality(1..Len(payments)) = Len(payments)
    <3> DEFINE N == Len(payments)
    <3>1. N \in Nat
      BY <1>7
    <3> HIDE DEF N
    <3>2. IsFiniteSet(1..N)
      BY <3>1, FS_Interval
    <3>3. Cardinality(1..N) = N
      <4>1. Cardinality(1..N) = IF 1 > N THEN 0 ELSE N - 1 + 1
        BY ONLY <3>1, FS_Interval
      <4> QED
        BY <3>1, <4>1
    <3> QED
      BY <3>2, <3>3 DEF N
  <2>2. Applied \subseteq 1..Len(payments) /\ p \notin Applied
    BY <1>4, <1>7 DEF Applied
  <2> QED
    BY <2>1, <2>2, FS_Subset
<1>10. sequence' = Cardinality(Applied')
  <2>1. CASE status = "dropped"
    <3>1. Applied' = Applied
      BY <1>4, <1>5, <1>7, <2>1 DEF Applied
    <3> QED
      BY <1>1, <1>4, <2>1, <3>1 DEF Bounded
  <2>2. CASE status \in {"landed", "failed"}
    <3>1. Applied' = Applied \cup {p}
      BY <1>4, <1>5, <1>7, <2>2 DEF Applied
    <3>2. Cardinality(Applied \cup {p}) = Cardinality(Applied) + 1
      BY <1>9, FS_AddElement
    <3> QED
      BY <1>1, <1>4, <2>2, <3>1, <3>2 DEF Bounded
  <2> QED
    BY <2>1, <2>2
<1>11. sequence' \in 0..MaxPayments
  <2>1. Applied' \subseteq 1..Len(payments)
    BY <1>7 DEF Applied
  <2>2. IsFiniteSet(Applied') /\ Cardinality(Applied') <= Len(payments)
    BY <1>9, <2>1, FS_Subset
  <2>3. Cardinality(Applied') \in Nat
    BY <2>2, FS_CardinalityType
  <2> QED
    BY <1>1, <1>7, <1>10, <2>2, <2>3 DEF Bounded
<1>12. Bounded'
  BY <1>1, <1>4, <1>7, <1>8, <1>10 DEF Bounded
<1>13. Weighed'
  BY <1>1, <1>4 DEF Weighed
<1> QED
  BY <1>1, <1>4, <1>7, <1>8, <1>11, <1>12, <1>13, LedgerStep

-----------------------------------------------------------------------------

(* The anchor wants more of a person than it did, or less.                  *)
LEMMA ReconsiderStep ==
    ASSUME CashOutInv, Reconsider
    PROVE  CashOutInv'
<1>1. /\ asks' \in BOOLEAN
      /\ UNCHANGED <<hosted, asset, held, won, sequence, payments, transfers, page, pay, faults>>
  BY DEF Reconsider, ledger, tab, CashOutInv, CashOutTypeOK
<1> QED
  BY <1>1 DEF CashOutInv, CashOutTypeOK, Bounded, Applied, Placed, Weighed,
              LookedFirst, OneOpenTransfer, Open

LEMMA StepInv == CashOutInv /\ [CashOutNext]_vars => CashOutInv'
<1> SUFFICES ASSUME CashOutInv, [CashOutNext]_vars
             PROVE  CashOutInv'
  OBVIOUS
<1>1. CASE UNCHANGED vars
  BY <1>1 DEF vars, terms, ledger, tab, CashOutInv, CashOutTypeOK, Bounded, Applied, Placed, Weighed,
              LookedFirst, OneOpenTransfer, Open
<1>2. CASE Card
  BY <1>2, CardMoves, PayMoves, OpeningStep, SignStep DEF Card
<1>3. CASE Person
  BY <1>3, CardMoves, PayMoves DEF Person
<1>4. CASE Network
  BY <1>4, NetworkMoves DEF Network
<1>5. CASE Anchor
  BY <1>5, AnchorMoves DEF Anchor
<1>6. CASE Reconsider \/ Win \/ Spend
  BY <1>6, ReconsiderStep, WalletMoves
<1>7. CASE Wrong
  BY <1>7, CardMoves, PayMoves, AnchorMoves DEF Wrong
<1> QED
  BY <1>1, <1>2, <1>3, <1>4, <1>5, <1>6, <1>7 DEF CashOutNext

(* Every reachable state of the card, the wallet and the anchor satisfies   *)
(* the invariant.                                                           *)
THEOREM CashOutInvariance == CashOutSpec => []CashOutInv
<1>1. CashOutInit => CashOutInv
  BY InvInit
<1>2. CashOutInv /\ [CashOutNext]_vars => CashOutInv'
  BY StepInv
<1> QED
  BY <1>1, <1>2, PTL DEF CashOutSpec

(* The card, the account and the anchor always have their types: no payment *)
(* is signed for nothing, or for a withdrawal the anchor does not have.     *)
THEOREM CashOutTypeCorrect == CashOutSpec => []CashOutTypeOK
<1>1. CashOutInv => CashOutTypeOK
  BY DEF CashOutInv
<1> QED
  BY <1>1, CashOutInvariance, PTL

(* Whatever fails and whenever the tab is closed, no withdrawal is opened   *)
(* beside one that is open, unless the anchor refused to list them.         *)
THEOREM OpenedOnce == CashOutSpec => []OneOpenTransfer
<1>1. CashOutInv => OneOpenTransfer
  BY DEF CashOutInv
<1> QED
  BY <1>1, CashOutInvariance, PTL

=============================================================================
