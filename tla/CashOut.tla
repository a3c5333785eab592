------------------------------ MODULE CashOut ------------------------------
(***************************************************************************)
(* Turning a paid prize into money: the card of a winner                   *)
(* (frontend/app/hackathons/[slug]/cash-out.tsx) and the client under it   *)
(* (frontend/lib/anchor.ts), between an anchor that pays out and a network *)
(* that carries the payment, each in its own time.                         *)
(*                                                                         *)
(* One wallet and one tab.  A call of the anchor's is answered or lost     *)
(* before the tab that made it closes.  What the anchor says of where and  *)
(* with which memo it is to be paid is well formed, or refused as a fault. *)
(* A begin or a payment that goes on unseen behind the card ends before    *)
(* another is pressed.                                                     *)
(***************************************************************************)
EXTENDS Integers, Sequences

CONSTANTS
    Anchors,        \* the kinds of anchor: whether it speaks SEP-24, or SEP-6
    Assets,         \* what prizes are paid in: "issued", or "native"
    TheAddress,     \* the wallet's address, where an amount is expected
    Unnamed,        \* no amount
    MaxHeld,        \* bound: what the wallet is ever paid
    MaxTransfers,   \* bound: the withdrawals opened
    MaxPayments,    \* bound: the payments signed
    MaxFaults       \* bound: calls that fail, tabs that close, declined signatures

ASSUME CashOutAssumption ==
    /\ Anchors \subseteq BOOLEAN /\ Assets \subseteq {"issued", "native"}
    /\ {MaxHeld, MaxTransfers, MaxPayments, MaxFaults} \subseteq Nat
    /\ "native" \in Assets => MaxHeld > 0

VARIABLES
    hosted,     \* what the anchor's stellar.toml says it speaks (discover)
    asset,      \* what the prize is paid in
    asks,       \* whether the anchor wants more of a person than a page can ask
    held,       \* the prize asset in the wallet
    won,        \* what it was paid until now
    sequence,   \* the sequence number of the wallet's account
    payments,   \* the payments signed, oldest first
    transfers,  \* the withdrawals the anchor has, oldest first
    page,       \* the card, and the answers of begin and resume it awaits
    pay,        \* the payment being made, whatever the card shows meanwhile
    faults      \* what went wrong until now

terms  == <<hosted, asset, asks>>
ledger == <<held, won, sequence>>
tab    == <<page, pay>>
vars   == <<terms, ledger, payments, transfers, tab, faults>>

-----------------------------------------------------------------------------

Amount == 1..MaxHeld
Waits  == "pending_user_transfer_start"

(* settled; "expired" stands for the ends without a payout *)
Settled(status) == status \in {"completed", "expired"}

Open == {i \in DOMAIN transfers : ~ Settled(transfers[i].status)}

\* Where begin and send are, each up to the answer it awaits.
Beginning == {"proving", "looking", "identifying", "opening", "amounting"}
Sending   == {"weighing", "building", "signing", "polling"}

\* What an account of the network may not pay out: its reserve, and the fee.
Kept == IF asset = "native" THEN 1 ELSE 0

Fresh == [at |-> "closed", token |-> FALSE, id |-> 0, status |-> "none",
          amountIn |-> Unnamed, blind |-> FALSE, lists |-> 0]
Idle  == [at |-> "idle", id |-> 0, amountIn |-> Unnamed, now |-> 0, sequence |-> 0]

CashOutTypeOK ==
    /\ hosted \in Anchors /\ asset \in Assets /\ asks \in BOOLEAN
    /\ held \in 0..MaxHeld /\ won \in 0..MaxHeld
    /\ sequence \in 0..MaxPayments
    /\ payments \in Seq([transfer : 1..MaxTransfers, amount : Amount, sequence : 0..MaxPayments,
                         status : {"pending", "landed", "failed", "dropped"}])
    /\ transfers \in Seq([status : {"incomplete", Waits, "pending_anchor", "completed", "expired"},
                          amount : Amount \cup {Unnamed}, blind : BOOLEAN])
    /\ page \in [at : {"closed", "running", "sending", "failed"} \cup Beginning,
                 token : BOOLEAN, id : 0..MaxTransfers,
                 status : {"none", "incomplete", Waits, "pending_anchor", "completed", "expired"},
                 amountIn : Amount \cup {Unnamed, TheAddress}, blind : BOOLEAN, lists : Nat]
    /\ pay \in [at : {"idle"} \cup Sending, id : 0..MaxTransfers,
                amountIn : Amount \cup {Unnamed, TheAddress}, now : 0..MaxHeld,
                sequence : 0..MaxPayments]
    /\ faults \in 0..MaxFaults

CashOutInit ==
    /\ hosted \in Anchors /\ asset \in Assets
    /\ asks \in BOOLEAN /\ (hosted => ~ asks)
    /\ held = Kept /\ won = Kept /\ sequence = 0
    /\ payments = <<>> /\ transfers = <<>>
    /\ page = Fresh /\ pay = Idle
    /\ faults = 0

To(at) == [page EXCEPT !.at = at]

\* The transfer as the anchor tells it (shape).
Told(i) == [page EXCEPT !.id = i, !.status = transfers[i].status, !.amountIn = transfers[i].amount]

\* A card that shows no transfer.
Without(at) == [Fresh EXCEPT !.at = at, !.token = page.token, !.lists = page.lists]
Refuse      == [Without("failed") EXCEPT !.token = FALSE]

\* The card shows again the transfer that was being paid.
Back == [page EXCEPT !.at = "running", !.id = pay.id, !.status = Waits, !.amountIn = pay.amountIn]

Showing == page.at = "running"
Paid(i) == \E p \in DOMAIN payments : payments[p].transfer = i /\ payments[p].status = "landed"

Outside == UNCHANGED <<terms, ledger, payments, transfers>>
Only(v) == Outside /\ UNCHANGED <<pay, faults>> /\ page' = v

-----------------------------------------------------------------------------
(* Opening a withdrawal, or the one that is open: begin. *)

\* Pressed once no list is awaited any more.
Begin ==
    /\ page.at = "closed" /\ page.lists = 0
    /\ Only(To(IF page.token THEN "looking" ELSE "proving"))

(* authenticate *)
Prove ==
    /\ page.at = "proving"
    /\ Only([page EXCEPT !.at = "looking", !.token = TRUE])

NoneOpen(blind) == [page EXCEPT !.at = IF hosted THEN "opening" ELSE "identifying",
                                !.blind = blind]

\* Mutant of Look: only a withdrawal that waits for its payment is picked up.
LookForWaiting ==
    /\ page.at = "looking"
    /\ LET waiting == {i \in Open : transfers[i].status = Waits} IN
       \/ waiting = {} /\ Only(NoneOpen(FALSE))
       \/ \E i \in waiting : Only([Told(i) EXCEPT !.at = "amounting"])

(* listTransfers: the first that has not settled, in the anchor's order *)
Look ==
    /\ page.at = "looking"
    /\ \/ Open = {} /\ Only(NoneOpen(FALSE))
       \/ \E i \in Open : Only([Told(i) EXCEPT !.at = "amounting"])

(* register and missingFields: of the direct flow only.  An anchor that     *)
(* wants more than this page can ask for is refused.                        *)
Identify ==
    /\ page.at = "identifying"
    /\ Only(IF asks THEN Refuse ELSE To("opening"))

(* startFresh.  The direct flow is asked without an amount and told the     *)
(* wallet's address as one: the last argument of startDirectWithdraw.       *)
OpenTransfer ==
    /\ page.at = "opening"
    /\ Len(transfers) < MaxTransfers
    /\ transfers' = Append(transfers, [status |-> IF hosted THEN "incomplete" ELSE Waits,
                                       amount |-> Unnamed, blind |-> page.blind])
    /\ page' = [page EXCEPT !.at = "amounting", !.id = Len(transfers) + 1,
                            !.status = IF hosted THEN "incomplete" ELSE Waits,
                            !.amountIn = IF hosted THEN Unnamed ELSE TheAddress,
                            !.blind = FALSE]
    /\ UNCHANGED <<terms, ledger, payments, pay, faults>>

(* amounted *)
FillAmount ==
    /\ page.at = "amounting"
    /\ Only(IF page.amountIn # Unnamed THEN To("running")
            ELSE IF held = 0 THEN Refuse
            ELSE [page EXCEPT !.at = "running", !.amountIn = held])

(* The poll, every five seconds. *)
Poll ==
    /\ Showing
    /\ page.token
    /\ transfers[page.id].status # page.status
    /\ Only(Told(page.id))

-----------------------------------------------------------------------------
(* Paying the anchor: send and completeWithdraw. *)

\* A step of send that leaves the card, and one that ends with it showing v.
Pays(v) == Outside /\ UNCHANGED <<page, faults>> /\ pay' = v
Ends(v) == Outside /\ page' = v /\ pay' = Idle

\* Pressed once no payment is under way any more.
Send ==
    /\ Showing /\ page.status = Waits
    /\ pay = Idle
    /\ page' = To("sending")
    /\ pay' = [Idle EXCEPT !.at = "weighing", !.id = page.id, !.amountIn = page.amountIn]
    /\ Outside /\ UNCHANGED faults

(* The balance is read once more, and all of it is what will be sent. *)
Weigh ==
    /\ pay.at = "weighing"
    /\ \/ held = 0 /\ Ends(Without("failed")) /\ UNCHANGED faults
       \/ held # 0 /\ Pays([pay EXCEPT !.at = "building", !.now = held])

(* getAccount *)
Build ==
    /\ pay.at = "building"
    /\ Pays([pay EXCEPT !.at = "signing", !.sequence = sequence])

(* signTransaction and sendTransaction *)
Sign ==
    /\ pay.at = "signing"
    /\ Len(payments) < MaxPayments
    /\ payments' = Append(payments, [transfer |-> pay.id, amount |-> pay.now,
                                     sequence |-> pay.sequence, status |-> "pending"])
    /\ pay' = [pay EXCEPT !.at = "polling", !.now = 0, !.sequence = 0]
    /\ UNCHANGED <<terms, ledger, transfers, page, faults>>

Result == payments[Len(payments)].status


(* pollTransaction.  The card shows the transfer as it was, and resume asks *)
(* for the list; a card that was shown running has its token.               *)
Learn ==
    /\ pay.at = "polling"
    /\ Result # "pending"
    /\ Ends(IF Result = "landed" THEN [Back EXCEPT !.lists = page.lists + 1]
                                 ELSE Without("failed"))
    /\ UNCHANGED faults

(* resume: what is open now is shown, over whatever the card shows.  What   *)
(* was pressed since then goes on behind it.                                *)
Resume ==
    /\ page.lists > 0
    /\ \/ Open = {} /\ Only([page EXCEPT !.lists = page.lists - 1])
       \/ \E i \in Open : Only([Told(i) EXCEPT !.at = "running", !.lists = page.lists - 1])

(* onRetry *)
Retry ==
    /\ page.at = "failed"
    /\ Only(To("closed"))

(* A card whose transfer has settled has no button left: it is opened anew. *)
Reload ==
    /\ Showing
    /\ Settled(page.status)
    /\ Ends(Fresh)
    /\ UNCHANGED faults

-----------------------------------------------------------------------------
(* The network, external. *)

(* A payment is applied if its sequence number is next, and pays if the     *)
(* wallet holds that much beside what it has to keep.                       *)
Land(p) ==
    /\ payments[p].status = "pending"
    /\ payments[p].sequence = sequence
    /\ sequence' = sequence + 1
    /\ LET pays == payments[p].amount + Kept <= held IN
       /\ payments' = [payments EXCEPT ![p].status = IF pays THEN "landed" ELSE "failed"]
       /\ held' = IF pays THEN held - payments[p].amount ELSE held
    /\ UNCHANGED <<terms, won, transfers, tab, faults>>

(* One that can no longer be applied is forgotten. *)
Drop(p) ==
    /\ payments[p].status = "pending"
    /\ payments[p].sequence # sequence
    /\ payments' = [payments EXCEPT ![p].status = "dropped"]
    /\ UNCHANGED <<terms, ledger, transfers, tab, faults>>

(* A prize is paid to the wallet. *)
Win ==
    /\ won < MaxHeld
    /\ won' = won + 1 /\ held' = held + 1
    /\ UNCHANGED <<terms, sequence, payments, transfers, tab, faults>>

(* The winner moves some of it elsewhere. *)
Spend ==
    /\ held > Kept
    /\ held' = held - 1
    /\ UNCHANGED <<terms, won, sequence, payments, transfers, tab, faults>>

-----------------------------------------------------------------------------
(* The anchor, external. *)

Becomes(i, status) ==
    /\ transfers' = [transfers EXCEPT ![i].status = status]
    /\ UNCHANGED <<terms, ledger, payments, tab>>

(* What is wanted of a person varies and changes without warning. *)
Reconsider ==
    /\ ~ hosted
    /\ asks' = ~ asks
    /\ UNCHANGED <<hosted, asset, ledger, payments, transfers, tab, faults>>

(* The form is filled in, and the anchor may have named an amount. *)
Ready(i) ==
    /\ transfers[i].status = "incomplete"
    /\ \E amount \in Amount \cup {Unnamed} :
          transfers' = [transfers EXCEPT ![i].status = Waits, ![i].amount = amount]
    /\ UNCHANGED <<terms, ledger, payments, tab, faults>>

Accept(i) ==
    /\ transfers[i].status = Waits
    /\ Paid(i)
    /\ Becomes(i, "pending_anchor")
    /\ UNCHANGED faults

PayOut(i) ==
    /\ transfers[i].status = "pending_anchor"
    /\ Becomes(i, "completed")
    /\ UNCHANGED faults

-----------------------------------------------------------------------------
(* What goes wrong. *)

Fault == faults < MaxFaults /\ faults' = faults + 1

(* begin catches what throws and drops the token. *)
BeginFails ==
    /\ Fault
    /\ page.at \in Beginning
    /\ page' = Refuse
    /\ Outside /\ UNCHANGED pay

(* Nothing comes back from the anchor's list but a refusal, which reads as  *)
(* an empty one; of what it wants of a person, as nothing.                  *)
ListRefused ==
    /\ Fault
    /\ \/ page.at = "looking" /\ page' = NoneOpen(TRUE)
       \/ page.at = "identifying" /\ page' = To("opening")
       \/ page.lists > 0 /\ page' = [page EXCEPT !.lists = page.lists - 1]
    /\ Outside /\ UNCHANGED pay

(* completeWithdraw refuses or throws, or asks for thirty seconds in vain:  *)
(* what was submitted may still land.                                       *)
SendFails ==
    /\ Fault
    /\ pay.at \in Sending
    /\ Ends(Without("failed"))

(* Declining in the wallet leaves the transfer where it was. *)
Decline ==
    /\ Fault
    /\ pay.at = "signing"
    /\ Ends(Back)

CloseTab ==
    /\ Fault
    /\ page.at # "closed"
    /\ Ends(Fresh)

(* The anchor gives up on a withdrawal it was not paid for. *)
Expire(i) ==
    /\ Fault
    /\ transfers[i].status \in {"incomplete", Waits}
    /\ ~ Paid(i)
    /\ Becomes(i, "expired")

-----------------------------------------------------------------------------

Card    == Prove \/ Look \/ Identify \/ OpenTransfer \/ FillAmount \/ Poll
           \/ Weigh \/ Build \/ Sign \/ Learn \/ Resume
Person  == Begin \/ Send \/ Retry \/ Reload
Network == \E p \in DOMAIN payments : Land(p) \/ Drop(p)
Anchor  == \E i \in DOMAIN transfers : Ready(i) \/ Accept(i) \/ PayOut(i)
Wrong   == BeginFails \/ ListRefused \/ SendFails \/ Decline \/ CloseTab
           \/ \E i \in DOMAIN transfers : Expire(i)

CashOutNext == Card \/ Person \/ Network \/ Anchor \/ Reconsider \/ Win \/ Spend \/ Wrong

(* The card carries on with what it awaits, the network and the anchor get  *)
(* to what is before them, and a winner who has something left presses the  *)
(* button that is shown.                                                    *)
CashOutSpec ==
    /\ CashOutInit /\ [][CashOutNext]_vars
    /\ WF_vars(Card) /\ WF_vars(Network) /\ WF_vars(Anchor)
    /\ WF_vars(held > 0 /\ Person)

-----------------------------------------------------------------------------

(* Whatever fails and whenever the tab is closed, no withdrawal is started  *)
(* beside one that is open (cash-out.tsx), unless the anchor would not say  *)
(* which are.                                                               *)
OneOpenTransfer == \A i, j \in Open : i < j => transfers[j].blind


=============================================================================
