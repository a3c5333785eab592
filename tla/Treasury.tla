------------------------------ MODULE Treasury ------------------------------
(***************************************************************************)
(* The money of one hackathon: the prize vault, the contributions of       *)
(* sponsors, the tracks they pay for, the payment and the sweeping of the  *)
(* prizes, the platform's fee, and the two ways money goes back: a         *)
(* cancelled event and a track that awards nothing                         *)
(* (contracts/prize-vault, and the entry points of hackathon-core's        *)
(* contract.rs that call it).                                              *)
(*                                                                         *)
(* Treasury runs inside Lifecycle: it supplies the funding publish asks    *)
(* about and the settlement complete asks about.  How entries are judged   *)
(* is not its business, so finalize_results ranks the teams in any order.  *)
(***************************************************************************)
EXTENDS Lifecycle, Integers, Sequences, FiniteSetsExt, Functions

CONSTANTS
    Sponsor, Member, Organizer, Platform,   \* the accounts money moves between
    Donor,           \* somebody whose gift names no position
    Unprepared,      \* accounts that start without a trustline for the asset
    Team, Roster,    \* Team.members of every team, captain first
    FrozenTrack,     \* Constitution.tracks
    FrozenTable,     \* Constitution.prize_tiers, as a table per track
    FeeBps,          \* PlatformFee.bps
    TopUpsAllowed, MinBounty, MaxNewTracks, BorrowsFrom,  \* SponsorshipPolicy
    NewTrack,        \* the names sponsors may ask for
    NewTable,        \* the prize tables they may bring
    MaxSponsorships, \* MAX_SPONSORSHIPS, a hundred in the code
    Amount,          \* bound: what a contribution or a gift may carry
    MaxHeld,         \* bound: no gift lifts the vault above this
    Bench,           \* the judges assigned to each frozen track
    NoAwardAllowed,  \* the frozen tracks marked Track.no_award_allowed
    NoAwardThreshold, AppealWindow, ClaimPeriod,   \* DiscretionPolicy; no_award_refund is read nowhere
    Nobody           \* the winner of a position that has none

Track    == FrozenTrack \cup NewTrack
Party    == Sponsor \cup Member \cup {Organizer, Platform, Donor}
Rank     == UNION {DOMAIN table : table \in Range(FrozenTable) \cup NewTable}
Position == Track \X Rank
MembersOf(team) == Range(Roster[team])

\* A table maps ranks to amounts; validate_prize_tiers keeps both positive.
IsTable(f) ==
    DOMAIN f # {} /\ \A r \in DOMAIN f : r \in Nat /\ r > 0 /\ f[r] \in Nat /\ f[r] > 0

(* An address and a symbol are a few bytes and a rank is a u32, so there    *)
(* are finitely many of each.  A sponsor's account is nobody else's here:   *)
(* what it gives and gets back is told apart from what it may win.          *)
ASSUME PartiesAssumption ==
    /\ IsFiniteSet(Party) /\ IsFiniteSet(Track) /\ IsFiniteSet(Rank)
    /\ Sponsor \cap (Member \cup {Organizer, Platform, Donor}) = {}
    /\ Unprepared \subseteq Party
    /\ \A team \in Team : /\ IsInjective(Roster[team]) /\ Roster[team] # <<>>
                          /\ Roster[team] \in Seq(Member)
    /\ Nobody \notin Team

\* SponsorshipPolicy::validate
ValidSponsorship ==
    /\ TopUpsAllowed \in BOOLEAN
    /\ MaxNewTracks \in Nat
    /\ MaxNewTracks > 0 => BorrowsFrom \in FrozenTrack
    /\ (TopUpsAllowed \/ MaxNewTracks > 0) => MinBounty > 0

\* DiscretionPolicy::validate
ValidDiscretion ==
    /\ NoAwardThreshold \in 1..Cardinality(Judge)
    /\ AppealWindow \in Nat \ {0}
    /\ ClaimPeriod \in Nat \ {0}

ASSUME MoneyAssumption ==
    /\ DOMAIN FrozenTable = FrozenTrack
    /\ FrozenTrack \cap NewTrack = {}
    /\ \A f \in Range(FrozenTable) \cup NewTable : IsTable(f)
    /\ FeeBps \in 0..2000                     \* MAX_PLATFORM_FEE_BPS
    /\ ValidSponsorship
    /\ MaxSponsorships \in Nat
    /\ \A amount \in Amount : amount \in Nat /\ amount > 0

ASSUME DiscretionAssumption ==
    /\ ValidDiscretion
    /\ Bench \in [FrozenTrack -> SUBSET Judge]
    /\ NoAwardAllowed \subseteq FrozenTrack

VARIABLES
    balance,         \* the vault's balance of the prize asset
    wallet,          \* what each account has gained from the vault, less what it put in
    ready,           \* the accounts able to receive the asset
    sponsorships,    \* DataKey::Sponsorship, in order of arrival
    bonus,           \* DataKey::Bonus
    sponsored_fee,   \* DataKey::SponsoredFee
    new_track,       \* DataKey::SponsorTrack
    ranking,         \* DataKey::Ranking: the team placed at each position
    paid,            \* DataKey::Paid: the positions closed
    settled,         \* DataKey::Share: the members settled at each position
    share_count,     \* DataKey::ShareCount
    fee_settled,     \* DataKey::PlatformFeeSettled
    no_award         \* the NoAwardCase of each track, and who signed it

vault    == <<balance, wallet>>
pledges  == <<sponsorships, bonus, sponsored_fee, new_track>>
payments == <<paid, settled, share_count, fee_settled>>
treasury == <<vault, ready, pledges, ranking, payments, no_award>>
everything == <<lifecycle, treasury>>

-----------------------------------------------------------------------------
(***************************************************************************)
(* Positions and what they are worth.                                      *)
(***************************************************************************)

\* PlatformFee::amount_on: integer division, the remainder dropped.
FeeOn(amount) == (amount * FeeBps) \div 10000

NoTrack == [status |-> "none", sponsor |-> Organizer, table |-> <<>>, fee |-> 0]

\* SponsorTrack::paid
PaidFor(t) == SumFunction(new_track[t].table) + new_track[t].fee

With(status) == {t \in NewTrack : new_track[t].status = status}

\* The tracks that take entries: the frozen ones and the accepted ones.
RunningTrack == FrozenTrack \cup With("accepted")

TiersOf(t) == IF t \in FrozenTrack THEN FrozenTable[t] ELSE new_track[t].table

Places(t) == {<<t, r>> : r \in DOMAIN TiersOf(t)}

\* payable_positions
Payable == UNION {Places(t) : t \in RunningTrack}

\* worth_of: the tier plus what sponsors added to it
Worth(p) == TiersOf(p[1])[p[2]] + bonus[p]

\* refund_target
RefundTarget(t) ==
    IF t \in With("accepted") THEN new_track[t].sponsor ELSE Organizer

\* bench_for: a sponsor's track borrows the bench with the rubric.
BenchFor(t) == IF t \in FrozenTrack THEN t ELSE BorrowsFrom

PrizeTotal == SumFunction([t \in FrozenTrack |-> SumFunction(FrozenTable[t])])

\* Mutant of RequiredFunding: the prizes without the platform's cut.
PrizesAlone == PrizeTotal

RequiredFunding == PrizeTotal + FeeOn(PrizeTotal)

\* Mutant of ShareOf: the remainder of the division goes to nobody.
ShareRoundedDown(team, total, m) == total \div Len(Roster[team])

(* Team::share_of: equal shares, the remainder a unit at a time to the      *)
(* members listed first.                                                    *)
ShareOf(team, total, m) ==
    LET size  == Len(Roster[team])
        index == CHOOSE i \in 1..size : Roster[team][i] = m
    IN  total \div size + IF index <= total % size THEN 1 ELSE 0

ShareAt(p, m) == ShareOf(ranking[p], Worth(p), m)

\* Mutant of SharesOf: the leftover is not handed to the best place.
SharesRoundedDown(t, amount, split) ==
    LET ranks  == DOMAIN TiersOf(t)
        before == SumFunction([r \in ranks |-> Worth(<<t, r>>)])
    IN  [r \in ranks |->
            IF split = "evenly" THEN amount \div Cardinality(ranks)
            ELSE (amount * Worth(<<t, r>>)) \div before]

(* shares_of: an even or a proportional division of one contribution over   *)
(* a track's places, the leftover to the best of them.                      *)
SharesOf(t, amount, split) ==
    LET ranks  == DOMAIN TiersOf(t)
        before == SumFunction([r \in ranks |-> Worth(<<t, r>>)])
        share  == [r \in ranks |->
                      IF split = "evenly" THEN amount \div Cardinality(ranks)
                      ELSE (amount * Worth(<<t, r>>)) \div before]
    IN  [share EXCEPT ![Min(ranks)] = @ + (amount - SumFunction(share))]

-----------------------------------------------------------------------------
(***************************************************************************)
(* The vault: anyone may pay in, only the hackathon pays out, and never    *)
(* more than there is.  A transfer to an account without a trustline fails *)
(* and takes the whole invocation with it.                                 *)
(***************************************************************************)

Receive(from, amount) ==
    /\ from \in ready
    /\ balance' = balance + amount
    /\ wallet' = [wallet EXCEPT ![from] = @ - amount]

To(p, amount) == [q \in Party |-> IF q = p THEN amount ELSE 0]

\* Mutant of Pay: the vault does not look at its balance first.
PayOnCredit(due) ==
    /\ \A p \in Party : due[p] > 0 => p \in ready
    /\ balance' = balance - SumFunction(due)
    /\ wallet' = [p \in Party |-> wallet[p] + due[p]]

Pay(due) ==
    /\ SumFunction(due) <= balance
    /\ \A p \in Party : due[p] > 0 => p \in ready
    /\ balance' = balance - SumFunction(due)
    /\ wallet' = [p \in Party |-> wallet[p] + due[p]]

(* PrizeVault::deposit, by somebody who aims the money at nothing *)
Deposit(from, amount) ==
    /\ vault_bound
    /\ balance + amount <= MaxHeld
    /\ Receive(from, amount)
    /\ UNCHANGED <<lifecycle, ready, pledges, ranking, payments, no_award>>

(* An account opens its trustline, which nothing here can make it do. *)
Prepare(p) ==
    /\ p \notin ready
    /\ ready' = ready \cup {p}
    /\ UNCHANGED <<lifecycle, vault, pledges, ranking, payments, no_award>>

-----------------------------------------------------------------------------
(***************************************************************************)
(* Funding and sponsors.                                                   *)
(***************************************************************************)

(* set_up tops the pool up to the requirement, then publishes. *)
FundAndPublish ==
    /\ SetUp
    /\ LET missing == RequiredFunding - balance IN
          IF missing > 0 THEN Receive(Organizer, missing) ELSE UNCHANGED vault
    /\ UNCHANGED <<ready, pledges, ranking, payments, no_award>>

(* open_to_sponsors *)
OpenToSponsors(amount) ==
    /\ TopUpsAllowed
    /\ amount >= MinBounty
    /\ Len(sponsorships) < MaxSponsorships
    /\ phase \in Running

(* sponsor_tier and sponsor_places file one contribution; `shares` is what  *)
(* each rank of the track gains by it.                                      *)
Sponsored(s, t, amount, shares) ==
    /\ OpenToSponsors(amount)
    /\ bonus' = [p \in Position |->
                   bonus[p] + IF p[1] = t /\ p[2] \in DOMAIN shares
                              THEN shares[p[2]] ELSE 0]
    /\ sponsored_fee' = sponsored_fee + FeeOn(amount)
    /\ sponsorships' = Append(sponsorships,
           [sponsor |-> s, track |-> t, amount |-> amount, fee |-> FeeOn(amount)])
    /\ Receive(s, amount + FeeOn(amount))
    /\ UNCHANGED <<lifecycle, ready, new_track, ranking, payments, no_award>>

SponsorTier(s, t, r, amount) ==
    /\ t \in RunningTrack
    /\ r \in DOMAIN TiersOf(t)
    /\ Sponsored(s, t, amount, [rank \in {r} |-> amount])

SponsorPlaces(s, t, amount, split) ==
    /\ t \in RunningTrack
    /\ Sponsored(s, t, amount, SharesOf(t, amount, split))

(* propose_track: the money arrives with the request. *)
ProposeTrack(s, t, table) ==
    LET total == SumFunction(table)
        fee   == FeeOn(total)
    IN  /\ Len(sponsorships) < MaxSponsorships
        /\ phase = "Open"
        /\ Cardinality(With("proposed") \cup With("accepted")) < MaxNewTracks
        /\ new_track[t] = NoTrack
        /\ total >= MinBounty
        /\ new_track' = [new_track EXCEPT ![t] =
               [status |-> "proposed", sponsor |-> s, table |-> table, fee |-> fee]]
        /\ Receive(s, total + fee)
        /\ UNCHANGED <<lifecycle, ready, sponsorships, bonus, sponsored_fee,
                       ranking, payments, no_award>>

AcceptTrack(t) ==
    /\ phase = "Open"
    /\ t \in With("proposed")
    /\ new_track' = [new_track EXCEPT ![t].status = "accepted"]
    /\ sponsored_fee' = sponsored_fee + new_track[t].fee
    /\ UNCHANGED <<lifecycle, vault, ready, sponsorships, bonus, ranking,
                   payments, no_award>>

(* decline_track asks for a pending track, in any phase. *)
DeclineTrack(t) ==
    /\ t \in With("proposed")
    /\ new_track' = [new_track EXCEPT ![t].status = "declined"]
    /\ Pay(To(new_track[t].sponsor, PaidFor(t)))
    /\ UNCHANGED <<lifecycle, ready, sponsorships, bonus, sponsored_fee,
                   ranking, payments, no_award>>

-----------------------------------------------------------------------------
(***************************************************************************)
(* Results and settlement.                                                 *)
(***************************************************************************)

(* What rank_track may find: every track that runs places distinct teams,   *)
(* without gaps from the top, and no team enters two tracks.                *)
Rankings ==
    {r \in [Position -> Team \cup {Nobody}] :
        \A p \in Position : r[p] # Nobody =>
            /\ p[1] \in RunningTrack
            /\ \A q \in Position : r[q] = r[p] => q = p
            /\ \A q \in Position : q[1] = p[1] /\ q[2] < p[2] => r[q] # Nobody}

RankTracks ==
    /\ FinalizeResults(FALSE)
    /\ ranking' \in Rankings
    /\ UNCHANGED <<vault, ready, pledges, payments, no_award>>

MoneyMoves == phase = "Settlement" /\ ~ settlement_paused

\* Mutant of ShareDue: only of a member who can receive it.
ShareDueToTheReady(p, m) ==
    /\ p \in Payable \ paid
    /\ ranking[p] # Nobody
    /\ m \in (MembersOf(ranking[p]) \cap ready) \ settled[p]

(* share_due: the member of the placed team, not settled here before *)
ShareDue(p, m) ==
    /\ p \in Payable \ paid
    /\ ranking[p] # Nobody
    /\ m \in MembersOf(ranking[p]) \ settled[p]

\* Mutant of RecordShares: a call counts as one share, however many it paid.
RecordOneShare(p, who) ==
    LET count == share_count[p] + 1 IN
    /\ settled' = [settled EXCEPT ![p] = @ \cup who]
    /\ share_count' = [share_count EXCEPT ![p] = count]
    /\ paid' = IF count = Len(Roster[ranking[p]]) THEN paid \cup {p} ELSE paid
    /\ UNCHANGED fee_settled

(* record_share, for the members in `who`: the position closes with the     *)
(* last of its shares.                                                      *)
RecordShares(p, who) ==
    LET count == share_count[p] + Cardinality(who) IN
    /\ settled' = [settled EXCEPT ![p] = @ \cup who]
    /\ share_count' = [share_count EXCEPT ![p] = count]
    /\ paid' = IF count = Len(Roster[ranking[p]]) THEN paid \cup {p} ELSE paid
    /\ UNCHANGED fee_settled

(* hand_over: a share of nothing is recorded without a transfer. *)
HandOver(p, m, to) ==
    /\ RecordShares(p, {m})
    /\ IF ShareAt(p, m) > 0 THEN Pay(To(to, ShareAt(p, m))) ELSE UNCHANGED vault
    /\ UNCHANGED <<lifecycle, ready, pledges, ranking, no_award>>

SettlePrize(p, m) ==
    /\ MoneyMoves
    /\ ShareDue(p, m)
    /\ HandOver(p, m, m)

\* The members listed before m.
Before(team, m) ==
    {Roster[team][i] : i \in {k \in 1..Len(Roster[team]) :
        \E l \in 1..Len(Roster[team]) : k < l /\ Roster[team][l] = m}}

(* The members settle_position reaches in one pass down the roster: one     *)
(* whose transfer fails is passed over and stays owed.                      *)
Reached(p, who) ==
    \A m \in MembersOf(ranking[p]) \ settled[p] :
        LET spent == SumFunction([n \in who \cap Before(ranking[p], m) |-> ShareAt(p, n)])
        IN  m \in who <=> \/ ShareAt(p, m) = 0
                          \/ m \in ready /\ spent + ShareAt(p, m) <= balance

SettlePosition(p) ==
    /\ MoneyMoves
    /\ p \in Payable \ paid
    /\ ranking[p] # Nobody
    /\ \E who \in SUBSET (MembersOf(ranking[p]) \ settled[p]) :
          /\ who # {}
          /\ Reached(p, who)
          /\ RecordShares(p, who)
          /\ Pay([q \in Party |-> IF q \in who THEN ShareAt(p, q) ELSE 0])
    /\ UNCHANGED <<lifecycle, ready, pledges, ranking, no_award>>

(* settle_platform_fee: the cut on the table and the cut on what sponsors   *)
(* brought, in one payment                                                  *)
SettlePlatformFee ==
    /\ MoneyMoves
    /\ ~ fee_settled
    /\ fee_settled' = TRUE
    /\ LET fee == FeeOn(PrizeTotal) + sponsored_fee IN
          IF fee > 0 THEN Pay(To(Platform, fee)) ELSE UNCHANGED vault
    /\ UNCHANGED <<lifecycle, ready, pledges, ranking, paid, settled, share_count,
                   no_award>>

\* Mutant of Sweepable: the claim period runs from the ranking.
SweepableSinceTheRanking(p) ==
    /\ MoneyMoves
    /\ p \in Payable \ paid
    /\ now >= finalized_at + ClaimPeriod

\* Mutant of Sweepable: a hold does not stop a sweep.
SweepableThroughAHold(p) ==
    /\ phase = "Settlement"
    /\ p \in Payable \ paid
    /\ now >= settlement_opened_at + ClaimPeriod

(* sweepable: an open position, once the claim period has run out *)
Sweepable(p) ==
    /\ MoneyMoves
    /\ p \in Payable \ paid
    /\ now >= settlement_opened_at + ClaimPeriod

(* sweep_unclaimed: a position nobody won *)
SweepUnclaimed(p) ==
    /\ Sweepable(p)
    /\ ranking[p] = Nobody
    /\ paid' = paid \cup {p}
    /\ Pay(To(RefundTarget(p[1]), Worth(p)))
    /\ UNCHANGED <<lifecycle, ready, pledges, ranking, settled, share_count,
                   fee_settled, no_award>>

SweepShare(p, m) ==
    /\ Sweepable(p)
    /\ ShareDue(p, m)
    /\ HandOver(p, m, RefundTarget(p[1]))

-----------------------------------------------------------------------------
(***************************************************************************)
(* The two ways a prize is withheld.                                       *)
(***************************************************************************)

NoMove == [open |-> FALSE, resolved |-> FALSE, opened_at |-> 0,
           approvals |-> 0, signed |-> {}]

OpenNoAward(t) ==
    /\ phase = "Finalization"
    /\ t \in RunningTrack
    /\ BenchFor(t) \in NoAwardAllowed
    /\ ~ no_award[t].open
    /\ no_award' = [no_award EXCEPT ![t] =
           [open |-> TRUE, resolved |-> FALSE, opened_at |-> now,
            approvals |-> 0, signed |-> {}]]
    /\ UNCHANGED <<lifecycle, vault, ready, pledges, ranking, payments>>

(* approve_no_award: a judge of the track, once, in any phase *)
ApproveNoAward(j, t) ==
    /\ j \in Bench[BenchFor(t)]
    /\ no_award[t].open /\ ~ no_award[t].resolved
    /\ j \notin no_award[t].signed
    /\ no_award' = [no_award EXCEPT ![t] =
           [open |-> TRUE, resolved |-> FALSE, opened_at |-> @.opened_at,
            approvals |-> @.approvals + 1, signed |-> @.signed \cup {j}]]
    /\ UNCHANGED <<lifecycle, vault, ready, pledges, ranking, payments>>

Declared(t) == no_award[t].resolved /\ no_award[t].approvals >= NoAwardThreshold

\* Mutant of Withheld: the table amounts alone.
WithheldTiersAlone(t) ==
    [p \in Party |-> IF p = RefundTarget(t)
                     THEN SumFunction([q \in Places(t) \ paid |-> TiersOf(t)[q[2]]])
                     ELSE 0]

\* What a declared no award sends back: the open tiers along the route, and
\* every contribution aimed at the track to whoever made it.
Withheld(t) ==
    LET open == Places(t) \ paid
        Own(p) == IF p = RefundTarget(t)
                  THEN SumFunction([q \in open |-> TiersOf(t)[q[2]]]) ELSE 0
        Given(p) == SumFunction([i \in {k \in DOMAIN sponsorships :
                                          /\ sponsorships[k].track = t
                                          /\ sponsorships[k].sponsor = p}
                                    |-> sponsorships[i].amount])
    IN  [p \in Party |-> Own(p) + Given(p)]

ResolveNoAward(t) ==
    /\ phase = "Finalization"
    /\ no_award[t].open /\ ~ no_award[t].resolved
    /\ now >= no_award[t].opened_at + AppealWindow
    /\ no_award' = [no_award EXCEPT ![t].resolved = TRUE]
    /\ IF no_award[t].approvals >= NoAwardThreshold
       THEN paid' = paid \cup Places(t) /\ Pay(Withheld(t))
       ELSE UNCHANGED <<paid, vault>>
    /\ UNCHANGED <<lifecycle, ready, pledges, ranking, settled, share_count,
                   fee_settled>>

GivenBy(s) == {i \in DOMAIN sponsorships : sponsorships[i].sponsor = s}
AskedBy(s) == {t \in With("proposed") \cup With("accepted") : new_track[t].sponsor = s}

\* Mutant of Repaid: the fees stay behind.
RepaidWithoutFees(s) ==
    SumFunction([i \in GivenBy(s) |-> sponsorships[i].amount])
    + SumFunction([t \in AskedBy(s) |-> PaidFor(t)])

\* What a sponsor gets back of a cancelled event: every contribution, and
\* every track that was not declined, fees included.
Repaid(s) ==
    SumFunction([i \in GivenBy(s) |-> sponsorships[i].amount + sponsorships[i].fee])
    + SumFunction([t \in AskedBy(s) |-> PaidFor(t)])

(* return_the_pool: sponsors first and in full, the rest to the organizer *)
ReturnThePool ==
    IF vault_bound
    THEN LET repaid == SumFunction([s \in Sponsor |-> Repaid(s)]) IN
         /\ repaid <= balance
         /\ Pay([p \in Party |-> CASE p \in Sponsor   -> Repaid(p)
                                    [] p = Organizer  -> balance - repaid
                                    [] OTHER          -> 0])
    ELSE UNCHANGED vault

CallOff ==
    /\ Cancel \/ ResolveCancellation
    /\ ReturnThePool
    /\ UNCHANGED <<ready, pledges, ranking, payments, no_award>>

-----------------------------------------------------------------------------

TreasuryTypeOK ==
    /\ TypeOK
    /\ balance \in Nat
    /\ wallet \in [Party -> Int]
    /\ ready \subseteq Party
    /\ sponsorships \in Seq([sponsor : Sponsor, track : Track, amount : Nat, fee : Nat])
    /\ bonus \in [Position -> Nat]
    /\ sponsored_fee \in Nat
    /\ new_track \in [NewTrack -> {NoTrack} \cup
           [status : {"proposed", "accepted", "declined"}, sponsor : Sponsor,
            table : NewTable, fee : Nat]]
    /\ ranking \in [Position -> Team \cup {Nobody}]
    /\ paid \subseteq Position
    /\ settled \in [Position -> SUBSET Member]
    /\ share_count \in [Position -> Nat]
    /\ fee_settled \in BOOLEAN
    /\ no_award \in [Track -> [open : BOOLEAN, resolved : BOOLEAN, opened_at : Nat,
                               approvals : Nat, signed : SUBSET Judge]]

TreasuryInit ==
    /\ Init
    /\ balance = 0
    /\ wallet = [p \in Party |-> 0]
    /\ ready = Party \ Unprepared
    /\ sponsorships = <<>>
    /\ bonus = [p \in Position |-> 0]
    /\ sponsored_fee = 0
    /\ new_track = [t \in NewTrack |-> NoTrack]
    /\ ranking = [p \in Position |-> Nobody]
    /\ paid = {}
    /\ settled = [p \in Position |-> {}]
    /\ share_count = [p \in Position |-> 0]
    /\ fee_settled = FALSE
    /\ no_award = [t \in Track |-> NoMove]

(* The entry points that move no money and change none of its records. *)
Elsewhere ==
    /\ \/ Tick \/ Configure \/ LockRules \/ BindVault
       \/ Publish(balance >= RequiredFunding)
       \/ AdvancePhase
       \/ \E gains \in Calls : MoveDeadlines(gains)
       \/ OpenSettlement \/ PauseSettlement \/ ResumeSettlement
       \/ Complete(Payable \subseteq paid /\ fee_settled)
       \/ OpenCancellation
       \/ \E j \in Judge : ApproveCancellation(j)
    /\ UNCHANGED treasury

Sponsoring ==
    \E s \in Sponsor :
        \/ \E t \in Track, amount \in Amount :
              \/ \E r \in Rank : SponsorTier(s, t, r, amount)
              \/ \E split \in {"evenly", "by_worth"} : SponsorPlaces(s, t, amount, split)
        \/ \E t \in NewTrack, table \in NewTable : ProposeTrack(s, t, table)

Settling ==
    \E p \in Position :
        \/ SettlePosition(p)
        \/ SweepUnclaimed(p)
        \/ \E m \in Member : SettlePrize(p, m) \/ SweepShare(p, m)

TreasuryNext ==
    \/ Elsewhere
    \/ FundAndPublish
    \/ \E from \in {Organizer, Donor}, amount \in Amount : Deposit(from, amount)
    \/ \E p \in Unprepared : Prepare(p)
    \/ Sponsoring
    \/ \E t \in NewTrack : AcceptTrack(t) \/ DeclineTrack(t)
    \/ RankTracks
    \/ Settling
    \/ SettlePlatformFee
    \/ \E t \in Track : OpenNoAward(t) \/ ResolveNoAward(t)
                      \/ \E j \in Judge : ApproveNoAward(j, t)
    \/ CallOff

TreasurySpec == TreasuryInit /\ [][TreasuryNext]_everything

(* What the clock service pays out: the fee, every open position, and what  *)
(* nobody collected (backend/clock/src/payout.ts).                          *)
PayOut ==
    \/ SettlePlatformFee
    \/ \E p \in Position : \/ SettlePosition(p)
                           \/ SweepUnclaimed(p)
                           \/ \E m \in Member : SweepShare(p, m)

(***************************************************************************)
(* Settlement asks nobody's signature.  As long as some payment would go   *)
(* through the clock service ends up making one, and it closes the event   *)
(* once nothing is left: each is a call it repeats whenever a simulation   *)
(* lets it through (backend/clock/src/payout.ts, advance.ts).              *)
(***************************************************************************)
ClockFairness ==
    /\ WF_everything(Tick /\ UNCHANGED treasury)
    /\ WF_everything(PayOut)
    /\ WF_everything(Complete(Payable \subseteq paid /\ fee_settled) /\ UNCHANGED treasury)

FairTreasurySpec == TreasurySpec /\ ClockFairness

-----------------------------------------------------------------------------
(***************************************************************************)
(* What the treasury promises.                                             *)
(***************************************************************************)

(* What a position still has to hand over. *)
Outstanding(p) ==
    IF p \in paid THEN 0
    ELSE Worth(p) - SumFunction([m \in settled[p] |-> ShareAt(p, m)])

Owed ==
    SumFunction([p \in Payable |-> Outstanding(p)])
    + (IF fee_settled THEN 0 ELSE FeeOn(PrizeTotal) + sponsored_fee)
    + SumFunction([t \in With("proposed") |-> PaidFor(t)])

Published == phase \notin {"Draft", "Funding", "Cancelled"}

(* The promise of Escrow: after publication every unit that arrives with an *)
(* aim is owed to somebody, every payment discharges exactly what it pays   *)
(* (so splits and shares lose no unit to rounding), and a cancellation      *)
(* empties the vault.                                                       *)
E == INSTANCE Escrow WITH
        Announced <- RequiredFunding,
        held      <- balance,
        owing     <- IF Published THEN Owed ELSE 0,
        stage     <- CASE phase \in {"Draft", "Funding"} -> "forming"
                       [] phase = "Cancelled"            -> "cancelled"
                       [] OTHER                          -> "open"

ImplementsEscrow == E!EscrowSpec

(* The vault covers what it owes at every instant after publication. *)
Solvent == Published => balance >= Owed

(* What a track's places gained is what its contributions carried: settling *)
(* reads the one record, refunding a withheld prize the other.              *)
BonusesAreContributions ==
    \A t \in Track :
        SumFunction([p \in {t} \X Rank |-> bonus[p]]) =
        SumFunction([i \in {k \in DOMAIN sponsorships : sponsorships[k].track = t}
                        |-> sponsorships[i].amount])

(* A position someone won closes with the last of its team's shares, not    *)
(* before and not later, unless its track awards nothing.                   *)
PositionsCloseWithTheirShares ==
    \A p \in Payable :
        /\ settled[p] # {} => ranking[p] # Nobody /\ ~ Declared(p[1])
        /\ ranking[p] # Nobody /\ ~ Declared(p[1]) =>
              (p \in paid) <=> (settled[p] = MembersOf(ranking[p]))

(* A winner's share goes to anybody else only after the claim period.       *)
ClaimPeriodHonoured ==
    [][\A p \in Position, m \in Member :
          /\ m \in settled'[p] \ settled[p]
          /\ ShareAt(p, m) > 0
          /\ wallet'[m] = wallet[m]
          => now >= settlement_opened_at + ClaimPeriod]_everything

(* A cancelled event repays every sponsor to the last unit, fees included,  *)
(* whatever they gave to positions, to whole tracks or to tracks of their   *)
(* own, and keeps nothing in the vault.                                     *)
SponsorsMadeWhole ==
    [][phase' = "Cancelled" /\ phase # "Cancelled" =>
          /\ balance' = 0
          /\ \A s \in Sponsor : wallet'[s] = 0]_everything

(* A hold on settlement stops prizes, sweeps and the fee alike.             *)
HoldStopsPrizes ==
    [][settlement_paused /\ phase = "Settlement" =>
          /\ UNCHANGED payments
          /\ \A p \in Member \cup {Organizer, Platform} : wallet'[p] <= wallet[p]]_everything

(* Unless somebody holds it, a settlement runs to the end: a winner who     *)
(* cannot be paid does not keep it open, once the platform can be.          *)
SettlementEnds ==
    (/\ phase = "Settlement"
     /\ settlement_opened_at + ClaimPeriod <= MaxNow
     /\ Platform \in ready)
        ~> (phase = "Completed" \/ settlement_paused)

=============================================================================
