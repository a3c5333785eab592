-------------------------- MODULE Treasury_proofs --------------------------
(***************************************************************************)
(* Proofs about Treasury, for every roster, prize table, bench and set of  *)
(* accounts: how the book of positions is kept, what the vault owes and to *)
(* whom, and that the treasury keeps the promise of Escrow.                *)
(***************************************************************************)
EXTENDS Treasury, Lifecycle_proofs, SumTheorems

-----------------------------------------------------------------------------
(***************************************************************************)
(* Treasury is Lifecycle with money: every step of it is a step of         *)
(* Lifecycle or leaves the lifecycle alone.                                *)
(***************************************************************************)

(* Every action of Treasury is an action of Lifecycle, or leaves all of its *)
(* variables alone.                                                         *)
LEMMA StepOfTheLifecycle == [TreasuryNext]_everything => [Next]_lifecycle
<1> SUFFICES ASSUME [TreasuryNext]_everything
             PROVE  [Next]_lifecycle
  OBVIOUS
<1>1. CASE Elsewhere
  \* The funding asked for and the settlement asked for are one of the answers
  \* Lifecycle tries.
  <2>1. Publish(balance >= RequiredFunding) => Publish(TRUE)
    BY DEF Publish
  <2>2. Complete(Payable \subseteq paid /\ fee_settled) => Complete(TRUE)
    BY DEF Complete
  <2> QED
    BY <1>1, <2>1, <2>2, Zenon DEF Elsewhere, Next
<1>2. CASE FundAndPublish
  BY <1>2 DEF FundAndPublish, Next
<1>3. CASE RankTracks
  BY <1>3 DEF RankTracks, Next
<1>4. CASE CallOff
  BY <1>4 DEF CallOff, Next
<1>5. CASE \/ \E from \in {Organizer, Donor}, amount \in Amount : Deposit(from, amount)
           \/ \E p \in Unprepared : Prepare(p)
           \/ \E t \in NewTrack : AcceptTrack(t) \/ DeclineTrack(t)
           \/ SettlePlatformFee
  BY <1>5 DEF Deposit, Prepare, AcceptTrack, DeclineTrack, SettlePlatformFee
<1>6. CASE Sponsoring
  <2>1. \A s, t, r, amount : SponsorTier(s, t, r, amount) => UNCHANGED lifecycle
    BY DEF SponsorTier, Sponsored
  <2>2. \A s, t, amount, split : SponsorPlaces(s, t, amount, split) => UNCHANGED lifecycle
    BY DEF SponsorPlaces, Sponsored
  <2>3. \A s, t, table : ProposeTrack(s, t, table) => UNCHANGED lifecycle
    BY DEF ProposeTrack
  <2> QED
    BY <1>6, <2>1, <2>2, <2>3, Zenon DEF Sponsoring
<1>7. CASE Settling
  BY <1>7 DEF Settling, SettlePosition, SweepUnclaimed, SettlePrize, SweepShare, HandOver
<1>8. CASE \E t \in Track : OpenNoAward(t) \/ ResolveNoAward(t)
                          \/ \E j \in Judge : ApproveNoAward(j, t)
  BY <1>8 DEF OpenNoAward, ResolveNoAward, ApproveNoAward
<1>9. CASE UNCHANGED everything
  BY <1>9 DEF everything
<1> QED
  BY <1>1, <1>2, <1>3, <1>4, <1>5, <1>6, <1>7, <1>8, <1>9 DEF TreasuryNext

(* Whatever happens to the money, a hackathon lives the life of Lifecycle,  *)
(* so every theorem about the one holds of the other.                       *)
THEOREM RunsTheLifecycle == TreasurySpec => Spec
<1>1. TreasuryInit => Init
  BY DEF TreasuryInit
<1>2. [TreasuryNext]_everything => [Next]_lifecycle
  BY StepOfTheLifecycle
<1> QED
  BY <1>1, <1>2, PTL DEF TreasurySpec, Spec

-----------------------------------------------------------------------------
(***************************************************************************)
(* A position closes with the last of its team's shares.  The code keeps   *)
(* three records of it (DataKey::Paid, Share and ShareCount) that          *)
(* settle_prize, settle_position, sweep_share, sweep_unclaimed and         *)
(* resolve_no_award write in any order; the invariant says how they agree. *)
(***************************************************************************)

Ranked == {"Finalization", "Settlement", "Completed"}
Paying == {"Settlement", "Completed"}

Request == {"status", "sponsor", "table", "fee"}

RequestShape(r) ==
    /\ DOMAIN r = Request /\ r = [k \in Request |-> r[k]]
    /\ r.status # "none" => r.table \in NewTable

Records ==
    /\ DOMAIN new_track = NewTrack
    /\ \A t \in NewTrack : RequestShape(new_track[t])
    /\ ranking \in [Position -> Team \cup {Nobody}]
    /\ paid \subseteq Position
    /\ settled \in [Position -> SUBSET Member]
    /\ share_count \in [Position -> Nat]
    /\ no_award \in [Track -> [open : BOOLEAN, resolved : BOOLEAN, opened_at : Nat,
                               approvals : Nat, signed : SUBSET Judge]]

(* Before the ranking closes nobody is placed and nothing is closed. *)
Unranked ==
    phase \notin Ranked => /\ \A p \in Position : ranking[p] = Nobody
                          /\ paid = {}
                          /\ \A t \in Track : ~ no_award[t].open

(* Before settlement opens nobody has a share. *)
Unsettled == phase \notin Paying => \A p \in Position : settled[p] = {}

(* A move to award nothing is about a track that runs. *)
MovesAreAboutTracks ==
    \A t \in Track : /\ no_award[t].open => t \in RunningTrack
                     /\ no_award[t].resolved => no_award[t].open

(* A withheld track is closed, and nobody has a share of it. *)
WithheldIsClosed ==
    \A t \in Track : Declared(t) =>
        /\ Places(t) \subseteq paid
        /\ \A r \in Rank : settled[<<t, r>>] = {}

(* share_count counts the settled members, all of them on the placed team. *)
Counted ==
    \A p \in Position :
        /\ IsFiniteSet(settled[p])
        /\ share_count[p] = Cardinality(settled[p])
        /\ settled[p] # {} => ranking[p] # Nobody
        /\ ranking[p] # Nobody => settled[p] \subseteq MembersOf(ranking[p])

(* A placed position is closed exactly when its whole team is settled. *)
Closing ==
    \A p \in Position : ranking[p] # Nobody /\ ~ Declared(p[1]) =>
        (p \in paid <=> settled[p] = MembersOf(ranking[p]))

TreasuryInv == Records /\ Unranked /\ Unsettled /\ MovesAreAboutTracks
                       /\ WithheldIsClosed /\ Counted /\ Closing

-----------------------------------------------------------------------------

(* A roster names as many members as it is long. *)
LEMMA RosterCounts ==
    ASSUME NEW team \in Team
    PROVE  /\ IsFiniteSet(MembersOf(team))
           /\ Cardinality(MembersOf(team)) = Len(Roster[team])
           /\ MembersOf(team) # {}
           /\ MembersOf(team) \subseteq Member
<1> DEFINE n == Len(Roster[team])
<1>1. /\ Roster[team] \in [1..n -> Member]
      /\ n \in Nat
      /\ Roster[team] # <<>>
      /\ IsInjective(Roster[team])
  BY PartiesAssumption
<1>2. Roster[team] \in Bijection(1..n, MembersOf(team))
  BY <1>1 DEF MembersOf, Range, Bijection, Injection, Surjection, IsInjective
<1>3. ExistsBijection(1..n, MembersOf(team))
  BY <1>2, Zenon DEF ExistsBijection
<1>4. IsFiniteSet(MembersOf(team))
  BY <1>1, <1>3, FS_NatBijection, Zenon
<1>5. Cardinality(MembersOf(team)) = n
  BY <1>1, <1>3, FS_CountingElements, Zenon
<1>6. n # 0
  BY PartiesAssumption, <1>1
<1>7. MembersOf(team) # {} /\ MembersOf(team) \subseteq Member
  <2>1. DOMAIN Roster[team] = 1..n /\ 1 \in 1..n
    BY <1>1, <1>6
  <2>2. Roster[team][1] \in MembersOf(team)
    BY <2>1 DEF MembersOf, Range
  <2>3. \A i \in 1..n : Roster[team][i] \in Member
    BY <1>1
  <2>4. MembersOf(team) \subseteq Member
    BY <2>1, <2>3, Zenon DEF MembersOf, Range
  <2> QED
    BY <2>2, <2>4, Zenon
<1> QED
  BY <1>4, <1>5, <1>7

(* How a step of the lifecycle moves between the parts of an event. *)
LEMMA PhaseMoves ==
    ASSUME [Next]_lifecycle
    PROVE  /\ phase \in Ranked => phase' \in Ranked
           /\ phase \in Paying => phase' \in Paying
BY DEF Next, lifecycle, Tick, Configure, LockRules, BindVault, SetUp, Publish,
   AdvancePhase, Advance, Successor, ClosingDeadline, MoveDeadlines, FinalizeResults,
   OpenSettlement, PauseSettlement, ResumeSettlement, Complete, Cancel,
   OpenCancellation, ApproveCancellation, ResolveCancellation, Running, Ranked, Paying

(* Only the three calls about a sponsor's track write its record. *)
LEMMA WhoWritesRequests ==
    ASSUME [TreasuryNext]_everything
    PROVE  \/ \E s \in Sponsor, t \in NewTrack, table \in NewTable : ProposeTrack(s, t, table)
           \/ \E t \in NewTrack : AcceptTrack(t) \/ DeclineTrack(t)
           \/ UNCHANGED new_track
<1>1. CASE Elsewhere
  BY <1>1 DEF Elsewhere, treasury, pledges
<1>2. CASE FundAndPublish \/ RankTracks \/ CallOff \/ SettlePlatformFee
  BY <1>2 DEF FundAndPublish, RankTracks, CallOff, SettlePlatformFee, pledges
<1>3. CASE \/ \E from \in {Organizer, Donor}, amount \in Amount : Deposit(from, amount)
           \/ \E p \in Unprepared : Prepare(p)
  BY <1>3 DEF Deposit, Prepare, pledges
<1>4. CASE Sponsoring
  <2>1. \A s, t, r, amount : SponsorTier(s, t, r, amount) => UNCHANGED new_track
    BY DEF SponsorTier, Sponsored
  <2>2. \A s, t, amount, split : SponsorPlaces(s, t, amount, split) => UNCHANGED new_track
    BY DEF SponsorPlaces, Sponsored
  <2> QED
    BY <1>4, <2>1, <2>2, Zenon DEF Sponsoring
<1>5. CASE Settling
  BY <1>5 DEF Settling, SettlePosition, SweepUnclaimed, SettlePrize, SweepShare,
     HandOver, pledges
<1>6. CASE \E t \in Track : OpenNoAward(t) \/ ResolveNoAward(t)
                          \/ \E j \in Judge : ApproveNoAward(j, t)
  BY <1>6 DEF OpenNoAward, ResolveNoAward, ApproveNoAward, pledges
<1>7. CASE UNCHANGED everything
  BY <1>7 DEF everything, treasury, pledges
<1> QED
  BY <1>1, <1>2, <1>3, <1>4, <1>5, <1>6, <1>7 DEF TreasuryNext

(* A track that runs goes on running, with the places it was accepted with. *)
LEMMA TracksStand ==
    ASSUME Records, [TreasuryNext]_everything
    PROVE  /\ DOMAIN new_track' = NewTrack
           /\ \A t \in NewTrack : RequestShape(new_track'[t])
           /\ \A t \in RunningTrack : t \in RunningTrack' /\ Places(t)' = Places(t)
<1> DEFINE Same(t) == new_track[t].status = "accepted" =>
                         /\ new_track'[t].status = "accepted"
                         /\ new_track'[t].table = new_track[t].table
<1>1. /\ DOMAIN new_track = NewTrack
      /\ \A t \in NewTrack : RequestShape(new_track[t])
  BY DEF Records, RequestShape
<1>2. /\ DOMAIN new_track' = NewTrack
      /\ \A t \in NewTrack : RequestShape(new_track'[t]) /\ Same(t)
  <2>1. ASSUME NEW s \in Sponsor, NEW u \in NewTrack, NEW table \in NewTable,
               ProposeTrack(s, u, table)
        PROVE  <1>2
    <3> DEFINE r == [status |-> "proposed", sponsor |-> s, table |-> table,
                     fee |-> FeeOn(SumFunction(table))]
    <3>1. new_track' = [new_track EXCEPT ![u] = r] /\ new_track[u] = NoTrack
      BY <2>1 DEF ProposeTrack
    <3>2. RequestShape(r)
      BY DEF RequestShape, Request
    <3>3. new_track[u].status # "accepted"
      BY <3>1 DEF NoTrack
    <3> HIDE DEF r
    <3> QED
      BY <1>1, <3>1, <3>2, <3>3
  <2>2. ASSUME NEW u \in NewTrack, NEW v,
               new_track' = [new_track EXCEPT ![u].status = v],
               new_track[u].status = "proposed"
        PROVE  <1>2
    <3> DEFINE r == [new_track[u] EXCEPT !.status = v]
    <3>1. new_track' = [new_track EXCEPT ![u] = r]
      BY <2>2
    <3>2. RequestShape(new_track[u])
      BY <1>1
    <3>3. r = [k \in Request |-> IF k = "status" THEN v ELSE new_track[u][k]]
      BY <3>2 DEF RequestShape
    <3>4. r.table = new_track[u].table /\ r.table \in NewTable
      BY <2>2, <3>2, <3>3 DEF RequestShape, Request
    <3>5. RequestShape(r)
      BY <3>3, <3>4 DEF RequestShape, Request
    <3> HIDE DEF r
    <3> QED
      BY <1>1, <2>2, <3>1, <3>5
  <2>3. ASSUME NEW u \in NewTrack, AcceptTrack(u) \/ DeclineTrack(u)
        PROVE  <1>2
    <3>1. new_track[u].status = "proposed"
      BY <2>3 DEF AcceptTrack, DeclineTrack, With
    <3>2. \E v \in {"accepted", "declined"} :
             new_track' = [new_track EXCEPT ![u].status = v]
      BY <2>3 DEF AcceptTrack, DeclineTrack
    <3> QED
      BY <2>2, <3>1, <3>2
  <2>4. CASE UNCHANGED new_track
    BY <1>1, <2>4
  <2> QED
    BY <2>1, <2>3, <2>4, WhoWritesRequests
<1>3. ASSUME NEW t \in RunningTrack
      PROVE  t \in RunningTrack' /\ Places(t)' = Places(t)
  <2>1. CASE t \in FrozenTrack
    BY <2>1 DEF RunningTrack, Places, TiersOf
  <2>2. CASE t \notin FrozenTrack
    <3>1. t \in NewTrack /\ new_track[t].status = "accepted"
      BY <2>2 DEF RunningTrack, With
    <3>2. new_track'[t].status = "accepted" /\ new_track'[t].table = new_track[t].table
      BY <1>2, <3>1
    <3> QED
      BY <2>2, <3>1, <3>2 DEF RunningTrack, With, Places, TiersOf
  <2> QED
    BY <2>1, <2>2
<1> QED
  BY <1>2, <1>3

book == <<ranking, paid, settled, share_count, no_award>>

(* What settle_prize, settle_position and sweep_share have in common: some  *)
(* unsettled members of the placed team are recorded at an open position.   *)
Sharing ==
    \E p \in Payable \ paid :
        /\ p \in Position
        /\ phase = "Settlement"
        /\ ranking[p] # Nobody
        /\ \E who \in SUBSET (MembersOf(ranking[p]) \ settled[p]) : RecordShares(p, who)
        /\ UNCHANGED <<phase, ranking, no_award, new_track>>

(* The three calls that hand over shares do one thing to the book.          *)
LEMMA SettlingShares ==
    ASSUME NEW p \in Position, NEW m \in Member,
           SettlePrize(p, m) \/ SweepShare(p, m)
    PROVE  Sharing
<1>1. /\ p \in Payable \ paid
      /\ phase = "Settlement"
      /\ ranking[p] # Nobody
      /\ m \in MembersOf(ranking[p]) \ settled[p]
      /\ RecordShares(p, {m})
      /\ UNCHANGED <<phase, ranking, no_award, new_track>>
  BY DEF SettlePrize, SweepShare, HandOver, ShareDue, Sweepable, MoneyMoves,
     lifecycle, pledges
<1>2. {m} \in SUBSET (MembersOf(ranking[p]) \ settled[p])
  BY <1>1
<1> QED
  BY <1>1, <1>2 DEF Sharing

(* The steps that write the record of who is placed, paid and withheld. *)
LEMMA WhoWritesTheBook ==
    ASSUME [TreasuryNext]_everything
    PROVE  \/ UNCHANGED book
           \/ RankTracks
           \/ Sharing
           \/ \E p \in Position : SweepUnclaimed(p)
           \/ \E t \in Track : OpenNoAward(t) \/ ResolveNoAward(t)
                             \/ \E j \in Judge : ApproveNoAward(j, t)
<1>1. CASE Elsewhere
  BY <1>1 DEF Elsewhere, treasury, payments, book
<1>2. CASE FundAndPublish \/ CallOff \/ SettlePlatformFee
  BY <1>2 DEF FundAndPublish, CallOff, SettlePlatformFee, payments, book
<1>3. CASE \/ \E from \in {Organizer, Donor}, amount \in Amount : Deposit(from, amount)
           \/ \E p \in Unprepared : Prepare(p)
           \/ \E t \in NewTrack : AcceptTrack(t) \/ DeclineTrack(t)
  BY <1>3 DEF Deposit, Prepare, AcceptTrack, DeclineTrack, payments, book
<1>4. CASE Sponsoring
  <2>1. \A s \in Sponsor, t \in Track, amount \in Amount, r \in Rank :
           SponsorTier(s, t, r, amount) => UNCHANGED book
    BY DEF SponsorTier, Sponsored, payments, book
  <2>2. \A s \in Sponsor, t \in Track, amount \in Amount, split \in {"evenly", "by_worth"} :
           SponsorPlaces(s, t, amount, split) => UNCHANGED book
    BY DEF SponsorPlaces, Sponsored, payments, book
  <2>3. \A s \in Sponsor, t \in NewTrack, table \in NewTable :
           ProposeTrack(s, t, table) => UNCHANGED book
    BY DEF ProposeTrack, payments, book
  <2> QED
    BY <1>4, <2>1, <2>2, <2>3, Zenon DEF Sponsoring
<1>5. CASE Settling
  <2>1. PICK p \in Position :
           \/ SettlePosition(p)
           \/ SweepUnclaimed(p)
           \/ \E m \in Member : SettlePrize(p, m) \/ SweepShare(p, m)
    BY <1>5 DEF Settling
  <2>2. CASE SettlePosition(p)
    BY <2>2 DEF SettlePosition, MoneyMoves, Sharing, lifecycle, pledges
  <2>3. CASE \E m \in Member : SettlePrize(p, m) \/ SweepShare(p, m)
    BY <2>3, SettlingShares
  <2> QED
    BY <2>1, <2>2, <2>3
<1>6. CASE UNCHANGED everything
  BY <1>6 DEF everything, treasury, payments, book
<1> QED
  BY <1>1, <1>2, <1>3, <1>4, <1>5, <1>6 DEF TreasuryNext

-----------------------------------------------------------------------------

(* A payable position is a pair of a running track and one of its ranks.    *)
LEMMA PlacesArePositions ==
    ASSUME Records, NEW t \in RunningTrack
    PROVE  Places(t) \subseteq Position
<1>1. \A f \in Range(FrozenTable) \cup NewTable : DOMAIN f \subseteq Rank
  BY DEF Rank
<1>2. CASE t \in FrozenTrack
  <2>1. FrozenTable[t] \in Range(FrozenTable)
    BY <1>2, MoneyAssumption DEF Range
  <2> QED
    BY <1>1, <1>2, <2>1 DEF Places, TiersOf, Position, Track
<1>3. CASE t \notin FrozenTrack
  <2>1. t \in NewTrack /\ new_track[t].status = "accepted"
    BY <1>3 DEF RunningTrack, With
  <2>2. new_track[t].table \in NewTable
    BY <2>1 DEF Records, RequestShape
  <2> QED
    BY <1>1, <1>3, <2>1, <2>2 DEF Places, TiersOf, Position, Track
<1> QED
  BY <1>2, <1>3

(* What every step preserves, whatever it writes: the phases of an event    *)
(* that are over, the tracks that run, and a move that was resolved.        *)
LEMMA Background ==
    ASSUME TreasuryInv, [TreasuryNext]_everything
    PROVE  /\ phase \in Ranked => phase' \in Ranked
           /\ phase \in Paying => phase' \in Paying
           /\ DOMAIN new_track' = NewTrack
           /\ \A t \in NewTrack : RequestShape(new_track'[t])
           /\ \A t \in RunningTrack : t \in RunningTrack' /\ Places(t)' = Places(t)
           /\ \A t \in Track : Declared(t) => t \in RunningTrack
<1>1. phase \in Ranked => phase' \in Ranked
  BY PhaseMoves, StepOfTheLifecycle
<1>2. phase \in Paying => phase' \in Paying
  BY PhaseMoves, StepOfTheLifecycle
<1>3. Records
  BY DEF TreasuryInv
<1>4. \A t \in Track : Declared(t) => t \in RunningTrack
  BY DEF TreasuryInv, MovesAreAboutTracks, Declared
<1> QED
  BY <1>1, <1>2, <1>3, <1>4, TracksStand

(* A step that leaves the book alone leaves what it says true.              *)
LEMMA OtherSteps ==
    ASSUME TreasuryInv, [TreasuryNext]_everything, UNCHANGED book
    PROVE  TreasuryInv'
<1> USE DEF book
<1>1. \A t \in Track : Declared(t)' = Declared(t)
  BY DEF Declared
<1>2. Records'
  BY Background DEF Records, TreasuryInv
<1>3. Unranked' /\ Unsettled'
  BY Background DEF TreasuryInv, Unranked, Unsettled
<1>4. MovesAreAboutTracks'
  BY Background DEF TreasuryInv, MovesAreAboutTracks
<1>5. WithheldIsClosed'
  BY <1>1, Background DEF TreasuryInv, WithheldIsClosed
<1>6. Counted' /\ Closing'
  <2>1. \A p \in Position : p[1] \in Track
    BY DEF Position
  <2> QED
    BY <1>1, <2>1 DEF TreasuryInv, Counted, Closing
<1> QED
  BY <1>2, <1>3, <1>4, <1>5, <1>6 DEF TreasuryInv

(* finalize_results ranks positions that nobody has been paid for yet.      *)
LEMMA RankingStep ==
    ASSUME TreasuryInv, [TreasuryNext]_everything, RankTracks
    PROVE  TreasuryInv'
<1>1. /\ phase = "Reveal" /\ phase' = "Finalization"
      /\ UNCHANGED <<new_track, paid, settled, share_count, no_award>>
      /\ ranking' \in [Position -> Team \cup {Nobody}]
  BY DEF RankTracks, FinalizeResults, Advance, Successor, Rankings, pledges, payments
<1>2. /\ paid = {}
      /\ \A p \in Position : settled[p] = {}
      /\ \A t \in Track : ~ no_award[t].open /\ ~ no_award[t].resolved
  BY <1>1 DEF TreasuryInv, Unranked, Unsettled, Ranked, Paying, MovesAreAboutTracks
<1>3. \A t \in Track : ~ Declared(t)' /\ ~ no_award'[t].open /\ ~ no_award'[t].resolved
  BY <1>1, <1>2 DEF Declared
<1>4. Records'
  BY <1>1, Background DEF Records, TreasuryInv
<1>5. Unranked' /\ Unsettled'
  BY <1>1, <1>2 DEF Unranked, Unsettled, Ranked, Paying
<1>6. MovesAreAboutTracks' /\ WithheldIsClosed'
  BY <1>3 DEF MovesAreAboutTracks, WithheldIsClosed
<1>7. Counted'
  BY <1>1, <1>2 DEF TreasuryInv, Counted
<1>8. Closing'
  <2>1. \A p \in Position : ranking'[p] # Nobody => MembersOf(ranking'[p]) # {}
    BY <1>1, RosterCounts, Zenon
  <2> QED
    BY <1>1, <1>2, <2>1 DEF Closing
<1> QED
  BY <1>4, <1>5, <1>6, <1>7, <1>8 DEF TreasuryInv

(* Recording shares keeps the count equal to the members settled, and so    *)
(* closes a position with the last of them.                                 *)
LEMMA SharingStep ==
    ASSUME TreasuryInv, [TreasuryNext]_everything, Sharing
    PROVE  TreasuryInv'
<1>1. PICK p \in Payable \ paid :
         /\ p \in Position
         /\ phase = "Settlement"
         /\ ranking[p] # Nobody
         /\ \E who \in SUBSET (MembersOf(ranking[p]) \ settled[p]) : RecordShares(p, who)
         /\ UNCHANGED <<phase, ranking, no_award, new_track>>
  BY DEF Sharing
<1>2. PICK who \in SUBSET (MembersOf(ranking[p]) \ settled[p]) : RecordShares(p, who)
  BY <1>1
<1>3. /\ ranking[p] \in Team
      /\ settled[p] \in SUBSET Member
      /\ p[1] \in Track
  BY <1>1 DEF TreasuryInv, Records, Position
<1> DEFINE team == MembersOf(ranking[p])
           count == share_count[p] + Cardinality(who)
<1>4. /\ IsFiniteSet(team)
      /\ Cardinality(team) = Len(Roster[ranking[p]])
      /\ team \subseteq Member
  BY <1>3, RosterCounts
<1>5. /\ IsFiniteSet(settled[p])
      /\ share_count[p] = Cardinality(settled[p])
      /\ settled[p] \subseteq team
  BY <1>1 DEF TreasuryInv, Counted
<1>6. /\ IsFiniteSet(settled[p] \cup who)
      /\ count = Cardinality(settled[p] \cup who)
      /\ count \in Nat
  <2>1. IsFiniteSet(who)
    BY <1>4, FS_Subset
  <2>2. settled[p] \cap who = {}
    OBVIOUS
  <2>3. /\ IsFiniteSet(settled[p] \cup who)
        /\ Cardinality(settled[p] \cup who) =
              Cardinality(settled[p]) + Cardinality(who) - Cardinality({})
    BY <1>5, <2>1, <2>2, FS_Union
  <2>4. /\ Cardinality(settled[p]) \in Nat /\ Cardinality(who) \in Nat
        /\ Cardinality({}) = 0
    BY <1>5, <2>1, FS_CardinalityType, FS_EmptySet
  <2> QED
    BY <1>5, <2>3, <2>4
<1>7. settled[p] \cup who \subseteq team
  BY <1>5
<1>8. count = Len(Roster[ranking[p]]) <=> settled[p] \cup who = team
  BY <1>4, <1>6, <1>7, FS_Subset
<1>9. /\ settled' = [settled EXCEPT ![p] = settled[p] \cup who]
      /\ share_count' = [share_count EXCEPT ![p] = count]
      /\ paid' = IF count = Len(Roster[ranking[p]]) THEN paid \cup {p} ELSE paid
  BY <1>2 DEF RecordShares
<1> HIDE DEF count, team
\* The position is open, so its track is not withheld.
<1>10. ~ Declared(p[1])
  <2>1. \A t \in RunningTrack : p \in Places(t) => t = p[1]
    BY DEF Places
  <2>2. p \in Places(p[1])
    BY <1>1, <2>1 DEF Payable
  <2> QED
    BY <1>1, <1>3, <2>2 DEF TreasuryInv, WithheldIsClosed
<1>11. \A t \in Track : Declared(t)' = Declared(t)
  BY <1>1 DEF Declared
<1>12. Records'
  BY <1>1, <1>6, <1>7, <1>4, <1>9, Background DEF Records, TreasuryInv
<1>13. Unranked' /\ Unsettled'
  BY <1>1 DEF Unranked, Unsettled, Ranked, Paying
<1>14. MovesAreAboutTracks'
  BY <1>1, Background DEF TreasuryInv, MovesAreAboutTracks
<1>15. WithheldIsClosed'
  <2> SUFFICES ASSUME NEW t \in Track, Declared(t)
               PROVE  /\ Places(t)' \subseteq paid'
                      /\ \A r \in Rank : settled'[<<t, r>>] = {}
    BY <1>11 DEF WithheldIsClosed
  <2>1. Places(t)' = Places(t)
    BY Background
  <2>2. /\ Places(t) \subseteq paid
        /\ \A r \in Rank : settled[<<t, r>>] = {}
    BY DEF TreasuryInv, WithheldIsClosed
  <2>3. paid \subseteq paid'
    BY <1>9
  <2>4. \A r \in Rank : <<t, r>> \in Position /\ <<t, r>> # p
    BY <1>10 DEF Position
  <2> QED
    BY <1>9, <2>1, <2>2, <2>3, <2>4 DEF TreasuryInv, Records
<1>16. Counted'
  BY <1>1, <1>6, <1>7, <1>9 DEF TreasuryInv, Records, Counted, team
<1>17. Closing'
  <2> SUFFICES ASSUME NEW q \in Position, ranking[q] # Nobody, ~ Declared(q[1])
               PROVE  q \in paid' <=> settled'[q] = MembersOf(ranking[q])
    BY <1>1, <1>11 DEF Closing, Position
  <2>1. CASE q = p
    BY <1>1, <1>8, <1>9, <2>1 DEF TreasuryInv, Records, team
  <2>2. CASE q # p
    BY <1>9, <2>2 DEF TreasuryInv, Records, Closing
  <2> QED
    BY <2>1, <2>2
<1> QED
  BY <1>12, <1>13, <1>14, <1>15, <1>16, <1>17 DEF TreasuryInv

(* Sweeping a whole position closes one nobody won.                         *)
LEMMA SweepStep ==
    ASSUME TreasuryInv, [TreasuryNext]_everything,
           NEW p \in Position, SweepUnclaimed(p)
    PROVE  TreasuryInv'
<1>1. /\ phase = "Settlement"
      /\ ranking[p] = Nobody
      /\ paid' = paid \cup {p}
      /\ UNCHANGED <<phase, new_track, ranking, settled, share_count, no_award>>
  BY DEF SweepUnclaimed, Sweepable, MoneyMoves, lifecycle, pledges
<1>2. \A t \in Track : Declared(t)' = Declared(t)
  BY <1>1 DEF Declared
<1>3. Records'
  BY <1>1, Background DEF Records, TreasuryInv
<1>4. Unranked' /\ Unsettled'
  BY <1>1 DEF Unranked, Unsettled, Ranked, Paying
<1>5. MovesAreAboutTracks'
  BY <1>1, Background DEF TreasuryInv, MovesAreAboutTracks
<1>6. WithheldIsClosed'
  BY <1>1, <1>2, Background DEF TreasuryInv, WithheldIsClosed
<1>7. Counted'
  BY <1>1 DEF TreasuryInv, Counted
<1>8. Closing'
  BY <1>1, <1>2 DEF TreasuryInv, Closing, Position
<1> QED
  BY <1>3, <1>4, <1>5, <1>6, <1>7, <1>8 DEF TreasuryInv

(* Opening and signing a move to award nothing leaves every position alone, *)
(* and withholds nothing yet.                                               *)
LEMMA MoveStep ==
    ASSUME TreasuryInv, TypeOK, [TreasuryNext]_everything, NEW t \in Track,
           OpenNoAward(t) \/ \E j \in Judge : ApproveNoAward(j, t)
    PROVE  TreasuryInv'
<1>1. /\ UNCHANGED <<phase, new_track, ranking, paid, settled, share_count>>
      /\ ~ no_award[t].resolved
      /\ \E case \in [open : BOOLEAN, resolved : BOOLEAN, opened_at : Nat,
                       approvals : Nat, signed : SUBSET Judge] :
            /\ no_award' = [no_award EXCEPT ![t] = case]
            /\ ~ case.resolved
            /\ t \in RunningTrack
            /\ phase \in Ranked
  <2>1. no_award[t] \in [open : BOOLEAN, resolved : BOOLEAN, opened_at : Nat,
                         approvals : Nat, signed : SUBSET Judge]
    BY DEF TreasuryInv, Records
  <2>2. CASE OpenNoAward(t)
    <3> DEFINE case == [open |-> TRUE, resolved |-> FALSE, opened_at |-> now,
                        approvals |-> 0, signed |-> {}]
    <3>2. no_award' = [no_award EXCEPT ![t] = case]
      BY <2>2 DEF OpenNoAward
    <3>3. /\ UNCHANGED <<phase, new_track, ranking, paid, settled, share_count>>
          /\ ~ no_award[t].open
          /\ t \in RunningTrack
          /\ phase \in Ranked
      BY <2>2 DEF OpenNoAward, lifecycle, pledges, payments, Ranked
    <3>4. ~ no_award[t].resolved
      BY <3>3 DEF TreasuryInv, MovesAreAboutTracks
    <3>5. case \in [open : BOOLEAN, resolved : BOOLEAN, opened_at : Nat,
                    approvals : Nat, signed : SUBSET Judge]
      BY DEF TypeOK
    <3>6. ~ case.resolved
      OBVIOUS
    <3> HIDE DEF case
    <3> QED
      BY <3>2, <3>3, <3>4, <3>5, <3>6
  <2>3. ASSUME NEW j \in Judge, ApproveNoAward(j, t)
        PROVE  <1>1
    <3> DEFINE case == [open |-> TRUE, resolved |-> FALSE,
                        opened_at |-> no_award[t].opened_at,
                        approvals |-> no_award[t].approvals + 1,
                        signed |-> no_award[t].signed \cup {j}]
    <3>1. no_award' = [no_award EXCEPT ![t] = case]
      BY <2>1, <2>3 DEF ApproveNoAward, TreasuryInv, Records
    <3>2. case \in [open : BOOLEAN, resolved : BOOLEAN, opened_at : Nat,
                    approvals : Nat, signed : SUBSET Judge]
      BY <2>1
    <3>3. ~ case.resolved
      OBVIOUS
    <3>4. /\ UNCHANGED <<phase, new_track, ranking, paid, settled, share_count>>
          /\ no_award[t].open
          /\ ~ no_award[t].resolved
      BY <2>3 DEF ApproveNoAward, lifecycle, pledges, payments
    <3>5. t \in RunningTrack /\ phase \in Ranked
      BY <3>4 DEF TreasuryInv, MovesAreAboutTracks, Unranked
    <3> HIDE DEF case
    <3> QED
      BY <3>1, <3>2, <3>3, <3>4, <3>5
  <2> QED
    BY <2>2, <2>3
<1>2. PICK case \in [open : BOOLEAN, resolved : BOOLEAN, opened_at : Nat,
                     approvals : Nat, signed : SUBSET Judge] :
         /\ no_award' = [no_award EXCEPT ![t] = case]
         /\ ~ case.resolved
         /\ t \in RunningTrack
         /\ phase \in Ranked
  BY <1>1
<1>3. /\ no_award'[t] = case
      /\ \A u \in Track : u # t => no_award'[u] = no_award[u]
  BY <1>2 DEF TreasuryInv, Records
<1>4. \A u \in Track : Declared(u)' = Declared(u)
  BY <1>1, <1>2, <1>3 DEF Declared
<1>5. Records'
  BY <1>1, <1>2, Background DEF Records, TreasuryInv
<1>6. Unranked' /\ Unsettled'
  BY <1>1, <1>2 DEF TreasuryInv, Unranked, Unsettled
<1>7. MovesAreAboutTracks'
  BY <1>2, <1>3, Background DEF TreasuryInv, MovesAreAboutTracks
<1>8. WithheldIsClosed'
  BY <1>1, <1>4, Background DEF TreasuryInv, WithheldIsClosed
<1>9. Counted' /\ Closing'
  BY <1>1, <1>4 DEF TreasuryInv, Counted, Closing, Position
<1> QED
  BY <1>5, <1>6, <1>7, <1>8, <1>9 DEF TreasuryInv

(* A resolved move that carried closes every place of its track, before     *)
(* anybody was paid there.                                                  *)
LEMMA WithholdingStep ==
    ASSUME TreasuryInv, [TreasuryNext]_everything, NEW t \in Track, ResolveNoAward(t)
    PROVE  TreasuryInv'
<1>1. /\ phase = "Finalization"
      /\ no_award[t].open /\ ~ no_award[t].resolved
      /\ no_award' = [no_award EXCEPT ![t].resolved = TRUE]
      /\ UNCHANGED <<phase, new_track, ranking, settled, share_count>>
      /\ IF no_award[t].approvals >= NoAwardThreshold
         THEN paid' = paid \cup Places(t)
         ELSE paid' = paid
  BY DEF ResolveNoAward, lifecycle, pledges
<1>2. t \in RunningTrack /\ \A p \in Position : settled[p] = {}
  BY <1>1 DEF TreasuryInv, MovesAreAboutTracks, Unsettled, Paying
<1>3. /\ no_award[t] \in [open : BOOLEAN, resolved : BOOLEAN, opened_at : Nat,
                           approvals : Nat, signed : SUBSET Judge]
      /\ no_award' \in [Track -> [open : BOOLEAN, resolved : BOOLEAN, opened_at : Nat,
                                  approvals : Nat, signed : SUBSET Judge]]
      /\ no_award'[t].resolved /\ no_award'[t].open
      /\ no_award'[t].approvals = no_award[t].approvals
      /\ \A u \in Track : u # t => no_award'[u] = no_award[u]
  BY <1>1 DEF TreasuryInv, Records
<1>4. /\ Declared(t)' <=> no_award[t].approvals >= NoAwardThreshold
      /\ ~ Declared(t)
      /\ \A u \in Track : u # t => Declared(u)' = Declared(u)
  BY <1>1, <1>3 DEF Declared
<1>5. Places(t) \subseteq Position
  BY <1>2, PlacesArePositions DEF TreasuryInv
<1>6. Records'
  BY <1>1, <1>3, <1>5, Background DEF Records, TreasuryInv
<1>7. Unranked' /\ Unsettled'
  BY <1>1, <1>2 DEF Unranked, Unsettled, Ranked
<1>8. MovesAreAboutTracks'
  BY <1>2, <1>3, Background DEF TreasuryInv, MovesAreAboutTracks
<1>9. WithheldIsClosed'
  <2> SUFFICES ASSUME NEW u \in Track, Declared(u)'
               PROVE  /\ Places(u)' \subseteq paid'
                      /\ \A r \in Rank : settled'[<<u, r>>] = {}
    BY DEF WithheldIsClosed
  <2>1. \A r \in Rank : settled'[<<u, r>>] = {}
    BY <1>1, <1>2 DEF Position
  <2>2. CASE u = t
    BY <1>1, <1>2, <1>4, <2>1, <2>2, Background
  <2>3. CASE u # t
    BY <1>1, <1>4, <2>1, <2>3, Background DEF TreasuryInv, WithheldIsClosed
  <2> QED
    BY <2>2, <2>3
<1>10. Counted'
  BY <1>1 DEF TreasuryInv, Counted
<1>11. Closing'
  <2> SUFFICES ASSUME NEW p \in Position, ranking[p] # Nobody, ~ Declared(p[1])'
               PROVE  p \in paid' <=> settled[p] = MembersOf(ranking[p])
    BY <1>1 DEF Closing
  <2>1. p \in Places(t) => p[1] = t
    BY DEF Places
  <2>2. ~ Declared(p[1]) /\ (p \in paid' <=> p \in paid)
    BY <1>1, <1>4, <2>1 DEF Position
  <2> QED
    BY <2>2 DEF TreasuryInv, Closing
<1> QED
  BY <1>6, <1>7, <1>8, <1>9, <1>10, <1>11 DEF TreasuryInv

-----------------------------------------------------------------------------

(* A new hackathon has ranked, paid and withheld nothing.                   *)
LEMMA InitTreasuryInv == TreasuryInit => TreasuryInv
<1> SUFFICES ASSUME TreasuryInit PROVE TreasuryInv
  OBVIOUS
<1>1. /\ phase = "Draft"
      /\ new_track = [t \in NewTrack |-> NoTrack]
      /\ ranking = [p \in Position |-> Nobody]
      /\ paid = {}
      /\ settled = [p \in Position |-> {}]
      /\ share_count = [p \in Position |-> 0]
      /\ no_award = [t \in Track |-> NoMove]
  BY DEF TreasuryInit, Init
<1>2. RequestShape(NoTrack)
  BY DEF RequestShape, Request, NoTrack
<1>3. NoMove \in [open : BOOLEAN, resolved : BOOLEAN, opened_at : Nat,
                  approvals : Nat, signed : SUBSET Judge]
  BY DEF NoMove
<1>4. ~ NoMove.open /\ ~ NoMove.resolved
  BY DEF NoMove
<1>5. Records
  BY <1>1, <1>2, <1>3 DEF Records
<1>6. \A t \in Track : ~ no_award[t].open /\ ~ no_award[t].resolved
  BY <1>1, <1>4
<1>7. IsFiniteSet({}) /\ Cardinality({}) = 0
  BY FS_EmptySet
<1> QED
  BY <1>1, <1>5, <1>6, <1>7 DEF TreasuryInv, Unranked, Unsettled, Ranked, Paying,
     MovesAreAboutTracks, WithheldIsClosed, Declared, Counted, Closing

(* The invariant is inductive, given the types the lifecycle keeps.         *)
LEMMA StepTreasuryInv ==
    ASSUME TreasuryInv, Inv, [TreasuryNext]_everything
    PROVE  TreasuryInv'
<1>1. TypeOK
  BY DEF Inv
<1>2. ASSUME NEW t \in Track,
             OpenNoAward(t) \/ ResolveNoAward(t) \/ \E j \in Judge : ApproveNoAward(j, t)
      PROVE  TreasuryInv'
  BY <1>1, <1>2, MoveStep, WithholdingStep
<1> QED
  BY <1>2, WhoWritesTheBook, OtherSteps, RankingStep, SharingStep, SweepStep

(* Every reachable state keeps the book of positions straight.              *)
THEOREM TreasuryInvariance == TreasurySpec => []TreasuryInv
<1>1. TreasuryInit => TreasuryInv
  BY InitTreasuryInv
<1>2. TreasuryInv /\ Inv /\ [TreasuryNext]_everything => TreasuryInv'
  BY StepTreasuryInv
<1>3. TreasurySpec => []Inv
  BY RunsTheLifecycle, Invariance, PTL
<1> QED
  BY <1>1, <1>2, <1>3, PTL DEF TreasurySpec

(* In every hackathon a position somebody won is closed exactly when every  *)
(* member of the team has been settled there, whichever calls settled them  *)
(* and in whatever order, and a withheld track hands nobody a share.        *)
THEOREM PositionsCloseProperly == TreasurySpec => []PositionsCloseWithTheirShares
<1>1. TreasuryInv => PositionsCloseWithTheirShares
  <2> SUFFICES ASSUME TreasuryInv, NEW p \in Payable
               PROVE  /\ settled[p] # {} => ranking[p] # Nobody /\ ~ Declared(p[1])
                      /\ ranking[p] # Nobody /\ ~ Declared(p[1]) =>
                            (p \in paid) <=> (settled[p] = MembersOf(ranking[p]))
    BY DEF PositionsCloseWithTheirShares
  <2>1. p \in Position
    BY PlacesArePositions DEF Payable, TreasuryInv
  <2>2. p[1] \in Track /\ p[2] \in Rank /\ p = <<p[1], p[2]>>
    BY <2>1 DEF Position
  <2>3. settled[p] # {} => ~ Declared(p[1])
    BY <2>2 DEF TreasuryInv, WithheldIsClosed
  <2> QED
    BY <2>1, <2>3 DEF TreasuryInv, Counted, Closing
<1> QED
  BY <1>1, TreasuryInvariance, PTL

-----------------------------------------------------------------------------
(***************************************************************************)
(* The money.  The vault's balance, what is recorded of contributions and  *)
(* requests, and what every sponsor is out of pocket by are kept by        *)
(* different calls; the invariant says how they agree.                     *)
(***************************************************************************)

\* A record of DataKey::Sponsorship, and one of DataKey::SponsorTrack.
Contribution == [sponsor : Sponsor, track : Track, amount : Nat, fee : Nat]

Asked == [status : {"proposed", "accepted", "declined"}, sponsor : Sponsor,
          table : NewTable, fee : Nat]

Amounts ==
    /\ balance \in Nat
    /\ wallet \in [Party -> Int]
    /\ ready \subseteq Party
    /\ sponsorships \in Seq(Contribution)
    /\ bonus \in [Position -> Nat]
    /\ sponsored_fee \in Nat
    /\ new_track \in [NewTrack -> {NoTrack} \cup Asked]
    /\ fee_settled \in BOOLEAN

Early == {"Draft", "Funding"}

(* Nobody sponsors an event that is not published. *)
Unsponsored ==
    phase \in Early => /\ sponsorships = <<>>
                       /\ \A p \in Position : bonus[p] = 0
                       /\ sponsored_fee = 0
                       /\ \A t \in NewTrack : new_track[t] = NoTrack

(* Without a vault there is no money, and no track that was paid for. *)
Unbound ==
    ~ vault_bound => /\ phase \in Early \cup {"Cancelled"}
                     /\ balance = 0
                     /\ With("proposed") = {}

(* The fee is paid once settlement opens. *)
FeeWaits == phase \notin Paying => ~ fee_settled

(* Contributions are aimed at places that are paid out. *)
AimedAtPlaces == \A p \in Position : p \notin Payable => bonus[p] = 0

(* Between ranking and settlement only a withheld track is closed. *)
ClosedIsWithheld == phase = "Finalization" => \A p \in paid : Declared(p[1])

(* Until the ranking closes a sponsor is out of pocket by what cancelling   *)
(* would give back.                                                         *)
Accounts ==
    phase \in Early \cup Running => \A s \in Sponsor : wallet[s] = - Repaid(s)

MoneyInv == Amounts /\ Unsponsored /\ Unbound /\ FeeWaits /\ AimedAtPlaces
                    /\ BonusesAreContributions /\ ClosedIsWithheld /\ Accounts

-----------------------------------------------------------------------------
(***************************************************************************)
(* Amounts.  What the divisions of a prize and of a contribution have in   *)
(* common: they lose nothing, whatever the remainder.                      *)
(***************************************************************************)

(* A prize table is finite and its total is a natural number. *)
LEMMA TableTotal ==
    ASSUME NEW f \in Range(FrozenTable) \cup NewTable
    PROVE  /\ IsTable(f) /\ DOMAIN f \subseteq Rank /\ IsFiniteSet(DOMAIN f)
           /\ NaturalsOn(f, DOMAIN f)
           /\ SumFunction(f) \in Nat
<1>1. IsTable(f) /\ DOMAIN f \subseteq Rank
  BY MoneyAssumption DEF Rank
<1>2. IsFiniteSet(DOMAIN f)
  BY <1>1, PartiesAssumption, FS_Subset
<1>3. NaturalsOn(f, DOMAIN f)
  BY <1>1 DEF IsTable, NaturalsOn
<1> QED
  BY <1>1, <1>2, <1>3, SumNatural DEF SumFunction

(* The table of a frozen track is one of them. *)
LEMMA FrozenTables ==
    ASSUME NEW t \in FrozenTrack
    PROVE  FrozenTable[t] \in Range(FrozenTable) \cup NewTable
BY MoneyAssumption DEF Range

(* The positions are finitely many. *)
LEMMA FinitelyMany ==
    /\ IsFiniteSet(Position) /\ IsFiniteSet(FrozenTrack) /\ IsFiniteSet(NewTrack)
    /\ IsFiniteSet(Party) /\ IsFiniteSet(Sponsor) /\ IsFiniteSet(Member)
<1>1. IsFiniteSet(Position)
  BY PartiesAssumption, FS_Product DEF Position
<1>2. FrozenTrack \subseteq Track /\ NewTrack \subseteq Track
  BY DEF Track
<1>3. Sponsor \subseteq Party /\ Member \subseteq Party
  BY DEF Party
<1> QED
  BY <1>1, <1>2, <1>3, PartiesAssumption, FS_Subset

(* Rounding down leaves a natural number. *)
LEMMA FeeIsNatural ==
    ASSUME NEW amount \in Nat
    PROVE  FeeOn(amount) \in Nat
<1>1. FeeBps \in Nat
  BY MoneyAssumption
<1>2. \A x, y \in Nat : x * y \in Nat
  OBVIOUS
<1>3. \A x \in Nat : x \div 10000 \in Nat
  OBVIOUS
<1> QED
  BY <1>1, <1>2, <1>3 DEF FeeOn

(* The announced prizes add up to a natural number.                         *)
LEMMA PrizeTotalIsNatural == PrizeTotal \in Nat
<1> DEFINE f == [t \in FrozenTrack |-> SumFunction(FrozenTable[t])]
<1>1. NaturalsOn(f, FrozenTrack)
  BY FrozenTables, TableTotal DEF NaturalsOn
<1>2. DOMAIN f = FrozenTrack
  OBVIOUS
<1> HIDE DEF f
<1>3. SumFunctionOnSet(f, FrozenTrack) \in Nat
  BY <1>1, FinitelyMany, SumNatural
<1> QED
  BY <1>2, <1>3 DEF PrizeTotal, SumFunction, f

(* A team's shares of a prize add up to the prize: the members listed first *)
(* take the remainder of the division, a unit each.                         *)
LEMMA SharesOfATeam ==
    ASSUME NEW team \in Team, NEW total \in Nat, NEW f,
           \A m \in MembersOf(team) : f[m] = ShareOf(team, total, m)
    PROVE  /\ NaturalsOn(f, MembersOf(team))
           /\ SumFunctionOnSet(f, MembersOf(team)) = total
<1> DEFINE n == Len(Roster[team])
           h == Roster[team]
           q == total \div n
           k == total % n
           I == 1..n
           extra == [i \in I |-> IF i <= k THEN 1 ELSE 0]
           same  == [i \in I |-> q]
           g == [i \in I |-> q + extra[i]]
<1>1. /\ n \in Nat /\ h \in [I -> Member] /\ IsInjective(h) /\ h # <<>>
      /\ DOMAIN h = I
  BY PartiesAssumption
<1>2. n > 0
  BY <1>1, PartiesAssumption
<1>3. q \in Nat /\ k \in Nat /\ k < n /\ total = n * q + k
  <2> HIDE DEF n
  <2> QED
    BY <1>1, <1>2, Division
<1>4. \A i, j \in I : h[i] = h[j] => i = j
  BY <1>1 DEF IsInjective
<1>5. MembersOf(team) = {h[i] : i \in I}
  BY <1>1 DEF MembersOf, Range
<1>6. \A i \in I : f[h[i]] = g[i]
  <2> SUFFICES ASSUME NEW i \in I PROVE f[h[i]] = g[i]
    OBVIOUS
  <2>1. f[h[i]] = ShareOf(team, total, h[i])
    BY <1>5
  <2>2. (CHOOSE j \in 1..n : h[j] = h[i]) = i
    BY <1>4
  <2>3. ShareOf(team, total, h[i]) = q + (IF i <= k THEN 1 ELSE 0)
    BY <2>2 DEF ShareOf
  <2> QED
    BY <2>1, <2>3
<1> HIDE DEF h, q, k, n
<1>7. IsFiniteSet(I) /\ Cardinality(I) = n
  BY <1>1, <1>2, FS_Interval
<1>8. IntegersOn(extra, I) /\ IntegersOn(same, I) /\ NaturalsOn(g, I) /\ IntegersOn(g, I)
  BY <1>3 DEF IntegersOn, NaturalsOn
<1>9. SumFunctionOnSet(extra, I) = k
  <2> DEFINE K == 1..k
  <2>1. IsFiniteSet(K) /\ Cardinality(K) = k
    BY <1>3, FS_Interval
  <2>2. K \in SUBSET I /\ NaturalsOn(extra, I)
    BY <1>1, <1>3 DEF NaturalsOn
  <2>3. \A i \in K : extra[i] = 1
    BY <1>3, <2>2
  <2>4. \A i \in I \ K : extra[i] = 0
    BY <1>1, <1>3
  <2> HIDE DEF extra, I, K
  <2>5. SumFunctionOnSet(extra, K) = 1 * Cardinality(K)
    BY <2>1, <2>3, SumConstant
  <2>6. SumFunctionOnSet(extra, I \ K) = 0
    <3>1. IsFiniteSet(I \ K)
      BY <1>7, FS_Difference
    <3> QED
      BY <2>4, <3>1, SumZero
  <2>7. SumFunctionOnSet(extra, I) =
          SumFunctionOnSet(extra, K) + SumFunctionOnSet(extra, I \ K)
    BY <1>7, <2>2, SumPart
  <2> QED
    BY <1>3, <2>1, <2>5, <2>6, <2>7
<1>10. SumFunctionOnSet(same, I) = q * n
  <2>1. \A i \in I : same[i] = q
    OBVIOUS
  <2> HIDE DEF same, I
  <2> QED
    BY <1>3, <1>7, <2>1, SumConstant
<1>11. SumFunctionOnSet(g, I) = q * n + k
  <2>1. \A i \in I : g[i] = same[i] + extra[i]
    OBVIOUS
  <2> HIDE DEF g, same, extra, I
  <2> QED
    BY <1>7, <1>8, <1>9, <1>10, <2>1, SumPlus
<1>12. SumFunctionOnSet(g, I) = total
  BY <1>1, <1>3, <1>11
<1> HIDE DEF g, I
<1>13. SumFunctionOnSet(f, {h[i] : i \in I}) = SumFunctionOnSet(g, I)
  BY <1>4, <1>6, <1>7, <1>8, SumReindex
<1>14. NaturalsOn(f, MembersOf(team))
  BY <1>5, <1>6, <1>8 DEF NaturalsOn
<1> QED
  BY <1>5, <1>12, <1>13, <1>14

(* What a track that runs pays for, and what a place of it is worth. *)
LEMMA RunningTables ==
    ASSUME Amounts, NEW t \in RunningTrack
    PROVE  /\ t \in Track
           /\ TiersOf(t) \in Range(FrozenTable) \cup NewTable
           /\ \A r \in DOMAIN TiersOf(t) : /\ <<t, r>> \in Position
                                           /\ TiersOf(t)[r] \in Nat
                                           /\ Worth(<<t, r>>) \in Nat
                                           /\ Worth(<<t, r>>) > 0
<1>1. t \in Track /\ TiersOf(t) \in Range(FrozenTable) \cup NewTable
  <2>1. CASE t \in FrozenTrack
    BY <2>1, FrozenTables DEF TiersOf, Track
  <2>2. CASE t \notin FrozenTrack
    <3>1. t \in NewTrack /\ new_track[t].status = "accepted"
      BY <2>2 DEF RunningTrack, With
    <3>2. new_track[t] \in Asked
      BY <3>1 DEF Amounts, NoTrack
    <3> QED
      BY <2>2, <3>1, <3>2 DEF TiersOf, Track, Asked
  <2> QED
    BY <2>1, <2>2
<1>2. IsTable(TiersOf(t)) /\ DOMAIN TiersOf(t) \subseteq Rank
  BY <1>1, TableTotal
<1> SUFFICES ASSUME NEW r \in DOMAIN TiersOf(t)
             PROVE  /\ <<t, r>> \in Position
                    /\ TiersOf(t)[r] \in Nat
                    /\ Worth(<<t, r>>) \in Nat
                    /\ Worth(<<t, r>>) > 0
  BY <1>1
<1>3. <<t, r>> \in Position
  BY <1>1, <1>2 DEF Position
<1>4. TiersOf(t)[r] \in Nat /\ TiersOf(t)[r] > 0
  BY <1>2 DEF IsTable
<1>5. bonus[<<t, r>>] \in Nat
  BY <1>3 DEF Amounts
<1>6. Worth(<<t, r>>) = TiersOf(t)[r] + bonus[<<t, r>>]
  BY DEF Worth
<1> QED
  BY <1>3, <1>4, <1>5, <1>6

(* The best place of a track is one of its places. *)
LEMMA BestRank ==
    ASSUME NEW f \in Range(FrozenTable) \cup NewTable
    PROVE  Min(DOMAIN f) \in DOMAIN f
<1>1. IsFiniteSet(DOMAIN f) /\ DOMAIN f # {} /\ DOMAIN f \in SUBSET Nat
  BY TableTotal DEF IsTable
<1>2. \E x \in DOMAIN f : \A y \in DOMAIN f : x <= y
  BY <1>1, SmallestMember
<1> QED
  BY <1>2 DEF Min

(* Rounding each part of a sum down loses at most the sum. *)
LEMMA PartsRoundedDown ==
    ASSUME NEW w, NEW share, NEW S, IsFiniteSet(S), NaturalsOn(w, S),
           NEW amount \in Nat, NEW before \in Nat, before > 0,
           before = SumFunctionOnSet(w, S),
           \A r \in S : share[r] = (amount * w[r]) \div before
    PROVE  /\ NaturalsOn(share, S)
           /\ SumFunctionOnSet(share, S) <= amount
<1> DEFINE aw == [r \in S |-> amount * w[r]]
           bs == [r \in S |-> before * share[r]]
<1>0. \A x, y \in Nat : x * y \in Nat
  OBVIOUS
<1>1. \A r \in S : share[r] \in Nat /\ aw[r] \in Nat /\ bs[r] \in Nat /\ bs[r] <= aw[r]
  <2> SUFFICES ASSUME NEW r \in S
               PROVE  /\ share[r] \in Nat /\ aw[r] \in Nat /\ bs[r] \in Nat
                      /\ bs[r] <= aw[r]
    OBVIOUS
  <2>1. aw[r] \in Nat /\ aw[r] = amount * w[r]
    BY <1>0 DEF NaturalsOn
  <2> HIDE DEF aw
  <2>2. share[r] \in Nat /\ before * share[r] <= aw[r]
    <3>1. share[r] = aw[r] \div before
      BY <2>1
    <3>2. aw[r] \div before \in Nat /\ before * (aw[r] \div before) <= aw[r]
      BY <2>1, Division
    <3> QED
      BY <3>1, <3>2
  <2> QED
    BY <1>0, <2>1, <2>2
<1>2. NaturalsOn(share, S) /\ IntegersOn(share, S) /\ IntegersOn(aw, S) /\ IntegersOn(bs, S)
  BY <1>1 DEF NaturalsOn, IntegersOn
<1>3. IntegersOn(w, S)
  BY DEF NaturalsOn, IntegersOn
<1>4. /\ \A r \in S : aw[r] = amount * w[r] /\ bs[r] = before * share[r]
  OBVIOUS
<1> HIDE DEF aw, bs
<1>5. SumFunctionOnSet(aw, S) = amount * before
  BY <1>3, <1>4, SumScaled
<1>6. SumFunctionOnSet(bs, S) = before * SumFunctionOnSet(share, S)
  BY <1>2, <1>4, SumScaled
<1>7. SumFunctionOnSet(bs, S) <= SumFunctionOnSet(aw, S)
  BY <1>1, <1>2, SumAtMost
<1>8. SumFunctionOnSet(share, S) \in Nat
  BY <1>2, SumNatural
<1>9. \A x, y \in Nat : before * x <= y * before => x <= y
  <2> SUFFICES ASSUME NEW x \in Nat, NEW y \in Nat, x >= y + 1
               PROVE  before * x > y * before
    OBVIOUS
  <2>1. before * x >= before * (y + 1)
    OBVIOUS
  <2>2. before * (y + 1) = y * before + before
    OBVIOUS
  <2>3. before * x \in Nat /\ y * before \in Nat
    BY <1>0
  <2> QED
    BY <2>1, <2>2, <2>3
<1> QED
  BY <1>2, <1>5, <1>6, <1>7, <1>8, <1>9

(* A contribution to a whole track reaches its places to the last unit,     *)
(* whichever way it is divided.                                             *)
LEMMA SharesOfAContribution ==
    ASSUME Amounts, NEW t \in RunningTrack, NEW amount \in Nat, NEW split
    PROVE  LET shares == SharesOf(t, amount, split)
           IN  /\ DOMAIN shares = DOMAIN TiersOf(t)
               /\ NaturalsOn(shares, DOMAIN shares)
               /\ SumFunction(shares) = amount
<1> DEFINE ranks  == DOMAIN TiersOf(t)
           w      == [r \in ranks |-> Worth(<<t, r>>)]
           before == SumFunction(w)
           n      == Cardinality(ranks)
           share  == [r \in ranks |-> IF split = "evenly" THEN amount \div n
                                      ELSE (amount * Worth(<<t, r>>)) \div before]
           best   == Min(ranks)
           shares == [share EXCEPT ![best] = @ + (amount - SumFunction(share))]
<1>1. SharesOf(t, amount, split) = shares
  BY DEF SharesOf
<1>2. TiersOf(t) \in Range(FrozenTable) \cup NewTable /\ NaturalsOn(w, ranks)
      /\ \A r \in ranks : w[r] > 0
  BY RunningTables DEF NaturalsOn
<1>3. IsFiniteSet(ranks) /\ ranks # {} /\ best \in ranks
  BY <1>2, TableTotal, BestRank DEF IsTable
<1>4. n \in Nat /\ n > 0
  BY <1>3, FS_CardinalityType, FS_EmptySet
<1>5. DOMAIN w = ranks /\ DOMAIN share = ranks /\ DOMAIN shares = ranks
  OBVIOUS
<1>6. before = SumFunctionOnSet(w, ranks) /\ SumFunction(share) = SumFunctionOnSet(share, ranks)
      /\ SumFunction(shares) = SumFunctionOnSet(shares, ranks)
  BY <1>5, Zenon DEF SumFunction
<1>7. /\ split = "evenly" => \A r \in ranks : share[r] = amount \div n
      /\ split # "evenly" => \A r \in ranks : share[r] = (amount * w[r]) \div before
      /\ \A r \in ranks : r # best => shares[r] = share[r]
      /\ best \in ranks => shares[best] = share[best] + (amount - SumFunction(share))
  OBVIOUS
<1> HIDE DEF shares, share, w, ranks, best, before, n
<1>8. before \in Nat /\ before > 0
  <2>1. before \in Nat /\ w[best] <= before
    BY <1>2, <1>3, <1>6, SumNatural
  <2>2. w[best] \in Nat /\ w[best] > 0
    BY <1>2, <1>3 DEF NaturalsOn
  <2> QED
    BY <2>1, <2>2
<1>9. NaturalsOn(share, ranks) /\ SumFunctionOnSet(share, ranks) <= amount
  <2>1. CASE split = "evenly"
    <3>1. amount \div n \in Nat /\ n * (amount \div n) <= amount
      BY <1>4, Division
    <3> DEFINE each == amount \div n
    <3>2. \A r \in ranks : share[r] = each
      BY <1>7, <2>1
    <3>3. each \in Nat /\ n * each <= amount
      BY <3>1
    <3> HIDE DEF each
    <3>4. SumFunctionOnSet(share, ranks) = each * n
      BY <1>3, <3>2, <3>3, SumConstant DEF n
    <3>5. each * n = n * each
      BY <1>4, <3>3
    <3> QED
      BY <3>2, <3>3, <3>4, <3>5 DEF NaturalsOn
  <2>2. CASE split # "evenly"
    BY <1>2, <1>3, <1>6, <1>7, <1>8, <2>2, PartsRoundedDown
  <2> QED
    BY <2>1, <2>2
<1> DEFINE given == SumFunctionOnSet(share, ranks)
<1>10. given \in Nat /\ given <= amount /\ SumFunction(share) = given
  BY <1>3, <1>6, <1>9, SumNatural
<1> HIDE DEF given
<1>11. shares[best] = share[best] + (amount - given) /\ share[best] \in Nat
  BY <1>3, <1>7, <1>9, <1>10 DEF NaturalsOn
<1>12. shares[best] \in Nat /\ shares[best] - share[best] = amount - given
  BY <1>10, <1>11
<1>13. NaturalsOn(shares, ranks)
  BY <1>7, <1>9, <1>12 DEF NaturalsOn
<1>14. SumFunctionOnSet(shares, ranks) = given + (amount - given)
  <2>1. IntegersOn(shares, ranks) /\ IntegersOn(share, ranks)
    BY <1>9, <1>13, <1>3, SumNatural
  <2>2. SumFunctionOnSet(shares, ranks) =
           SumFunctionOnSet(share, ranks) + (shares[best] - share[best])
    BY <1>3, <1>7, <2>1, SumUpdate
  <2> QED
    BY <1>12, <2>2 DEF given
<1>15. given + (amount - given) = amount
  BY <1>10
<1>16. SumFunction(shares) = amount
  BY <1>6, <1>14, <1>15
<1> QED
  BY <1>1, <1>5, <1>13, <1>16, Zenon DEF ranks

-----------------------------------------------------------------------------
(***************************************************************************)
(* Payments.                                                               *)
(***************************************************************************)

(* What a payment takes from the vault is what the accounts gain.           *)
LEMMA PayMoves ==
    ASSUME Amounts, NEW due \in [Party -> Nat], Pay(due)
    PROVE  /\ SumFunction(due) \in Nat
           /\ SumFunction(due) = SumFunctionOnSet(due, Party)
           /\ balance' \in Nat
           /\ balance' = balance - SumFunction(due)
           /\ balance' <= balance
           /\ wallet' \in [Party -> Int]
           /\ \A p \in Party : wallet'[p] = wallet[p] + due[p]
<1>1. SumFunction(due) = SumFunctionOnSet(due, Party)
  BY DEF SumFunction
<1>2. SumFunctionOnSet(due, Party) \in Nat
  BY FinitelyMany, SumNatural DEF NaturalsOn
<1>3. /\ balance \in Nat /\ SumFunction(due) <= balance
      /\ balance' = balance - SumFunction(due)
  BY DEF Amounts, Pay
<1>4. /\ wallet' = [p \in Party |-> wallet[p] + due[p]]
      /\ wallet \in [Party -> Int]
  BY DEF Amounts, Pay
<1>5. wallet' \in [Party -> Int] /\ \A p \in Party : wallet'[p] = wallet[p] + due[p]
  BY <1>4
<1>6. balance' \in Nat /\ balance' <= balance
  BY <1>1, <1>2, <1>3
<1> QED
  BY <1>1, <1>2, <1>3, <1>5, <1>6

(* A payment to one account is worth what that account is due.              *)
LEMMA ToOne ==
    ASSUME NEW p \in Party, NEW amount \in Nat
    PROVE  /\ To(p, amount) \in [Party -> Nat]
           /\ SumFunction(To(p, amount)) = amount
           /\ To(p, amount)[p] = amount
           /\ \A q \in Party : q # p => To(p, amount)[q] = 0
<1> DEFINE due == To(p, amount)
<1>1. /\ due \in [Party -> Nat] /\ due[p] = amount
      /\ \A q \in Party : q # p => due[q] = 0
      /\ DOMAIN due = Party
  BY DEF To
<1> HIDE DEF due
<1>2. SumFunctionOnSet(due, Party) = amount
  BY <1>1, FinitelyMany, SumOfOne
<1>3. SumFunction(due) = amount
  BY <1>1, <1>2 DEF SumFunction
<1> QED
  BY <1>1, <1>3 DEF due

(* Whether or not the code skips a transfer of nothing, it is a payment.    *)
LEMMA PayNothing ==
    ASSUME Amounts, NEW p \in Party, NEW amount \in Nat,
           IF amount > 0 THEN Pay(To(p, amount)) ELSE UNCHANGED vault
    PROVE  Pay(To(p, amount))
<1>1. CASE amount > 0
  BY <1>1
<1>2. CASE ~ amount > 0
  <2> DEFINE due == To(p, amount)
  <2>1. /\ due \in [Party -> Nat] /\ SumFunction(due) = 0
        /\ \A q \in Party : due[q] = 0
    BY <1>2, ToOne
  <2>2. balance \in Nat /\ wallet \in [Party -> Int]
    BY DEF Amounts
  <2>3. balance' = balance /\ wallet' = wallet
    BY <1>2 DEF vault
  <2> HIDE DEF due
  <2>4. \A q \in Party : wallet[q] + due[q] = wallet[q]
    BY <2>1, <2>2
  <2>5. wallet' = [q \in Party |-> wallet[q] + due[q]]
    BY <2>2, <2>3, <2>4
  <2>6. Pay(due)
    BY <2>1, <2>2, <2>3, <2>5 DEF Pay
  <2> QED
    BY <2>6 DEF due
<1> QED
  BY <1>1, <1>2

(* The two ways to sponsor are one: the shares of a contribution reach      *)
(* places of a track that runs, and add up to it.                           *)
Gift(s, t, amount, shares) ==
    /\ s \in Sponsor /\ t \in RunningTrack
    /\ amount \in Nat /\ amount > 0
    /\ DOMAIN shares \subseteq DOMAIN TiersOf(t)
    /\ NaturalsOn(shares, DOMAIN shares)
    /\ SumFunction(shares) = amount
    /\ Sponsored(s, t, amount, shares)

(* sponsor_tier gives all of a contribution to one place.                   *)
LEMMA ToOnePlace ==
    ASSUME Amounts, NEW s \in Sponsor, NEW t, NEW r, NEW amount \in Amount,
           SponsorTier(s, t, r, amount)
    PROVE  Gift(s, t, amount, [rank \in {r} |-> amount])
<1> DEFINE shares == [rank \in {r} |-> amount]
<1>1. amount \in Nat /\ amount > 0
  BY MoneyAssumption
<1>2. /\ DOMAIN shares = {r} /\ shares[r] = amount /\ NaturalsOn(shares, {r})
  BY <1>1 DEF NaturalsOn
<1>3. /\ t \in RunningTrack /\ r \in DOMAIN TiersOf(t) /\ Sponsored(s, t, amount, shares)
  BY DEF SponsorTier
<1> HIDE DEF shares
<1>4. SumFunctionOnSet(shares, {r}) = shares[r]
  BY <1>1, <1>2, SumOfSingle
<1>5. SumFunction(shares) = amount
  BY <1>2, <1>4 DEF SumFunction
<1> QED
  BY <1>1, <1>2, <1>3, <1>5 DEF Gift, shares

(* sponsor_places gives all of it to the places of a track.                 *)
LEMMA ToAllPlaces ==
    ASSUME Amounts, NEW s \in Sponsor, NEW t, NEW amount \in Amount, NEW split,
           SponsorPlaces(s, t, amount, split)
    PROVE  Gift(s, t, amount, SharesOf(t, amount, split))
<1>1. amount \in Nat /\ amount > 0
  BY MoneyAssumption
<1>2. t \in RunningTrack /\ Sponsored(s, t, amount, SharesOf(t, amount, split))
  BY DEF SponsorPlaces
<1> QED
  BY <1>1, <1>2, SharesOfAContribution DEF Gift

(* The three ways to hand over shares are one: the members recorded are     *)
(* those paid for, each with the share the roster gives.                    *)
Handing(p, who, due) ==
    /\ p \in Payable \ paid /\ p \in Position
    /\ phase = "Settlement" /\ ~ settlement_paused
    /\ ranking[p] # Nobody
    /\ who \in SUBSET (MembersOf(ranking[p]) \ settled[p])
    /\ RecordShares(p, who)
    /\ due \in [Party -> Nat]
    /\ SumFunction(due) = SumFunctionOnSet([m \in who |-> ShareAt(p, m)], who)
    /\ Pay(due)
    /\ UNCHANGED <<lifecycle, ready, pledges, ranking, no_award>>

(* The shares of a position are natural numbers that add up to its worth.   *)
LEMMA SharesAt ==
    ASSUME TreasuryInv, Amounts, NEW p \in Payable, ranking[p] # Nobody
    PROVE  /\ p \in Position /\ ranking[p] \in Team
           /\ Worth(p) \in Nat
           /\ IsFiniteSet(MembersOf(ranking[p])) /\ MembersOf(ranking[p]) \subseteq Member
           /\ \A f : (\A m \in MembersOf(ranking[p]) : f[m] = ShareAt(p, m)) =>
                 /\ NaturalsOn(f, MembersOf(ranking[p]))
                 /\ SumFunctionOnSet(f, MembersOf(ranking[p])) = Worth(p)
           /\ \A m \in MembersOf(ranking[p]) : ShareAt(p, m) \in Nat
<1>1. PICK t \in RunningTrack : p \in Places(t)
  BY DEF Payable
<1>2. p \in Position /\ Worth(p) \in Nat
  BY <1>1, RunningTables DEF Places
<1>3. ranking[p] \in Team
  BY <1>2 DEF TreasuryInv, Records
<1>4. /\ IsFiniteSet(MembersOf(ranking[p])) /\ MembersOf(ranking[p]) \subseteq Member
  BY <1>3, RosterCounts
<1>5. ASSUME NEW f, \A m \in MembersOf(ranking[p]) : f[m] = ShareAt(p, m)
      PROVE  /\ NaturalsOn(f, MembersOf(ranking[p]))
             /\ SumFunctionOnSet(f, MembersOf(ranking[p])) = Worth(p)
  BY <1>2, <1>3, <1>5, SharesOfATeam DEF ShareAt
<1>6. \A m \in MembersOf(ranking[p]) : ShareAt(p, m) \in Nat
  <2> DEFINE f == [m \in MembersOf(ranking[p]) |-> ShareAt(p, m)]
  <2>1. \A m \in MembersOf(ranking[p]) : f[m] = ShareAt(p, m)
    OBVIOUS
  <2>2. NaturalsOn(f, MembersOf(ranking[p]))
    BY <1>5, <2>1
  <2> QED
    BY <2>1, <2>2 DEF NaturalsOn
<1> QED
  BY <1>2, <1>3, <1>4, <1>5, <1>6

(* Where a share that is not claimed goes. *)
LEMMA RefundsReachAnAccount ==
    ASSUME Amounts, NEW t \in RunningTrack
    PROVE  RefundTarget(t) \in Party
<1>1. CASE t \in With("accepted")
  <2>1. t \in NewTrack /\ new_track[t].status = "accepted"
    BY <1>1 DEF With
  <2>2. new_track[t] \in Asked
    BY <2>1 DEF Amounts, NoTrack
  <2> QED
    BY <1>1, <2>2 DEF RefundTarget, Asked, Party
<1>2. CASE t \notin With("accepted")
  BY <1>2 DEF RefundTarget, Party
<1> QED
  BY <1>1, <1>2

(* settle_prize and sweep_share hand over the share of one member.          *)
LEMMA HandingOne ==
    ASSUME TreasuryInv, Amounts, NEW p \in Position, NEW m \in Member, NEW to \in Party,
           phase = "Settlement", ~ settlement_paused, ShareDue(p, m), HandOver(p, m, to)
    PROVE  Handing(p, {m}, To(to, ShareAt(p, m)))
<1>1. p \in Payable \ paid /\ ranking[p] # Nobody
      /\ m \in MembersOf(ranking[p]) /\ {m} \in SUBSET (MembersOf(ranking[p]) \ settled[p])
  BY DEF ShareDue
<1>2. ShareAt(p, m) \in Nat
  BY <1>1, SharesAt
<1>3. RecordShares(p, {m}) /\ UNCHANGED <<lifecycle, ready, pledges, ranking, no_award>>
  BY DEF HandOver
<1>4. Pay(To(to, ShareAt(p, m)))
  BY <1>2, PayNothing DEF HandOver
<1>5. To(to, ShareAt(p, m)) \in [Party -> Nat] /\ SumFunction(To(to, ShareAt(p, m))) = ShareAt(p, m)
  BY <1>2, ToOne
<1>6. SumFunctionOnSet([n \in {m} |-> ShareAt(p, n)], {m}) = ShareAt(p, m)
  <2> DEFINE f == [n \in {m} |-> ShareAt(p, n)]
  <2>1. f[m] = ShareAt(p, m) /\ m \in {m}
    OBVIOUS
  <2> HIDE DEF f
  <2>2. SumFunctionOnSet(f, {m}) = f[m]
    BY <1>2, <2>1, SumOfSingle
  <2> QED
    BY <2>1, <2>2 DEF f
<1> QED
  BY <1>1, <1>3, <1>4, <1>5, <1>6 DEF Handing

(* settle_position hands over the shares of everybody it reaches.           *)
LEMMA HandingSome ==
    ASSUME TreasuryInv, Amounts, NEW p \in Position, SettlePosition(p)
    PROVE  \E who : \E due : Handing(p, who, due)
<1>1. /\ p \in Payable \ paid /\ ranking[p] # Nobody
      /\ phase = "Settlement" /\ ~ settlement_paused
      /\ UNCHANGED <<lifecycle, ready, pledges, ranking, no_award>>
  BY DEF SettlePosition, MoneyMoves
<1>2. PICK who \in SUBSET (MembersOf(ranking[p]) \ settled[p]) :
         /\ RecordShares(p, who)
         /\ Pay([q \in Party |-> IF q \in who THEN ShareAt(p, q) ELSE 0])
  BY DEF SettlePosition
<1> DEFINE due == [q \in Party |-> IF q \in who THEN ShareAt(p, q) ELSE 0]
           f   == [m \in who |-> ShareAt(p, m)]
<1>3. /\ who \subseteq MembersOf(ranking[p]) /\ who \subseteq Party
      /\ \A m \in who : ShareAt(p, m) \in Nat
  BY <1>1, <1>2, SharesAt DEF Party
<1>4. due \in [Party -> Nat] /\ DOMAIN due = Party
  BY <1>3
<1>5. /\ \A q \in Party \ who : due[q] = 0
      /\ \A m \in who : f[m] = due[m]
  BY <1>3
<1> HIDE DEF due, f
<1>6. NaturalsOn(due, Party) /\ who \in SUBSET Party
  BY <1>3, <1>4 DEF NaturalsOn
<1>7. /\ SumFunctionOnSet(due, Party) =
            SumFunctionOnSet(due, who) + SumFunctionOnSet(due, Party \ who)
      /\ SumFunctionOnSet(due, who) \in Nat
      /\ IsFiniteSet(who) /\ IsFiniteSet(Party \ who)
  <2>1. IsFiniteSet(Party \ who)
    BY FinitelyMany, FS_Difference
  <2>2. IsFiniteSet(Party) /\ IsFiniteSet(who)
    BY <1>6, FinitelyMany, FS_Subset
  <2>3. \A T \in SUBSET Party :
          /\ SumFunctionOnSet(due, Party) =
                SumFunctionOnSet(due, T) + SumFunctionOnSet(due, Party \ T)
          /\ SumFunctionOnSet(due, T) \in Nat
    BY <1>6, <2>2, SumPart
  <2> QED
    BY <1>6, <2>1, <2>2, <2>3
<1>8. SumFunctionOnSet(due, Party \ who) = 0
  BY <1>5, <1>7, SumZero
<1>9. SumFunctionOnSet(f, who) = SumFunctionOnSet(due, who)
  <2>1. IntegersOn(due, who)
    BY <1>3, <1>4 DEF IntegersOn
  <2> QED
    BY <1>5, <1>7, <2>1, SumSame
<1>10. SumFunction(due) = SumFunctionOnSet(f, who)
  BY <1>4, <1>7, <1>8, <1>9 DEF SumFunction
<1>11. Handing(p, who, due)
  BY <1>1, <1>2, <1>4, <1>10 DEF Handing, due, f
<1> QED
  BY <1>11

-----------------------------------------------------------------------------
(***************************************************************************)
(* What a step does, told by the calls that move money.                    *)
(***************************************************************************)

Asking(s, t, table) ==
    s \in Sponsor /\ t \in NewTrack /\ table \in NewTable /\ ProposeTrack(s, t, table)

Moving(t) == t \in Track /\ (OpenNoAward(t) \/ \E j \in Judge : ApproveNoAward(j, t))

(* The calls that move money, each reduced to what it moves.                *)
LEMMA MoneySteps ==
    ASSUME TreasuryInv, Amounts, [TreasuryNext]_everything
    PROVE  \/ Elsewhere
           \/ FundAndPublish
           \/ \E from \in {Organizer, Donor}, amount \in Amount : Deposit(from, amount)
           \/ \E p \in Unprepared : Prepare(p)
           \/ \E s, t, amount, shares : Gift(s, t, amount, shares)
           \/ \E s, t, table : Asking(s, t, table)
           \/ \E t \in NewTrack : AcceptTrack(t)
           \/ \E t \in NewTrack : DeclineTrack(t)
           \/ RankTracks
           \/ \E p, who, due : Handing(p, who, due)
           \/ \E p \in Position : SweepUnclaimed(p)
           \/ SettlePlatformFee
           \/ \E t : Moving(t)
           \/ \E t \in Track : ResolveNoAward(t)
           \/ CallOff
           \/ UNCHANGED everything
<1>1. CASE Sponsoring
  <2>1. PICK s \in Sponsor :
           \/ \E t \in Track, amount \in Amount :
                 \/ \E r \in Rank : SponsorTier(s, t, r, amount)
                 \/ \E split \in {"evenly", "by_worth"} : SponsorPlaces(s, t, amount, split)
           \/ \E t \in NewTrack, table \in NewTable : ProposeTrack(s, t, table)
    BY <1>1 DEF Sponsoring
  <2>2. CASE \E t \in NewTrack, table \in NewTable : ProposeTrack(s, t, table)
    BY <2>2, Zenon DEF Asking
  <2>3. ASSUME NEW t \in Track, NEW amount \in Amount,
               \/ \E r \in Rank : SponsorTier(s, t, r, amount)
               \/ \E split \in {"evenly", "by_worth"} : SponsorPlaces(s, t, amount, split)
        PROVE  \E u, a, shares : Gift(s, u, a, shares)
    <3>1. ASSUME NEW r \in Rank, SponsorTier(s, t, r, amount)
          PROVE  \E u, a, shares : Gift(s, u, a, shares)
      <4>1. Gift(s, t, amount, [rank \in {r} |-> amount])
        BY <3>1, ToOnePlace
      <4> QED
        BY <4>1
    <3>2. ASSUME NEW split, SponsorPlaces(s, t, amount, split)
          PROVE  \E u, a, shares : Gift(s, u, a, shares)
      <4>1. Gift(s, t, amount, SharesOf(t, amount, split))
        BY <3>2, ToAllPlaces
      <4> QED
        BY <4>1
    <3> QED
      BY <2>3, <3>1, <3>2
  <2> QED
    BY <2>1, <2>2, <2>3
<1>2. CASE Settling
  <2>1. PICK p \in Position :
           \/ SettlePosition(p)
           \/ SweepUnclaimed(p)
           \/ \E m \in Member : SettlePrize(p, m) \/ SweepShare(p, m)
    BY <1>2 DEF Settling
  <2>2. CASE SettlePosition(p)
    BY <2>2, HandingSome
  <2>3. ASSUME NEW m \in Member, SettlePrize(p, m)
        PROVE  \E q, who, due : Handing(q, who, due)
    <3>1. /\ phase = "Settlement" /\ ~ settlement_paused
          /\ ShareDue(p, m) /\ HandOver(p, m, m) /\ m \in Party
      BY <2>3 DEF SettlePrize, MoneyMoves, Party
    <3>2. Handing(p, {m}, To(m, ShareAt(p, m)))
      BY <3>1, HandingOne
    <3> QED
      BY <3>2
  <2>4. ASSUME NEW m \in Member, SweepShare(p, m)
        PROVE  \E q, who, due : Handing(q, who, due)
    <3>1. /\ phase = "Settlement" /\ ~ settlement_paused
          /\ ShareDue(p, m) /\ HandOver(p, m, RefundTarget(p[1]))
      BY <2>4 DEF SweepShare, Sweepable, MoneyMoves
    <3>2. RefundTarget(p[1]) \in Party
      <4>1. PICK t \in RunningTrack : p \in Places(t)
        BY <3>1 DEF ShareDue, Payable
      <4>2. p[1] = t
        BY <4>1 DEF Places
      <4> QED
        BY <4>2, RefundsReachAnAccount
    <3>3. Handing(p, {m}, To(RefundTarget(p[1]), ShareAt(p, m)))
      BY <3>1, <3>2, HandingOne
    <3> QED
      BY <3>3
  <2> QED
    BY <2>1, <2>2, <2>3, <2>4
<1>3. CASE \E t \in NewTrack : AcceptTrack(t) \/ DeclineTrack(t)
  BY <1>3
<1>4. CASE \E t \in Track : OpenNoAward(t) \/ ResolveNoAward(t)
                          \/ \E j \in Judge : ApproveNoAward(j, t)
  BY <1>4, Zenon DEF Moving
<1> QED
  BY <1>1, <1>2, <1>3, <1>4, Zenon DEF TreasuryNext

(* Where a phase can have come from. *)
LEMMA PhaseCameFrom ==
    ASSUME [Next]_lifecycle
    PROVE  /\ phase' \in Early => phase \in Early
           /\ phase' \in Running => phase \in Early \cup Running
           /\ phase' = "Finalization" => phase \in {"Reveal", "Finalization"}
           /\ phase' \notin Paying => phase \notin Paying
           /\ vault_bound => vault_bound'
           /\ ~ vault_bound' /\ phase \in Early \cup {"Cancelled"} =>
                 phase' \in Early \cup {"Cancelled"}
           /\ phase = "Cancelled" => phase' = "Cancelled"
BY DEF Next, lifecycle, Tick, Configure, LockRules, BindVault, SetUp, Publish,
   AdvancePhase, Advance, Successor, ClosingDeadline, MoveDeadlines, FinalizeResults,
   OpenSettlement, PauseSettlement, ResumeSettlement, Complete, Cancel,
   OpenCancellation, ApproveCancellation, ResolveCancellation, Running, Early, Paying

(* Most calls leave what sponsors promised alone. *)
LEMMA PledgesStand ==
    ASSUME UNCHANGED pledges
    PROVE  /\ \A status : With(status)' = With(status)
           /\ Payable' = Payable
           /\ \A t : PaidFor(t)' = PaidFor(t) /\ RefundTarget(t)' = RefundTarget(t)
                     /\ TiersOf(t)' = TiersOf(t) /\ Places(t)' = Places(t)
           /\ \A p : Worth(p)' = Worth(p)
           /\ \A s : Repaid(s)' = Repaid(s)
           /\ BonusesAreContributions' = BonusesAreContributions
<1>1. UNCHANGED <<sponsorships, bonus, sponsored_fee, new_track>>
  BY DEF pledges
<1>2. \A status : With(status)' = With(status)
  BY <1>1 DEF With
<1>3. \A t : TiersOf(t)' = TiersOf(t) /\ PaidFor(t)' = PaidFor(t)
  BY <1>1 DEF TiersOf, PaidFor
<1>4. \A t : Places(t)' = Places(t)
  BY <1>3 DEF Places
<1>5. Payable' = Payable
  BY <1>2, <1>4 DEF Payable, RunningTrack
<1>6. \A t : RefundTarget(t)' = RefundTarget(t)
  BY <1>1, <1>2 DEF RefundTarget
<1>7. \A p : Worth(p)' = Worth(p)
  BY <1>1, <1>3 DEF Worth
<1>8. \A s : Repaid(s)' = Repaid(s)
  <2>1. \A s : GivenBy(s)' = GivenBy(s) /\ AskedBy(s)' = AskedBy(s)
    BY <1>1, <1>2 DEF GivenBy, AskedBy
  <2> QED
    BY <1>1, <1>3, <2>1 DEF Repaid
<1>9. BonusesAreContributions' = BonusesAreContributions
  BY <1>1 DEF BonusesAreContributions
<1> QED
  BY <1>2, <1>3, <1>4, <1>5, <1>6, <1>7, <1>8, <1>9

(* What a deposit brings is what its payer is out of pocket by. *)
LEMMA ReceiveMoves ==
    ASSUME Amounts, NEW from \in Party, NEW amount \in Nat, Receive(from, amount)
    PROVE  /\ balance' \in Nat /\ balance' = balance + amount
           /\ wallet' \in [Party -> Int]
           /\ wallet'[from] = wallet[from] - amount
           /\ \A p \in Party : p # from => wallet'[p] = wallet[p]
BY DEF Receive, Amounts

(* A track in one of these states was asked for. *)
LEMMA AskedFor ==
    ASSUME Amounts, NEW t \in NewTrack, new_track[t] # NoTrack
    PROVE  /\ new_track[t] \in Asked
           /\ new_track[t].sponsor \in Sponsor
           /\ new_track[t].sponsor \in Party
           /\ new_track[t].table \in NewTable
           /\ new_track[t].fee \in Nat
           /\ PaidFor(t) \in Nat
<1>1. new_track[t] \in Asked
  BY DEF Amounts
<1>2. /\ new_track[t].sponsor \in Sponsor /\ new_track[t].table \in NewTable
      /\ new_track[t].fee \in Nat
  BY <1>1 DEF Asked
<1>3. SumFunction(new_track[t].table) \in Nat
  BY <1>2, TableTotal
<1> QED
  BY <1>1, <1>2, <1>3 DEF PaidFor, Party

(* A request that has a status was made by a sponsor.                       *)
LEMMA StatusesAsked ==
    ASSUME Amounts, NEW t \in NewTrack,
           new_track[t].status \in {"proposed", "accepted", "declined"}
    PROVE  new_track[t] # NoTrack
BY DEF NoTrack

(* What the three calls about a track of its own leave in its record. *)
LEMMA RequestAsked ==
    ASSUME Amounts, NEW s, NEW t, NEW table, Asking(s, t, table)
    PROVE  LET total == SumFunction(table)
               r == [status |-> "proposed", sponsor |-> s, table |-> table,
                     fee |-> FeeOn(total)]
           IN  /\ total \in Nat /\ FeeOn(total) \in Nat
               /\ r \in Asked
               /\ new_track[t] = NoTrack
               /\ new_track'[t] = r
               /\ \A u \in NewTrack : u # t => new_track'[u] = new_track[u]
               /\ new_track' \in [NewTrack -> {NoTrack} \cup Asked]
               /\ Receive(s, total + FeeOn(total))
<1> DEFINE total == SumFunction(table)
           r == [status |-> "proposed", sponsor |-> s, table |-> table,
                 fee |-> FeeOn(total)]
<1>1. s \in Sponsor /\ t \in NewTrack /\ table \in NewTable
  BY DEF Asking
<1>2. total \in Nat /\ FeeOn(total) \in Nat
  BY <1>1, TableTotal, FeeIsNatural
<1>3. r \in Asked
  BY <1>1, <1>2 DEF Asked
<1>4. /\ new_track[t] = NoTrack /\ new_track' = [new_track EXCEPT ![t] = r]
      /\ Receive(s, total + FeeOn(total))
  BY DEF Asking, ProposeTrack
<1>5. new_track \in [NewTrack -> {NoTrack} \cup Asked]
  BY DEF Amounts
<1> HIDE DEF r
<1>6. /\ new_track'[t] = r
      /\ \A u \in NewTrack : u # t => new_track'[u] = new_track[u]
      /\ new_track' \in [NewTrack -> {NoTrack} \cup Asked]
  BY <1>1, <1>3, <1>4, <1>5
<1> QED
  BY <1>2, <1>3, <1>4, <1>6, Zenon DEF r

(* An answer changes the status of a request and nothing else of it.        *)
LEMMA RequestDecided ==
    ASSUME Amounts, NEW t \in NewTrack, AcceptTrack(t) \/ DeclineTrack(t)
    PROVE  /\ new_track[t].status = "proposed" /\ new_track[t] # NoTrack
           /\ new_track'[t].status = IF AcceptTrack(t) THEN "accepted" ELSE "declined"
           /\ new_track'[t].sponsor = new_track[t].sponsor
           /\ new_track'[t].table = new_track[t].table
           /\ new_track'[t].fee = new_track[t].fee
           /\ \A u \in NewTrack : u # t => new_track'[u] = new_track[u]
           /\ new_track' \in [NewTrack -> {NoTrack} \cup Asked]
<1> DEFINE v == IF AcceptTrack(t) THEN "accepted" ELSE "declined"
           r == [new_track[t] EXCEPT !.status = v]
<1>1. /\ new_track[t].status = "proposed"
      /\ new_track' = [new_track EXCEPT ![t] = r]
  BY DEF AcceptTrack, DeclineTrack, With
<1>2. new_track[t] # NoTrack
  BY <1>1 DEF NoTrack
<1>3. new_track[t] \in Asked
  BY <1>2, AskedFor
<1>4. v \in {"proposed", "accepted", "declined"}
  OBVIOUS
<1>5. /\ r \in Asked /\ r.status = v /\ r.sponsor = new_track[t].sponsor
      /\ r.table = new_track[t].table /\ r.fee = new_track[t].fee
  BY <1>3, <1>4 DEF Asked
<1>6. new_track \in [NewTrack -> {NoTrack} \cup Asked]
  BY DEF Amounts
<1> HIDE DEF r
<1>7. /\ new_track'[t] = r
      /\ \A u \in NewTrack : u # t => new_track'[u] = new_track[u]
      /\ new_track' \in [NewTrack -> {NoTrack} \cup Asked]
  BY <1>1, <1>5, <1>6
<1> QED
  BY <1>1, <1>2, <1>5, <1>7

(* A contribution keeps every record of it a natural number. *)
LEMMA GiftAmounts ==
    ASSUME Amounts, NEW s, NEW t, NEW amount, NEW shares, Gift(s, t, amount, shares)
    PROVE  Amounts'
<1>1. /\ s \in Sponsor /\ s \in Party /\ t \in Track
      /\ amount \in Nat /\ FeeOn(amount) \in Nat /\ amount + FeeOn(amount) \in Nat
  BY RunningTables, FeeIsNatural DEF Gift, Party
<1>2. /\ bonus' = [p \in Position |->
                     bonus[p] + IF p[1] = t /\ p[2] \in DOMAIN shares
                                THEN shares[p[2]] ELSE 0]
      /\ sponsored_fee' = sponsored_fee + FeeOn(amount)
      /\ sponsorships' = Append(sponsorships,
             [sponsor |-> s, track |-> t, amount |-> amount, fee |-> FeeOn(amount)])
      /\ Receive(s, amount + FeeOn(amount))
      /\ UNCHANGED <<ready, new_track, fee_settled>>
  BY DEF Gift, Sponsored, payments
<1>3. balance' \in Nat /\ wallet' \in [Party -> Int]
  BY <1>1, <1>2, ReceiveMoves
<1>4. bonus' \in [Position -> Nat]
  <2>1. \A p \in Position : bonus[p] \in Nat
    BY DEF Amounts
  <2>2. \A r \in DOMAIN shares : shares[r] \in Nat
    BY DEF Gift, NaturalsOn
  <2> QED
    BY <1>2, <2>1, <2>2
<1>5. sponsorships' \in Seq(Contribution)
  <2>1. [sponsor |-> s, track |-> t, amount |-> amount, fee |-> FeeOn(amount)] \in Contribution
    BY <1>1 DEF Contribution
  <2> QED
    BY <1>2, <2>1 DEF Amounts
<1>6. sponsored_fee' \in Nat
  BY <1>1, <1>2 DEF Amounts
<1> QED
  BY <1>2, <1>3, <1>4, <1>5, <1>6 DEF Amounts

(* What a withheld track sends back, and what a cancelled event returns to  *)
(* a sponsor, are natural numbers.                                          *)
LEMMA RepaidIsNatural ==
    ASSUME Amounts, NEW s
    PROVE  /\ IsFiniteSet(DOMAIN sponsorships)
           /\ IsFiniteSet(GivenBy(s)) /\ IsFiniteSet(AskedBy(s))
           /\ \A i \in DOMAIN sponsorships : /\ sponsorships[i].amount \in Nat
                                             /\ sponsorships[i].fee \in Nat
                                             /\ sponsorships[i].track \in Track
                                             /\ sponsorships[i].sponsor \in Sponsor
           /\ \A t \in AskedBy(s) : PaidFor(t) \in Nat
           /\ Repaid(s) \in Nat
<1>1. /\ sponsorships \in Seq(Contribution) /\ IsFiniteSet(DOMAIN sponsorships)
      /\ \A i \in DOMAIN sponsorships : sponsorships[i] \in Contribution
  <2>1. sponsorships \in Seq(Contribution) /\ Len(sponsorships) \in Nat
        /\ DOMAIN sponsorships = 1..Len(sponsorships)
    BY DEF Amounts
  <2>2. IsFiniteSet(1..Len(sponsorships))
    BY <2>1, FS_Interval
  <2> QED
    BY <2>1, <2>2
<1>2. \A i \in DOMAIN sponsorships : /\ sponsorships[i].amount \in Nat
                                     /\ sponsorships[i].fee \in Nat
                                     /\ sponsorships[i].track \in Track
                                     /\ sponsorships[i].sponsor \in Sponsor
  BY <1>1 DEF Contribution
<1>3. /\ GivenBy(s) \in SUBSET DOMAIN sponsorships /\ AskedBy(s) \in SUBSET NewTrack
  BY DEF GivenBy, AskedBy, With
<1>4. IsFiniteSet(GivenBy(s)) /\ IsFiniteSet(AskedBy(s))
  BY <1>1, <1>3, FinitelyMany, FS_Subset
<1>5. \A t \in AskedBy(s) : PaidFor(t) \in Nat
  <2> SUFFICES ASSUME NEW t \in AskedBy(s) PROVE PaidFor(t) \in Nat
    OBVIOUS
  <2>1. t \in NewTrack /\ new_track[t].status \in {"proposed", "accepted", "declined"}
    BY DEF AskedBy, With
  <2> QED
    BY <2>1, StatusesAsked, AskedFor
<1> DEFINE f == [i \in GivenBy(s) |-> sponsorships[i].amount + sponsorships[i].fee]
           g == [t \in AskedBy(s) |-> PaidFor(t)]
<1>6. NaturalsOn(f, GivenBy(s)) /\ NaturalsOn(g, AskedBy(s))
  BY <1>2, <1>3, <1>5 DEF NaturalsOn
<1>7. DOMAIN f = GivenBy(s) /\ DOMAIN g = AskedBy(s)
  OBVIOUS
<1>8. Repaid(s) = SumFunction(f) + SumFunction(g)
  BY DEF Repaid
<1> HIDE DEF f, g
<1>9. SumFunction(f) \in Nat /\ SumFunction(g) \in Nat
  BY <1>4, <1>6, <1>7, SumNatural DEF SumFunction
<1>10. Repaid(s) \in Nat
  BY <1>8, <1>9
<1> QED
  BY <1>1, <1>2, <1>4, <1>5, <1>10

(* The worth of a track is its table and the contributions aimed at it, and *)
(* withholding it sends all of that back: the table along the refund route, *)
(* the contributions to whoever made them.                                  *)
LEMMA WithheldIsTheWorth ==
    ASSUME Amounts, BonusesAreContributions, AimedAtPlaces,
           NEW t \in RunningTrack, Places(t) \cap paid = {}
    PROVE  /\ IsFiniteSet(Places(t))
           /\ Withheld(t) \in [Party -> Nat]
           /\ SumFunction(Withheld(t)) = SumFunctionOnSet([p \in Places(t) |-> Worth(p)], Places(t))
<1> DEFINE P      == Places(t)
           D      == DOMAIN sponsorships
           table  == [q \in P |-> TiersOf(t)[q[2]]]
           added  == [q \in P |-> bonus[q]]
           worth  == [q \in P |-> Worth(q)]
           target == RefundTarget(t)
           own    == [p \in Party |-> IF p = target THEN SumFunction(table) ELSE 0]
           By(p)  == {k \in D : sponsorships[k].track = t /\ sponsorships[k].sponsor = p}
           amount == [i \in D |-> sponsorships[i].amount]
           given  == [p \in Party |-> SumFunction([i \in By(p) |-> sponsorships[i].amount])]
           due    == [p \in Party |-> own[p] + given[p]]
<1>1. P \in SUBSET Position /\ IsFiniteSet(P) /\ t \in Track
  <2>1. P \in SUBSET Position /\ t \in Track
    BY RunningTables DEF Places
  <2> QED
    BY <2>1, FinitelyMany, FS_Subset
<1>2. /\ P \ paid = P
      /\ Withheld(t) = due
  <2>1. P \ paid = P
    OBVIOUS
  <2> QED
    BY <2>1 DEF Withheld
<1>3. \A q \in P : /\ TiersOf(t)[q[2]] \in Nat /\ bonus[q] \in Nat
                   /\ Worth(q) = TiersOf(t)[q[2]] + bonus[q]
                   /\ q[1] = t
  <2> SUFFICES ASSUME NEW r \in DOMAIN TiersOf(t)
               PROVE  /\ TiersOf(t)[r] \in Nat /\ bonus[<<t, r>>] \in Nat
                      /\ Worth(<<t, r>>) = TiersOf(t)[r] + bonus[<<t, r>>]
    BY DEF Places
  <2>1. <<t, r>> \in Position /\ TiersOf(t)[r] \in Nat
    BY RunningTables
  <2> QED
    BY <2>1 DEF Amounts, Worth
<1>4. /\ NaturalsOn(table, P) /\ NaturalsOn(added, P) /\ IntegersOn(table, P) /\ IntegersOn(added, P)
      /\ \A q \in P : worth[q] = table[q] + added[q]
  BY <1>3 DEF NaturalsOn, IntegersOn
<1>5. /\ SumFunctionOnSet(table, P) \in Nat
      /\ SumFunction(table) = SumFunctionOnSet(table, P)
  <2>1. SumFunction(table) = SumFunctionOnSet(table, P)
    BY DEF SumFunction
  <2> HIDE DEF table, P
  <2> QED
    BY <1>1, <1>4, <2>1, SumNatural
<1>6. SumFunctionOnSet(worth, P) = SumFunctionOnSet(table, P) + SumFunctionOnSet(added, P)
  <2> HIDE DEF table, added, worth, P
  <2> QED
    BY <1>1, <1>4, SumPlus
\* What is added to the places of the track is all that was aimed at it.
<1>7. SumFunctionOnSet(added, P) =
         SumFunctionOnSet(amount, {k \in D : sponsorships[k].track = t})
  <2> DEFINE R == {t} \X Rank
             b == [p \in R |-> bonus[p]]
             K == {k \in D : sponsorships[k].track = t}
             a == [i \in K |-> sponsorships[i].amount]
  <2>1. SumFunction(b) = SumFunction(a)
    BY <1>1 DEF BonusesAreContributions
  <2>2. SumFunction(b) = SumFunctionOnSet(b, R) /\ SumFunction(a) = SumFunctionOnSet(a, K)
    BY DEF SumFunction
  <2>3. R \in SUBSET Position /\ IsFiniteSet(R) /\ P \in SUBSET R
    <3>1. R \in SUBSET Position
      BY <1>1 DEF Position
    <3>2. P \in SUBSET R
      BY <1>1 DEF Places, Position
    <3> QED
      BY <3>1, <3>2, FinitelyMany, FS_Subset
  <2>4. NaturalsOn(b, R)
    BY <2>3 DEF Amounts, NaturalsOn
  <2>5. \A p \in R \ P : b[p] = 0
    <3> SUFFICES ASSUME NEW r \in Rank, <<t, r>> \notin P PROVE bonus[<<t, r>>] = 0
      OBVIOUS
    <3>1. <<t, r>> \notin Payable
      BY DEF Payable, Places
    <3>2. <<t, r>> \in Position
      BY <1>1 DEF Position
    <3> QED
      BY <3>1, <3>2 DEF AimedAtPlaces
  <2>6. \A p \in P : added[p] = b[p]
    BY <2>3
  <2>7. \A i \in K : amount[i] = a[i] /\ a[i] \in Nat
    BY RepaidIsNatural
  <2>8. IsFiniteSet(K)
    <3>1. K \in SUBSET D
      OBVIOUS
    <3> HIDE DEF K
    <3> QED
      BY <3>1, RepaidIsNatural, FS_Subset
  <2> HIDE DEF R, b, K, a, added, amount, P
  <2>9. /\ SumFunctionOnSet(b, R) = SumFunctionOnSet(b, P) + SumFunctionOnSet(b, R \ P)
        /\ SumFunctionOnSet(b, P) \in Nat
    BY <2>3, <2>4, SumPart
  <2>10. SumFunctionOnSet(b, R \ P) = 0
    BY <2>3, <2>5, SumZero, FS_Difference
  <2>11. SumFunctionOnSet(added, P) = SumFunctionOnSet(b, P)
    <3>1. IntegersOn(b, P)
      BY <2>3, <2>4 DEF NaturalsOn, IntegersOn
    <3> QED
      BY <1>1, <2>6, <3>1, SumSame
  <2>12. SumFunctionOnSet(amount, K) = SumFunctionOnSet(a, K)
    <3>1. IntegersOn(a, K)
      BY <2>7 DEF IntegersOn
    <3> QED
      BY <2>7, <2>8, <3>1, SumSame
  <2>13. SumFunctionOnSet(added, P) = SumFunctionOnSet(amount, K)
    <3>1. SumFunctionOnSet(b, R) = SumFunctionOnSet(b, P)
      BY <2>9, <2>10
    <3> QED
      BY <2>1, <2>2, <2>11, <2>12, <3>1
  <2> QED
    BY <2>13 DEF K
\* Everybody's contributions to the track are all contributions to it.
<1>8. /\ NaturalsOn(given, Party)
      /\ SumFunctionOnSet(given, Party) =
            SumFunctionOnSet(amount, {k \in D : sponsorships[k].track = t})
  <2> DEFINE F == [p \in Party |-> By(p)]
             A(p) == [i \in By(p) |-> sponsorships[i].amount]
  <2>1. \A p \in Party : IsFiniteSet(F[p]) /\ F[p] \in SUBSET D
    <3>1. \A p \in Party : F[p] \in SUBSET D
      OBVIOUS
    <3> HIDE DEF F, D
    <3> QED
      BY <3>1, RepaidIsNatural, FS_Subset DEF D
  <2>2. NaturalsOn(amount, D)
    BY RepaidIsNatural DEF NaturalsOn
  <2>3. \A p \in Party : IntegersOn(amount, F[p]) /\ NaturalsOn(amount, F[p])
    BY <2>1, <2>2 DEF NaturalsOn, IntegersOn
  <2>4. \A p \in Party : /\ given[p] = SumFunctionOnSet(amount, F[p])
                         /\ given[p] \in Nat
    <3> SUFFICES ASSUME NEW p \in Party
                 PROVE  /\ given[p] = SumFunctionOnSet(amount, F[p])
                        /\ given[p] \in Nat
      OBVIOUS
    <3>1. given[p] = SumFunctionOnSet(A(p), F[p])
      BY DEF SumFunction
    <3>2. \A i \in F[p] : A(p)[i] = amount[i]
      OBVIOUS
    <3> HIDE DEF F, A, amount, given, D
    <3>3. SumFunctionOnSet(A(p), F[p]) = SumFunctionOnSet(amount, F[p])
      BY <2>1, <2>3, <3>2, SumSame
    <3>4. SumFunctionOnSet(amount, F[p]) \in Nat
      BY <2>1, <2>3, SumNatural
    <3> QED
      BY <3>1, <3>3, <3>4
  <2> DEFINE U == {k \in D : sponsorships[k].track = t}
  <2>5. Divides(F, Party, U)
    <3>1. \A k \in D : sponsorships[k].sponsor \in Party
      BY RepaidIsNatural DEF Party
    <3>2. \A k : k \in U <=> \E p \in Party : k \in F[p]
      BY <3>1
    <3>3. \A p, q \in Party : p # q => F[p] \cap F[q] = {}
      OBVIOUS
    <3> QED
      BY <3>2, <3>3 DEF Divides
  <2> HIDE DEF F, U, amount, given, D
  <2>6. SumFunctionOnSet(amount, U) = SumFunctionOnSet(given, Party)
    <3>1. IsFiniteSet(Party)
      BY FinitelyMany
    <3>2. \A p \in Party : IsFiniteSet(F[p]) /\ IntegersOn(amount, F[p])
      BY <2>1, <2>3
    <3>3. \A p \in Party : given[p] = SumFunctionOnSet(amount, F[p])
      BY <2>4
    <3> QED
      BY <2>5, <3>1, <3>2, <3>3, SumFamily
  <2> QED
    BY <2>4, <2>6 DEF NaturalsOn, U
<1>9. /\ NaturalsOn(own, Party)
      /\ SumFunctionOnSet(own, Party) = SumFunctionOnSet(table, P)
  <2>1. target \in Party
    BY RefundsReachAnAccount
  <2>2. /\ own[target] = SumFunctionOnSet(table, P)
        /\ \A p \in Party : p # target => own[p] = 0
        /\ NaturalsOn(own, Party)
    BY <1>5, <2>1 DEF NaturalsOn
  <2> HIDE DEF own, target, table, P
  <2> QED
    BY <1>5, <2>1, <2>2, FinitelyMany, SumOfOne
<1>10. /\ \A p \in Party : due[p] = own[p] + given[p]
       /\ DOMAIN due = Party
       /\ due \in [Party -> Nat]
  <2>1. \A p \in Party : own[p] \in Nat /\ given[p] \in Nat
    BY <1>8, <1>9 DEF NaturalsOn
  <2> HIDE DEF own, given
  <2> QED
    BY <2>1
<1> HIDE DEF own, given, due, table, added, worth, amount
<1>11. SumFunctionOnSet(due, Party) = SumFunctionOnSet(own, Party) + SumFunctionOnSet(given, Party)
  <2>1. IntegersOn(own, Party) /\ IntegersOn(given, Party)
    BY <1>8, <1>9, FinitelyMany, SumNatural
  <2> QED
    BY <1>10, <2>1, FinitelyMany, SumPlus
<1>12. SumFunction(due) = SumFunctionOnSet(worth, P)
  BY <1>6, <1>7, <1>8, <1>9, <1>10, <1>11 DEF SumFunction
<1> QED
  BY <1>1, <1>2, <1>10, <1>12 DEF worth

(* Returning the pool hands out the whole balance.                          *)
LEMMA ReturnIsTheBalance ==
    ASSUME Amounts, vault_bound, ReturnThePool
    PROVE  \E due \in [Party -> Nat] :
              /\ Pay(due)
              /\ SumFunction(due) = balance
              /\ \A s \in Sponsor : due[s] = Repaid(s)
<1> DEFINE back   == [s \in Sponsor |-> Repaid(s)]
           repaid == SumFunction(back)
           due    == [p \in Party |-> CASE p \in Sponsor   -> Repaid(p)
                                        [] p = Organizer  -> balance - repaid
                                        [] OTHER          -> 0]
<1>1. repaid <= balance /\ Pay(due)
  BY DEF ReturnThePool
<1>2. NaturalsOn(back, Sponsor) /\ DOMAIN back = Sponsor
  BY RepaidIsNatural DEF NaturalsOn
<1>3. repaid = SumFunctionOnSet(back, Sponsor) /\ repaid \in Nat
  <2> HIDE DEF back
  <2> QED
    BY <1>2, FinitelyMany, SumNatural DEF SumFunction
<1>4. /\ Organizer \in Party /\ Organizer \notin Sponsor /\ Sponsor \in SUBSET Party
      /\ balance \in Nat
  BY PartiesAssumption DEF Party, Amounts
<1> HIDE DEF repaid
<1>5. /\ \A s \in Sponsor : due[s] = Repaid(s)
      /\ due[Organizer] = balance - repaid
      /\ \A p \in Party \ Sponsor : p # Organizer => due[p] = 0
      /\ DOMAIN due = Party
  BY <1>4
<1>6. \A p \in Party : due[p] \in Nat
  <2>1. \A s \in Sponsor : Repaid(s) \in Nat
    BY RepaidIsNatural
  <2>2. balance - repaid \in Nat
    BY <1>1, <1>3, <1>4
  <2> HIDE DEF due
  <2> QED
    BY <1>5, <2>1, <2>2
<1>7. due \in [Party -> Nat]
  <2>1. due = [p \in Party |-> due[p]]
    OBVIOUS
  <2> HIDE DEF due
  <2> QED
    BY <1>6, <2>1
<1>8. \A s \in Sponsor : due[s] = back[s]
  BY <1>5
<1> HIDE DEF due, back
<1>9. SumFunctionOnSet(due, Party) =
         SumFunctionOnSet(due, Sponsor) + SumFunctionOnSet(due, Party \ Sponsor)
  BY <1>4, <1>6, FinitelyMany, SumPart DEF NaturalsOn
<1>10. SumFunctionOnSet(due, Sponsor) = repaid
  <2>1. IntegersOn(back, Sponsor)
    BY <1>2, FinitelyMany, SumNatural
  <2> QED
    BY <1>3, <1>8, <2>1, FinitelyMany, SumSame
<1>11. SumFunctionOnSet(due, Party \ Sponsor) = balance - repaid
  <2>1. IsFiniteSet(Party \ Sponsor) /\ Organizer \in Party \ Sponsor /\ due[Organizer] \in Int
    <3>1. IsFiniteSet(Party \ Sponsor)
      BY FinitelyMany, FS_Difference
    <3> QED
      BY <1>4, <1>6, <3>1
  <2>2. SumFunctionOnSet(due, Party \ Sponsor) = due[Organizer]
    BY <1>5, <2>1, SumOfOne
  <2> QED
    BY <1>5, <2>2
<1>12. SumFunction(due) = balance
  BY <1>3, <1>4, <1>5, <1>9, <1>10, <1>11 DEF SumFunction
<1> QED
  BY <1>1, <1>5, <1>7, <1>12

-----------------------------------------------------------------------------
(***************************************************************************)
(* The inductive invariant.                                                *)
(***************************************************************************)

(* A payable position is a place of a track that runs. *)
LEMMA PayableIsAPlace ==
    ASSUME Amounts, NEW p \in Payable
    PROVE  /\ p \in Position /\ p[1] \in RunningTrack /\ p \in Places(p[1])
           /\ Worth(p) \in Nat /\ Worth(p) > 0
           /\ RefundTarget(p[1]) \in Party
<1>1. PICK t \in RunningTrack : p \in Places(t)
  BY DEF Payable
<1>2. PICK r \in DOMAIN TiersOf(t) : p = <<t, r>>
  BY <1>1 DEF Places
<1>3. p[1] = t
  BY <1>2
<1> QED
  BY <1>1, <1>2, <1>3, RunningTables, RefundsReachAnAccount

(* The fee is a natural number, and settling it is a payment of it.         *)
LEMMA FeePayment ==
    ASSUME Amounts, SettlePlatformFee
    PROVE  LET fee == FeeOn(PrizeTotal) + sponsored_fee
           IN  /\ fee \in Nat
               /\ Pay(To(Platform, fee))
<1> DEFINE fee == FeeOn(PrizeTotal) + sponsored_fee
<1>1. fee \in Nat
  BY PrizeTotalIsNatural, FeeIsNatural DEF Amounts
<1>2. IF fee > 0 THEN Pay(To(Platform, fee)) ELSE UNCHANGED vault
  BY DEF SettlePlatformFee
<1> HIDE DEF fee
<1>3. Pay(To(Platform, fee))
  BY <1>1, <1>2, PayNothing DEF Party
<1> QED
  BY <1>1, <1>3 DEF fee

(* A track that is about to be withheld has no closed place.                *)
LEMMA NothingClosedYet ==
    ASSUME TreasuryInv, MoneyInv, NEW t \in Track, ResolveNoAward(t)
    PROVE  /\ t \in RunningTrack
           /\ Places(t) \cap paid = {}
           /\ ~ Declared(t)
<1>1. /\ phase = "Finalization" /\ no_award[t].open /\ ~ no_award[t].resolved
  BY DEF ResolveNoAward
<1>2. t \in RunningTrack /\ ~ Declared(t)
  BY <1>1 DEF TreasuryInv, MovesAreAboutTracks, Declared
<1>3. \A p \in Places(t) : p[1] = t
  BY DEF Places
<1> QED
  BY <1>1, <1>2, <1>3 DEF MoneyInv, ClosedIsWithheld

(* Every amount on record stays a natural number, and the vault never pays  *)
(* out of a balance it does not have.                                       *)
LEMMA AmountsStep ==
    ASSUME TreasuryInv, MoneyInv, [TreasuryNext]_everything
    PROVE  Amounts'
<1>0. Amounts
  BY DEF MoneyInv
<1>1. ASSUME UNCHANGED <<ready, pledges>>, balance' \in Nat, wallet' \in [Party -> Int],
             fee_settled' \in BOOLEAN
      PROVE  Amounts'
  BY <1>0, <1>1 DEF Amounts, pledges
<1>2. ASSUME NEW due \in [Party -> Nat], Pay(due), UNCHANGED <<ready, pledges>>,
             fee_settled' \in BOOLEAN
      PROVE  Amounts'
  BY <1>0, <1>1, <1>2, PayMoves
<1>3. ASSUME UNCHANGED <<vault, ready, pledges, fee_settled>>
      PROVE  Amounts'
  BY <1>0, <1>3 DEF Amounts, pledges, vault
<1>4. CASE Elsewhere
  BY <1>3, <1>4 DEF Elsewhere, treasury, payments
<1>5. CASE FundAndPublish
  <2>1. RequiredFunding \in Nat
    BY PrizeTotalIsNatural, FeeIsNatural DEF RequiredFunding
  <2>2. UNCHANGED <<ready, pledges, fee_settled>>
    BY <1>5 DEF FundAndPublish, payments
  <2> DEFINE missing == RequiredFunding - balance
  <2>3. IF missing > 0 THEN Receive(Organizer, missing) ELSE UNCHANGED vault
    BY <1>5 DEF FundAndPublish
  <2>4. missing \in Int
    BY <1>0, <2>1 DEF Amounts
  <2> HIDE DEF missing
  <2>5. CASE missing > 0
    <3>1. Organizer \in Party /\ missing \in Nat /\ Receive(Organizer, missing)
      BY <2>3, <2>4, <2>5 DEF Party
    <3>2. balance' \in Nat /\ wallet' \in [Party -> Int]
      BY <1>0, <3>1, ReceiveMoves
    <3> QED
      BY <1>0, <1>1, <2>2, <3>2 DEF Amounts
  <2>6. CASE ~ missing > 0
    BY <1>3, <2>2, <2>3, <2>6
  <2> QED
    BY <2>5, <2>6
<1>6. ASSUME NEW from \in {Organizer, Donor}, NEW amount \in Amount, Deposit(from, amount)
      PROVE  Amounts'
  <2>1. /\ from \in Party /\ amount \in Nat /\ Receive(from, amount)
        /\ UNCHANGED <<ready, pledges, fee_settled>>
    BY <1>6, MoneyAssumption DEF Deposit, payments, Party
  <2>2. balance' \in Nat /\ wallet' \in [Party -> Int]
    BY <1>0, <2>1, ReceiveMoves
  <2> QED
    BY <1>0, <1>1, <2>1, <2>2 DEF Amounts
<1>7. ASSUME NEW p \in Unprepared, Prepare(p)
      PROVE  Amounts'
  BY <1>0, <1>7, PartiesAssumption DEF Prepare, Amounts, vault, pledges, payments
<1>8. ASSUME NEW s, NEW t, NEW amount, NEW shares, Gift(s, t, amount, shares)
      PROVE  Amounts'
  BY <1>0, <1>8, GiftAmounts
<1>9. ASSUME NEW s, NEW t, NEW table, Asking(s, t, table)
      PROVE  Amounts'
  <2> DEFINE total == SumFunction(table)
  <2>1. /\ total \in Nat /\ FeeOn(total) \in Nat
        /\ new_track' \in [NewTrack -> {NoTrack} \cup Asked]
        /\ Receive(s, total + FeeOn(total))
    BY <1>0, <1>9, RequestAsked
  <2>2. s \in Party /\ UNCHANGED <<ready, sponsorships, bonus, sponsored_fee, fee_settled>>
    BY <1>9 DEF Asking, ProposeTrack, payments, Party
  <2>3. total + FeeOn(total) \in Nat
    BY <2>1
  <2> HIDE DEF total
  <2>4. balance' \in Nat /\ wallet' \in [Party -> Int]
    BY <1>0, <2>1, <2>2, <2>3, ReceiveMoves
  <2> QED
    BY <1>0, <2>1, <2>2, <2>4 DEF Amounts
<1>10. ASSUME NEW t \in NewTrack, AcceptTrack(t)
       PROVE  Amounts'
  <2>1. /\ new_track' \in [NewTrack -> {NoTrack} \cup Asked] /\ new_track[t].fee \in Nat
    BY <1>0, <1>10, RequestDecided, AskedFor
  <2>2. /\ UNCHANGED <<balance, wallet, ready, sponsorships, bonus, fee_settled>>
        /\ sponsored_fee' = sponsored_fee + new_track[t].fee
    BY <1>10 DEF AcceptTrack, vault, payments
  <2> QED
    BY <1>0, <2>1, <2>2 DEF Amounts
<1>11. ASSUME NEW t \in NewTrack, DeclineTrack(t)
       PROVE  Amounts'
  <2> DEFINE due == To(new_track[t].sponsor, PaidFor(t))
  <2>1. /\ new_track' \in [NewTrack -> {NoTrack} \cup Asked]
        /\ new_track[t].sponsor \in Party /\ PaidFor(t) \in Nat
    BY <1>0, <1>11, RequestDecided, AskedFor
  <2>2. /\ UNCHANGED <<ready, sponsorships, bonus, sponsored_fee, fee_settled>>
        /\ Pay(due)
    BY <1>11 DEF DeclineTrack, payments
  <2>3. due \in [Party -> Nat]
    BY <2>1, ToOne
  <2> HIDE DEF due
  <2>4. balance' \in Nat /\ wallet' \in [Party -> Int]
    BY <1>0, <2>2, <2>3, PayMoves
  <2> QED
    BY <1>0, <2>1, <2>2, <2>4 DEF Amounts
<1>12. CASE RankTracks
  BY <1>3, <1>12 DEF RankTracks, payments
<1>13. ASSUME NEW p, NEW who, NEW due, Handing(p, who, due)
       PROVE  Amounts'
  <2>1. /\ due \in [Party -> Nat] /\ Pay(due) /\ UNCHANGED <<ready, pledges, fee_settled>>
    BY <1>13 DEF Handing, RecordShares
  <2> QED
    BY <1>0, <1>2, <2>1 DEF Amounts
<1>14. ASSUME NEW p \in Position, SweepUnclaimed(p)
       PROVE  Amounts'
  <2> DEFINE due == To(RefundTarget(p[1]), Worth(p))
  <2>1. /\ p \in Payable /\ Pay(due) /\ UNCHANGED <<ready, pledges, fee_settled>>
    BY <1>14 DEF SweepUnclaimed, Sweepable
  <2>2. due \in [Party -> Nat]
    BY <1>0, <2>1, PayableIsAPlace, ToOne
  <2> HIDE DEF due
  <2> QED
    BY <1>0, <1>2, <2>1, <2>2 DEF Amounts
<1>15. CASE SettlePlatformFee
  <2> DEFINE fee == FeeOn(PrizeTotal) + sponsored_fee
             due == To(Platform, fee)
  <2>1. fee \in Nat /\ Pay(due)
    BY <1>0, <1>15, FeePayment
  <2>2. due \in [Party -> Nat]
    BY <2>1, ToOne DEF Party
  <2>3. UNCHANGED <<ready, pledges>> /\ fee_settled' = TRUE
    BY <1>15 DEF SettlePlatformFee
  <2> HIDE DEF due
  <2> QED
    BY <1>2, <2>1, <2>2, <2>3
<1>16. ASSUME NEW t, Moving(t)
       PROVE  Amounts'
  BY <1>3, <1>16 DEF Moving, OpenNoAward, ApproveNoAward, payments
<1>17. ASSUME NEW t \in Track, ResolveNoAward(t)
       PROVE  Amounts'
  <2>1. UNCHANGED <<ready, pledges, fee_settled>>
    BY <1>17 DEF ResolveNoAward
  <2>2. CASE no_award[t].approvals >= NoAwardThreshold
    <3>1. Pay(Withheld(t))
      BY <1>17, <2>2 DEF ResolveNoAward
    <3>2. Withheld(t) \in [Party -> Nat]
      BY <1>17, NothingClosedYet, WithheldIsTheWorth DEF MoneyInv
    <3> QED
      BY <1>0, <1>2, <2>1, <3>1, <3>2 DEF Amounts
  <2>3. CASE ~ no_award[t].approvals >= NoAwardThreshold
    BY <1>3, <1>17, <2>1, <2>3 DEF ResolveNoAward
  <2> QED
    BY <2>2, <2>3
<1>18. CASE CallOff
  <2>1. UNCHANGED <<ready, pledges, fee_settled>> /\ ReturnThePool
    BY <1>18 DEF CallOff, payments
  <2>2. CASE vault_bound
    <3>1. PICK due \in [Party -> Nat] : Pay(due)
      BY <1>0, <2>1, <2>2, ReturnIsTheBalance
    <3> QED
      BY <1>0, <1>2, <2>1, <3>1 DEF Amounts
  <2>3. CASE ~ vault_bound
    BY <1>3, <2>1, <2>3 DEF ReturnThePool
  <2> QED
    BY <2>2, <2>3
<1>19. CASE UNCHANGED everything
  BY <1>3, <1>19 DEF everything, treasury, payments
<1> QED
  BY <1>0, <1>4, <1>5, <1>6, <1>7, <1>8, <1>9, <1>10, <1>11, <1>12, <1>13, <1>14, <1>15,
     <1>16, <1>17, <1>18, <1>19, MoneySteps

(* Most calls leave what sponsors promised alone; four write it.            *)
LEMMA WhoWritesPledges ==
    ASSUME TreasuryInv, Amounts, [TreasuryNext]_everything
    PROVE  \/ UNCHANGED pledges
           \/ \E s, t, amount, shares : Gift(s, t, amount, shares)
           \/ \E s, t, table : Asking(s, t, table)
           \/ \E t \in NewTrack : AcceptTrack(t)
           \/ \E t \in NewTrack : DeclineTrack(t)
<1>1. Elsewhere \/ FundAndPublish \/ RankTracks \/ SettlePlatformFee \/ CallOff
         \/ UNCHANGED everything => UNCHANGED pledges
  BY DEF Elsewhere, FundAndPublish, RankTracks, SettlePlatformFee, CallOff, everything, treasury
<1>2. \A from, amount : Deposit(from, amount) => UNCHANGED pledges
  BY DEF Deposit
<1>3. \A p : Prepare(p) \/ SweepUnclaimed(p) => UNCHANGED pledges
  BY DEF Prepare, SweepUnclaimed
<1>4. \A p, who, due : Handing(p, who, due) => UNCHANGED pledges
  BY DEF Handing
<1>5. \A t : Moving(t) \/ ResolveNoAward(t) => UNCHANGED pledges
  BY DEF Moving, OpenNoAward, ApproveNoAward, ResolveNoAward
<1> QED
  BY <1>1, <1>2, <1>3, <1>4, <1>5, MoneySteps, Zenon

(* When the calls that do may be made. *)
LEMMA WhenPledgesMove ==
    ASSUME MoneyInv
    PROVE  /\ \A s, t, amount, shares : Gift(s, t, amount, shares) => phase \in Running
           /\ \A s, t, table : Asking(s, t, table) => phase = "Open"
           /\ \A t \in NewTrack : AcceptTrack(t) => phase = "Open"
           /\ \A t \in NewTrack : DeclineTrack(t) => phase \notin Early /\ vault_bound
           /\ phase \in Running => vault_bound
<1>1. /\ \A s, t, amount, shares : Gift(s, t, amount, shares) => phase \in Running
      /\ \A s, t, table : Asking(s, t, table) => phase = "Open"
      /\ \A t \in NewTrack : AcceptTrack(t) => phase = "Open"
  BY DEF Gift, Sponsored, OpenToSponsors, Asking, ProposeTrack, AcceptTrack
<1>2. ASSUME NEW t \in NewTrack, DeclineTrack(t)
      PROVE  phase \notin Early /\ vault_bound
  <2>1. t \in With("proposed")
    BY <1>2 DEF DeclineTrack
  <2>2. new_track[t] # NoTrack
    BY <2>1 DEF With, NoTrack
  <2> QED
    BY <2>1, <2>2 DEF MoneyInv, Unsponsored, Unbound
<1>3. phase \in Running => vault_bound
  BY DEF MoneyInv, Unbound, Running, Early
<1> QED
  BY <1>1, <1>2, <1>3

(* No contribution and no request is taken before publication.              *)
LEMMA UnsponsoredStep ==
    ASSUME TreasuryInv, MoneyInv, [TreasuryNext]_everything
    PROVE  Unsponsored'
<1> SUFFICES ASSUME phase' \in Early
             PROVE  /\ sponsorships' = <<>>
                    /\ \A p \in Position : bonus'[p] = 0
                    /\ sponsored_fee' = 0
                    /\ \A t \in NewTrack : new_track'[t] = NoTrack
  BY DEF Unsponsored
<1>1. phase \in Early
  BY StepOfTheLifecycle, PhaseCameFrom
<1>2. phase \notin Running /\ phase # "Open"
  BY <1>1 DEF Early, Running
<1>3. UNCHANGED pledges
  BY <1>1, <1>2, WhoWritesPledges, WhenPledgesMove DEF MoneyInv
<1> QED
  BY <1>1, <1>3 DEF MoneyInv, Unsponsored, pledges

(* Nothing is taken in before a vault is bound.                             *)
LEMMA UnboundStep ==
    ASSUME TreasuryInv, MoneyInv, [TreasuryNext]_everything
    PROVE  Unbound'
<1> SUFFICES ASSUME ~ vault_bound'
             PROVE  /\ phase' \in Early \cup {"Cancelled"}
                    /\ balance' = 0
                    /\ With("proposed")' = {}
  BY DEF Unbound
<1>1. /\ ~ vault_bound /\ phase \in Early \cup {"Cancelled"}
      /\ balance = 0 /\ With("proposed") = {}
  BY StepOfTheLifecycle, PhaseCameFrom DEF MoneyInv, Unbound
<1>2. phase' \in Early \cup {"Cancelled"}
  BY <1>1, StepOfTheLifecycle, PhaseCameFrom
<1>3. phase \notin Running /\ phase \notin {"Open", "Reveal", "Finalization", "Settlement"}
  BY <1>1 DEF Early, Running
<1>4. UNCHANGED pledges
  BY <1>1, <1>3, WhoWritesPledges, WhenPledgesMove DEF MoneyInv
<1>5. UNCHANGED balance
  <2>1. Elsewhere \/ RankTracks \/ UNCHANGED everything => UNCHANGED balance
    BY DEF Elsewhere, RankTracks, everything, treasury, vault
  <2>2. ~ FundAndPublish
    BY DEF FundAndPublish, SetUp
  <2>3. \A from, amount : ~ Deposit(from, amount)
    BY <1>1 DEF Deposit
  <2>4. \A p : /\ Prepare(p) => UNCHANGED balance
               /\ ~ SweepUnclaimed(p)
    BY <1>3 DEF Prepare, vault, SweepUnclaimed, Sweepable, MoneyMoves
  <2>5. /\ \A s, t, amount, shares : ~ Gift(s, t, amount, shares)
        /\ \A s, t, table : ~ Asking(s, t, table)
        /\ \A t \in NewTrack : ~ AcceptTrack(t) /\ ~ DeclineTrack(t)
    BY <1>1, <1>3, WhenPledgesMove
  <2>6. /\ \A p, who, due : ~ Handing(p, who, due)
        /\ ~ SettlePlatformFee
        /\ \A t : ~ ResolveNoAward(t)
    BY <1>3 DEF Handing, SettlePlatformFee, MoneyMoves, ResolveNoAward
  <2>7. \A t : Moving(t) => UNCHANGED balance
    BY DEF Moving, OpenNoAward, ApproveNoAward, vault
  <2>8. CallOff => UNCHANGED balance
    BY <1>1 DEF CallOff, ReturnThePool, vault
  <2> QED
    BY <2>1, <2>2, <2>3, <2>4, <2>5, <2>6, <2>7, <2>8, MoneySteps DEF MoneyInv
<1> QED
  BY <1>1, <1>2, <1>4, <1>5, PledgesStand

(* The fee is settled in Settlement and nowhere else.                       *)
LEMMA FeeWaitsStep ==
    ASSUME TreasuryInv, MoneyInv, [TreasuryNext]_everything
    PROVE  FeeWaits'
<1> SUFFICES ASSUME phase' \notin Paying PROVE ~ fee_settled'
  BY DEF FeeWaits
<1>1. phase \notin Paying /\ ~ fee_settled
  BY StepOfTheLifecycle, PhaseCameFrom DEF MoneyInv, FeeWaits
<1>2. UNCHANGED fee_settled
  <2>1. Elsewhere \/ FundAndPublish \/ RankTracks \/ CallOff
           \/ UNCHANGED everything => UNCHANGED fee_settled
    BY DEF Elsewhere, FundAndPublish, RankTracks, CallOff, everything, treasury, payments
  <2>2. \A from, amount : Deposit(from, amount) => UNCHANGED fee_settled
    BY DEF Deposit, payments
  <2>3. \A p : Prepare(p) \/ SweepUnclaimed(p) => UNCHANGED fee_settled
    BY DEF Prepare, SweepUnclaimed, payments
  <2>4. /\ \A s, t, amount, shares : Gift(s, t, amount, shares) => UNCHANGED fee_settled
        /\ \A s, t, table : Asking(s, t, table) => UNCHANGED fee_settled
        /\ \A t \in NewTrack : AcceptTrack(t) \/ DeclineTrack(t) => UNCHANGED fee_settled
    BY DEF Gift, Sponsored, Asking, ProposeTrack, AcceptTrack, DeclineTrack, payments
  <2>5. /\ \A p, who, due : Handing(p, who, due) => UNCHANGED fee_settled
        /\ ~ SettlePlatformFee
    BY <1>1 DEF Handing, RecordShares, SettlePlatformFee, MoneyMoves, Paying
  <2>6. \A t : Moving(t) \/ ResolveNoAward(t) => UNCHANGED fee_settled
    BY DEF Moving, OpenNoAward, ApproveNoAward, ResolveNoAward, payments
  <2> QED
    BY <2>1, <2>2, <2>3, <2>4, <2>5, <2>6, MoneySteps DEF MoneyInv
<1> QED
  BY <1>1, <1>2

(* A place that took a contribution goes on being paid out.                 *)
LEMMA AimedAtPlacesStep ==
    ASSUME TreasuryInv, MoneyInv, [TreasuryNext]_everything
    PROVE  AimedAtPlaces'
<1>0. Amounts /\ Records
  BY DEF MoneyInv, TreasuryInv
<1>1. Payable \subseteq Payable'
  <2> SUFFICES ASSUME NEW t \in RunningTrack PROVE Places(t) \subseteq Payable'
    BY DEF Payable
  <2>1. t \in RunningTrack' /\ Places(t)' = Places(t)
    BY <1>0, TracksStand
  <2> QED
    BY <2>1 DEF Payable
<1>2. \A p \in Position : p \notin Payable => bonus[p] = 0
  BY DEF MoneyInv, AimedAtPlaces
<1>3. CASE UNCHANGED bonus
  BY <1>1, <1>2, <1>3 DEF AimedAtPlaces
<1>4. ASSUME NEW s, NEW t, NEW amount, NEW shares, Gift(s, t, amount, shares)
      PROVE  AimedAtPlaces'
  <2>1. /\ t \in RunningTrack /\ DOMAIN shares \subseteq DOMAIN TiersOf(t)
        /\ bonus' = [p \in Position |->
                       bonus[p] + IF p[1] = t /\ p[2] \in DOMAIN shares
                                  THEN shares[p[2]] ELSE 0]
    BY <1>4 DEF Gift, Sponsored
  <2>2. \A p \in Position : p[1] = t /\ p[2] \in DOMAIN shares => p \in Payable
    <3>1. \A r \in DOMAIN shares : <<t, r>> \in Payable
      BY <2>1 DEF Payable, Places
    <3> QED
      BY <3>1 DEF Position
  <2> QED
    BY <1>1, <1>2, <2>1, <2>2 DEF AimedAtPlaces
<1>5. \/ UNCHANGED bonus
      \/ \E s, t, amount, shares : Gift(s, t, amount, shares)
  BY <1>0, WhoWritesPledges DEF pledges, Asking, ProposeTrack, AcceptTrack, DeclineTrack
<1> QED
  BY <1>3, <1>4, <1>5

(* In Finalization only a declared no award closes a position.              *)
LEMMA ClosedIsWithheldStep ==
    ASSUME TreasuryInv, MoneyInv, TypeOK, [TreasuryNext]_everything
    PROVE  ClosedIsWithheld'
<1> SUFFICES ASSUME phase' = "Finalization", NEW p \in paid'
             PROVE  Declared(p[1])'
  BY DEF ClosedIsWithheld
<1>1. phase \in {"Reveal", "Finalization"}
  BY StepOfTheLifecycle, PhaseCameFrom
<1>2. \A q \in paid : q[1] \in Track /\ Declared(q[1])
  BY <1>1 DEF TreasuryInv, Unranked, Ranked, Records, Position, MoneyInv, ClosedIsWithheld
<1>3. CASE UNCHANGED book
  BY <1>2, <1>3 DEF book, Declared
<1>4. CASE RankTracks
  BY <1>2, <1>4 DEF RankTracks, payments, Declared
<1>5. ~ Sharing /\ \A q : ~ SweepUnclaimed(q)
  BY <1>1 DEF Sharing, SweepUnclaimed, Sweepable, MoneyMoves
<1>6. ASSUME NEW t \in Track, OpenNoAward(t) \/ \E j \in Judge : ApproveNoAward(j, t)
      PROVE  Declared(p[1])'
  <2>1. UNCHANGED paid /\ ~ Declared(t)
        /\ \E case : no_award' = [no_award EXCEPT ![t] = case]
    BY <1>6 DEF OpenNoAward, ApproveNoAward, Declared, payments, TreasuryInv, MovesAreAboutTracks
  <2>2. p[1] # t /\ p[1] \in Track /\ Declared(p[1])
    BY <1>2, <2>1
  <2>3. no_award'[p[1]] = no_award[p[1]]
    BY <2>1, <2>2 DEF TreasuryInv, Records
  <2> QED
    BY <2>2, <2>3 DEF Declared
<1>7. ASSUME NEW t \in Track, ResolveNoAward(t)
      PROVE  Declared(p[1])'
  <2>1. /\ no_award' = [no_award EXCEPT ![t].resolved = TRUE]
        /\ IF no_award[t].approvals >= NoAwardThreshold
           THEN paid' = paid \cup Places(t) ELSE paid' = paid
    BY <1>7 DEF ResolveNoAward
  <2>2. /\ no_award \in [Track -> [open : BOOLEAN, resolved : BOOLEAN, opened_at : Nat,
                                   approvals : Nat, signed : SUBSET Judge]]
        /\ ~ Declared(t)
    BY <1>7, NothingClosedYet DEF TreasuryInv, Records
  <2>3. CASE p \in paid
    <3>1. p[1] # t /\ p[1] \in Track /\ Declared(p[1])
      BY <1>2, <2>2, <2>3
    <3>2. no_award'[p[1]] = no_award[p[1]]
      BY <2>1, <2>2, <3>1
    <3> QED
      BY <3>1, <3>2 DEF Declared
  <2>4. CASE p \notin paid
    <3>1. p \in Places(t) /\ no_award[t].approvals >= NoAwardThreshold
      BY <2>1, <2>4
    <3>2. p[1] = t
      BY <3>1 DEF Places
    <3>3. no_award'[t].resolved /\ no_award'[t].approvals = no_award[t].approvals
      BY <2>1, <2>2
    <3> QED
      BY <3>1, <3>2, <3>3 DEF Declared
  <2> QED
    BY <2>3, <2>4
<1> QED
  BY <1>3, <1>4, <1>5, <1>6, <1>7, WhoWritesTheBook

-----------------------------------------------------------------------------
(***************************************************************************)
(* Contributions, and what a sponsor is out of pocket by.                  *)
(***************************************************************************)

(* What each place gains by a contribution. *)
Gain(t, shares) ==
    [p \in Position |-> IF p[1] = t /\ p[2] \in DOMAIN shares THEN shares[p[2]] ELSE 0]

(* Wherever the places of the track are counted, they gain the amount.      *)
LEMMA GiftReaches ==
    ASSUME Amounts, NEW s, NEW t, NEW amount, NEW shares, Gift(s, t, amount, shares),
           NEW R \in SUBSET Position, \A r \in DOMAIN TiersOf(t) : <<t, r>> \in R
    PROVE  /\ IsFiniteSet(R)
           /\ NaturalsOn(Gain(t, shares), R)
           /\ SumFunctionOnSet(Gain(t, shares), R) = amount
           /\ \A p \in Position : bonus'[p] = bonus[p] + Gain(t, shares)[p]
<1> DEFINE gain == Gain(t, shares)
           D == DOMAIN shares
           h == [r \in D |-> <<t, r>>]
           K == {h[r] : r \in D}
<1>1. /\ t \in RunningTrack /\ D \subseteq DOMAIN TiersOf(t)
      /\ NaturalsOn(shares, D) /\ SumFunctionOnSet(shares, D) = amount
      /\ bonus' = [p \in Position |->
                     bonus[p] + IF p[1] = t /\ p[2] \in DOMAIN shares
                                THEN shares[p[2]] ELSE 0]
  BY DEF Gift, Sponsored, SumFunction
<1>2. IsFiniteSet(D)
  <2>1. IsFiniteSet(DOMAIN TiersOf(t))
    BY <1>1, RunningTables, TableTotal
  <2> QED
    BY <1>1, <2>1, FS_Subset
<1>3. IsFiniteSet(R)
  BY FinitelyMany, FS_Subset
<1>4. K \in SUBSET R
  BY <1>1
<1>5. /\ \A r \in D : gain[h[r]] = shares[r]
      /\ \A p \in R : gain[p] \in Nat
      /\ \A p \in R \ K : gain[p] = 0
  <2>1. \A r \in D : gain[h[r]] = shares[r]
    BY <1>4 DEF Gain
  <2>2. \A p \in R : gain[p] \in Nat
    BY <1>1 DEF Gain, NaturalsOn
  <2>3. ASSUME NEW p \in R \ K
        PROVE  gain[p] = 0
    <3>1. ~ (p[1] = t /\ p[2] \in D)
      <4> SUFFICES ASSUME p[1] = t, p[2] \in D PROVE FALSE
        OBVIOUS
      <4>1. p = h[p[2]]
        BY DEF Position
      <4> QED
        BY <4>1
    <3> QED
      BY <3>1 DEF Gain
  <2> QED
    BY <2>1, <2>2, <2>3
<1>6. \A x, y \in D : h[x] = h[y] => x = y
  OBVIOUS
<1>7. \A p \in Position : bonus'[p] = bonus[p] + gain[p]
  BY <1>1 DEF Gain
<1> HIDE DEF gain, h, D
<1>8. SumFunctionOnSet(gain, K) = SumFunctionOnSet(shares, D)
  <2>1. IntegersOn(shares, D)
    BY <1>1, <1>2, SumNatural
  <2> QED
    BY <1>2, <1>5, <1>6, <2>1, SumReindex
<1> HIDE DEF K
<1>9. /\ NaturalsOn(gain, R)
      /\ SumFunctionOnSet(gain, R) =
            SumFunctionOnSet(gain, K) + SumFunctionOnSet(gain, R \ K)
      /\ SumFunctionOnSet(gain, K) \in Nat
  <2>1. NaturalsOn(gain, R)
    BY <1>5 DEF NaturalsOn
  <2> QED
    BY <1>3, <1>4, <2>1, SumPart
<1>10. SumFunctionOnSet(gain, R \ K) = 0
  <2>1. IsFiniteSet(R \ K)
    BY <1>3, FS_Difference
  <2> QED
    BY <1>5, <2>1, SumZero
<1>11. SumFunctionOnSet(gain, R) = amount
  BY <1>1, <1>8, <1>9, <1>10
<1> QED
  BY <1>3, <1>7, <1>9, <1>11 DEF gain

(* It is filed behind those that came before it.                            *)
LEMMA GiftFiled ==
    ASSUME Amounts, NEW s, NEW t, NEW amount, NEW shares, Gift(s, t, amount, shares)
    PROVE  LET n == Len(sponsorships) + 1
           IN  /\ n \notin DOMAIN sponsorships
               /\ DOMAIN sponsorships' = DOMAIN sponsorships \cup {n}
               /\ \A i \in DOMAIN sponsorships : sponsorships'[i] = sponsorships[i]
               /\ sponsorships'[n].sponsor = s
               /\ sponsorships'[n].track = t
               /\ sponsorships'[n].amount = amount
               /\ sponsorships'[n].fee = FeeOn(amount)
<1> DEFINE n == Len(sponsorships) + 1
           r == [sponsor |-> s, track |-> t, amount |-> amount, fee |-> FeeOn(amount)]
<1>1. sponsorships' = Append(sponsorships, r) /\ sponsorships \in Seq(Contribution)
  BY DEF Gift, Sponsored, Amounts
<1>2. /\ r.sponsor = s /\ r.track = t /\ r.amount = amount /\ r.fee = FeeOn(amount)
      /\ r \in Contribution
  BY RunningTables, FeeIsNatural DEF Gift, Contribution
<1> HIDE DEF r
<1>3. /\ Len(sponsorships) \in Nat
      /\ DOMAIN sponsorships = 1..Len(sponsorships)
      /\ sponsorships' \in Seq(Contribution) /\ Len(sponsorships') = n
      /\ DOMAIN sponsorships' = 1..n
      /\ sponsorships'[n] = r
      /\ \A i \in 1..Len(sponsorships) : sponsorships'[i] = sponsorships[i]
  BY <1>1, <1>2
<1>4. n \notin DOMAIN sponsorships /\ DOMAIN sponsorships' = DOMAIN sponsorships \cup {n}
  BY <1>3
<1> QED
  BY <1>2, <1>3, <1>4

(* A contribution adds as much to the places of its track as to the list of *)
(* contributions to it, and nothing to any other track.                     *)
LEMMA BonusStep ==
    ASSUME TreasuryInv, MoneyInv, [TreasuryNext]_everything
    PROVE  BonusesAreContributions'
<1>0. Amounts /\ BonusesAreContributions
  BY DEF MoneyInv
<1>1. CASE UNCHANGED pledges
  BY <1>0, <1>1, PledgesStand
<1>2. CASE UNCHANGED <<sponsorships, bonus>>
  <2>1. sponsorships' = sponsorships /\ bonus' = bonus
    BY <1>2, Zenon
  <2>2. BonusesAreContributions
    BY <1>0, Zenon
  <2> SUFFICES ASSUME NEW t \in Track
               PROVE  SumFunction([p \in {t} \X Rank |-> bonus'[p]]) =
                      SumFunction([i \in {k \in DOMAIN sponsorships' :
                                             sponsorships'[k].track = t}
                                      |-> sponsorships'[i].amount])
    BY Zenon DEF BonusesAreContributions
  <2>3. SumFunction([p \in {t} \X Rank |-> bonus[p]]) =
        SumFunction([i \in {k \in DOMAIN sponsorships : sponsorships[k].track = t}
                        |-> sponsorships[i].amount])
    BY <2>2, Zenon DEF BonusesAreContributions
  <2> QED
    BY <2>1, <2>3
<1>3. ASSUME NEW s, NEW t, NEW amount, NEW shares, Gift(s, t, amount, shares)
      PROVE  BonusesAreContributions'
  <2> DEFINE D == DOMAIN sponsorships
             n == Len(sponsorships) + 1
             R(u) == {u} \X Rank
             K(u) == {k \in D : sponsorships[k].track = u}
             L(u) == {k \in DOMAIN sponsorships' : sponsorships'[k].track = u}
             b(u) == [p \in R(u) |-> bonus[p]]
             c(u) == [p \in R(u) |-> bonus'[p]]
             a(u) == [i \in K(u) |-> sponsorships[i].amount]
             e(u) == [i \in L(u) |-> sponsorships'[i].amount]
  <2>1. t \in RunningTrack /\ t \in Track /\ amount \in Nat
    BY <1>0, <1>3, RunningTables DEF Gift
  <2>2. /\ n \notin D
        /\ DOMAIN sponsorships' = D \cup {n}
        /\ \A i \in D : sponsorships'[i] = sponsorships[i]
        /\ sponsorships'[n].track = t /\ sponsorships'[n].amount = amount
    BY <1>0, <1>3, GiftFiled
  <2> HIDE DEF n
  <2> SUFFICES ASSUME NEW u \in Track PROVE SumFunction(c(u)) = SumFunction(e(u))
    BY DEF BonusesAreContributions
  <2>3. SumFunction(b(u)) = SumFunction(a(u))
    BY <1>0 DEF BonusesAreContributions
  <2>4. R(u) \in SUBSET Position
    BY DEF Position
  <2>5. CASE u = t
    <3>1. /\ IsFiniteSet(R(t)) /\ NaturalsOn(Gain(t, shares), R(t))
          /\ SumFunctionOnSet(Gain(t, shares), R(t)) = amount
          /\ \A p \in Position : bonus'[p] = bonus[p] + Gain(t, shares)[p]
      <4>1. \A r \in DOMAIN TiersOf(t) : <<t, r>> \in R(t)
        BY <1>0, <2>1, RunningTables DEF Position
      <4>2. R(t) \in SUBSET Position
        BY <2>4, <2>5
      <4> HIDE DEF R
      <4> QED
        BY <1>0, <1>3, <4>1, <4>2, GiftReaches
    <3>2. NaturalsOn(b(t), R(t)) /\ \A p \in R(t) : c(t)[p] = b(t)[p] + Gain(t, shares)[p]
      BY <1>0, <2>4, <2>5, <3>1 DEF Amounts, NaturalsOn
    <3>3. /\ L(t) = K(t) \cup {n} /\ n \notin K(t)
          /\ \A i \in K(t) : e(t)[i] = a(t)[i]
          /\ e(t)[n] = amount
      BY <2>2
    <3>4. IsFiniteSet(K(t)) /\ NaturalsOn(a(t), K(t))
      <4>1. K(t) \in SUBSET D
        OBVIOUS
      <4>2. NaturalsOn(a(t), K(t))
        BY <1>0, RepaidIsNatural DEF NaturalsOn
      <4> HIDE DEF K
      <4> QED
        BY <1>0, <4>1, <4>2, RepaidIsNatural, FS_Subset
    <3>5. /\ SumFunction(c(t)) = SumFunctionOnSet(c(t), R(t))
          /\ SumFunction(b(t)) = SumFunctionOnSet(b(t), R(t))
          /\ SumFunction(a(t)) = SumFunctionOnSet(a(t), K(t))
          /\ SumFunction(e(t)) = SumFunctionOnSet(e(t), L(t))
      BY DEF SumFunction
    <3> HIDE DEF c, b, a, e, R, K, L
    <3>8. Extends(e(t), a(t), K(t), n) /\ e(t)[n] \in Nat
      BY <2>1, <3>3 DEF Extends
    <3>6. SumFunctionOnSet(c(t), R(t)) =
             SumFunctionOnSet(b(t), R(t)) + SumFunctionOnSet(Gain(t, shares), R(t))
      BY <3>1, <3>2, SumNatural, SumPlus
    <3>7. SumFunctionOnSet(e(t), K(t) \cup {n}) = SumFunctionOnSet(a(t), K(t)) + e(t)[n]
      BY <3>4, <3>8, SumExtended
    <3> QED
      BY <2>3, <2>5, <3>1, <3>3, <3>5, <3>6, <3>7
  <2>6. CASE u # t
    <3>1. c(u) = b(u)
      <4>1. \A p \in R(u) : bonus'[p] = bonus[p]
        <5> SUFFICES ASSUME NEW p \in R(u) PROVE bonus'[p] = bonus[p]
          OBVIOUS
        <5>1. p \in Position /\ p[1] # t /\ bonus[p] \in Nat
          BY <1>0, <2>4, <2>6 DEF Amounts
        <5>2. bonus' = [q \in Position |->
                         bonus[q] + IF q[1] = t /\ q[2] \in DOMAIN shares
                                    THEN shares[q[2]] ELSE 0]
          BY <1>3 DEF Gift, Sponsored
        <5> QED
          BY <5>1, <5>2
      <4> QED
        BY <4>1
    <3>2. e(u) = a(u)
      <4>1. L(u) = K(u) /\ \A i \in K(u) : sponsorships'[i] = sponsorships[i]
        BY <2>2, <2>6
      <4> QED
        BY <4>1
    <3> QED
      BY <2>3, <3>1, <3>2
  <2> QED
    BY <2>5, <2>6
<1>4. \/ UNCHANGED pledges \/ UNCHANGED <<sponsorships, bonus>>
      \/ \E s, t, amount, shares : Gift(s, t, amount, shares)
  BY <1>0, WhoWritesPledges DEF Asking, ProposeTrack, AcceptTrack, DeclineTrack
<1> QED
  BY <1>1, <1>2, <1>3, <1>4

(* Whoever asked for a track is due what it brought until it is declined.   *)
LEMMA RequestsAreDue ==
    ASSUME Amounts, NEW t \in NewTrack, NEW s
    PROVE  /\ (\E u, table : Asking(u, t, table)) => t \notin AskedBy(s)
           /\ \A table : Asking(s, t, table) =>
                 /\ AskedBy(s)' = AskedBy(s) \cup {t}
                 /\ PaidFor(t)' = SumFunction(table) + FeeOn(SumFunction(table))
           /\ \A u, table : Asking(u, t, table) /\ u # s => AskedBy(s)' = AskedBy(s)
           /\ AcceptTrack(t) => AskedBy(s)' = AskedBy(s) /\ PaidFor(t)' = PaidFor(t)
           /\ DeclineTrack(t) =>
                 /\ AskedBy(s)' = AskedBy(s) \ {t}
                 /\ t \in AskedBy(s) <=> new_track[t].sponsor = s
           /\ (\E u, table : Asking(u, t, table)) \/ AcceptTrack(t) \/ DeclineTrack(t) =>
                 \A v \in NewTrack : v # t => PaidFor(v)' = PaidFor(v)
<1> DEFINE Live == {"proposed", "accepted"}
           Mine(v) == new_track[v].status \in Live /\ new_track[v].sponsor = s
<1>1. AskedBy(s) = {v \in NewTrack : Mine(v)}
  BY DEF AskedBy, With
<1>2. AskedBy(s)' = {v \in NewTrack : Mine(v)'}
  BY DEF AskedBy, With
<1>3. ASSUME NEW u, NEW table, Asking(u, t, table)
      PROVE  /\ ~ Mine(t)
             /\ \A v \in NewTrack : v # t => Mine(v)' = Mine(v) /\ PaidFor(v)' = PaidFor(v)
             /\ Mine(t)' <=> u = s
             /\ PaidFor(t)' = SumFunction(table) + FeeOn(SumFunction(table))
  <2>1. /\ new_track[t] = NoTrack
        /\ new_track'[t] = [status |-> "proposed", sponsor |-> u, table |-> table,
                            fee |-> FeeOn(SumFunction(table))]
        /\ \A v \in NewTrack : v # t => new_track'[v] = new_track[v]
    BY <1>3, RequestAsked
  <2> QED
    BY <2>1 DEF NoTrack, PaidFor
<1>4. ASSUME AcceptTrack(t) \/ DeclineTrack(t)
      PROVE  /\ \A v \in NewTrack : v # t => Mine(v)' = Mine(v) /\ PaidFor(v)' = PaidFor(v)
             /\ PaidFor(t)' = PaidFor(t)
             /\ Mine(t) <=> new_track[t].sponsor = s
             /\ AcceptTrack(t) => (Mine(t)' <=> Mine(t))
             /\ DeclineTrack(t) => ~ Mine(t)'
  <2>1. ~ (AcceptTrack(t) /\ DeclineTrack(t))
    <3> SUFFICES ASSUME AcceptTrack(t), DeclineTrack(t) PROVE FALSE
      OBVIOUS
    <3>1. new_track[t] \in Asked
      BY RequestDecided, AskedFor
    <3>2. /\ new_track' = [new_track EXCEPT ![t].status = "accepted"]
          /\ new_track' = [new_track EXCEPT ![t].status = "declined"]
      BY DEF AcceptTrack, DeclineTrack
    <3> QED
      BY <3>1, <3>2 DEF Asked, Amounts
  <2>2. /\ new_track[t].status = "proposed"
        /\ new_track'[t].status = IF AcceptTrack(t) THEN "accepted" ELSE "declined"
        /\ new_track'[t].sponsor = new_track[t].sponsor
        /\ new_track'[t].table = new_track[t].table
        /\ new_track'[t].fee = new_track[t].fee
        /\ \A u \in NewTrack : u # t => new_track'[u] = new_track[u]
    BY <1>4, RequestDecided
  <2>3. /\ PaidFor(t)' = PaidFor(t)
        /\ \A v \in NewTrack : v # t => Mine(v)' = Mine(v) /\ PaidFor(v)' = PaidFor(v)
    BY <2>2 DEF PaidFor
  <2>4. AcceptTrack(t) => new_track'[t].status = "accepted"
    BY <2>2
  <2>5. DeclineTrack(t) => new_track'[t].status = "declined"
    BY <2>1, <2>2
  <2> QED
    BY <2>2, <2>3, <2>4, <2>5
<1> HIDE DEF Mine
<1> QED
  BY <1>1, <1>2, <1>3, <1>4

(* Until the ranking closes, what a sponsor is out of pocket by is what     *)
(* cancelling would give back.                                              *)
LEMMA AccountsStep ==
    ASSUME TreasuryInv, MoneyInv, [TreasuryNext]_everything
    PROVE  Accounts'
<1>0. Amounts
  BY DEF MoneyInv
<1> SUFFICES ASSUME phase' \in Early \cup Running, NEW s \in Sponsor
             PROVE  wallet'[s] = - Repaid(s)'
  BY DEF Accounts
<1>1. phase \in Early \cup Running
  BY StepOfTheLifecycle, PhaseCameFrom
<1>2. /\ wallet[s] = - Repaid(s) /\ wallet[s] \in Int /\ Repaid(s) \in Nat
      /\ s \in Party /\ s # Organizer /\ s # Donor
  BY <1>0, <1>1, RepaidIsNatural, PartiesAssumption DEF MoneyInv, Accounts, Amounts, Party
<1>3. ASSUME UNCHANGED pledges, wallet'[s] = wallet[s]
      PROVE  wallet'[s] = - Repaid(s)'
  BY <1>2, <1>3, PledgesStand
<1>4. /\ phase \notin {"Finalization", "Settlement", "Cancelled"} /\ phase' # "Cancelled"
  BY <1>1 DEF Early, Running
<1>5. CASE Elsewhere \/ RankTracks \/ UNCHANGED everything
  BY <1>3, <1>5 DEF Elsewhere, RankTracks, everything, treasury, vault
<1>6. CASE FundAndPublish
  <2> DEFINE missing == RequiredFunding - balance
  <2>1. UNCHANGED pledges
    BY <1>6 DEF FundAndPublish
  <2>2. IF missing > 0 THEN Receive(Organizer, missing) ELSE UNCHANGED vault
    BY <1>6 DEF FundAndPublish
  <2>3. wallet'[s] = wallet[s]
    BY <1>0, <1>2, <2>2 DEF Receive, vault, Amounts
  <2> QED
    BY <1>3, <2>1, <2>3
<1>7. ASSUME NEW from \in {Organizer, Donor}, NEW amount \in Amount, Deposit(from, amount)
      PROVE  wallet'[s] = - Repaid(s)'
  <2>1. wallet'[s] = wallet[s] /\ UNCHANGED pledges
    BY <1>0, <1>2, <1>7 DEF Deposit, Receive, Amounts
  <2> QED
    BY <1>3, <2>1
<1>8. ASSUME NEW p \in Unprepared, Prepare(p)
      PROVE  wallet'[s] = - Repaid(s)'
  BY <1>3, <1>8 DEF Prepare, vault
<1>9. ASSUME NEW u, NEW t, NEW amount, NEW shares, Gift(u, t, amount, shares)
      PROVE  wallet'[s] = - Repaid(s)'
  <2> DEFINE D == DOMAIN sponsorships
             n == Len(sponsorships) + 1
             K == GivenBy(s)
             L == GivenBy(s)'
             f == [i \in K |-> sponsorships[i].amount + sponsorships[i].fee]
             g == [i \in L |-> sponsorships'[i].amount + sponsorships'[i].fee]
             a == [v \in AskedBy(s) |-> PaidFor(v)]
  <2>1. /\ u \in Sponsor /\ u \in Party /\ amount \in Nat /\ FeeOn(amount) \in Nat
        /\ amount + FeeOn(amount) \in Nat
        /\ Receive(u, amount + FeeOn(amount)) /\ UNCHANGED new_track
    <3>1. /\ u \in Sponsor /\ amount \in Nat
          /\ Receive(u, amount + FeeOn(amount)) /\ UNCHANGED new_track
      BY <1>9 DEF Gift, Sponsored
    <3>2. FeeOn(amount) \in Nat
      BY <3>1, FeeIsNatural
    <3> QED
      BY <3>1, <3>2 DEF Party
  <2>2. /\ n \notin D
        /\ DOMAIN sponsorships' = D \cup {n}
        /\ \A i \in D : sponsorships'[i] = sponsorships[i]
        /\ sponsorships'[n].sponsor = u /\ sponsorships'[n].amount = amount
        /\ sponsorships'[n].fee = FeeOn(amount)
    BY <1>0, <1>9, GiftFiled
  <2> HIDE DEF n
  <2>3. /\ wallet'[u] = wallet[u] - (amount + FeeOn(amount))
        /\ s # u => wallet'[s] = wallet[s]
    BY <1>0, <1>2, <2>1, ReceiveMoves
  <2>4. /\ Repaid(s) = SumFunction(f) + SumFunction(a)
        /\ Repaid(s)' = SumFunction(g) + SumFunction(a)
    <3>1. AskedBy(s)' = AskedBy(s) /\ \A v : PaidFor(v)' = PaidFor(v)
      BY <2>1 DEF AskedBy, With, PaidFor
    <3>2. Repaid(s)' = SumFunction(g) + SumFunction([v \in AskedBy(s)' |-> PaidFor(v)'])
      BY DEF Repaid
    <3>3. [v \in AskedBy(s)' |-> PaidFor(v)'] = a
      BY <3>1
    <3> QED
      BY <3>2, <3>3 DEF Repaid
  <2>5. CASE s # u
    <3>1. L = K /\ \A i \in K : sponsorships'[i] = sponsorships[i]
      BY <2>2, <2>5 DEF GivenBy
    <3>2. g = f
      BY <3>1
    <3> QED
      BY <1>2, <2>3, <2>4, <2>5, <3>2
  <2>6. CASE s = u
    <3>1. /\ L = K \cup {n} /\ n \notin K
          /\ \A i \in K : sponsorships'[i] = sponsorships[i]
      BY <2>2, <2>6 DEF GivenBy
    <3>2. /\ \A i \in K : g[i] = f[i]
          /\ g[n] = amount + FeeOn(amount)
      BY <2>2, <3>1
    <3>3. IsFiniteSet(K) /\ NaturalsOn(f, K)
      <4>1. K \subseteq D
        BY DEF GivenBy
      <4> QED
        BY <1>0, <4>1, RepaidIsNatural DEF NaturalsOn
    <3>4. SumFunction(f) = SumFunctionOnSet(f, K) /\ SumFunction(g) = SumFunctionOnSet(g, L)
      BY DEF SumFunction
    <3>5. SumFunction(a) \in Nat
      <4>1. IsFiniteSet(AskedBy(s)) /\ NaturalsOn(a, AskedBy(s)) /\ DOMAIN a = AskedBy(s)
        BY <1>0, RepaidIsNatural DEF NaturalsOn
      <4> HIDE DEF a
      <4> QED
        BY <4>1, SumNatural DEF SumFunction
    <3> HIDE DEF f, g, a, K, L
    <3>6. /\ SumFunctionOnSet(g, K \cup {n}) = SumFunctionOnSet(f, K) + g[n]
          /\ SumFunctionOnSet(f, K) \in Nat
      <4>1. Extends(g, f, K, n) /\ g[n] \in Nat
        BY <2>1, <3>1, <3>2 DEF Extends
      <4> QED
        BY <3>3, <4>1, SumExtended
    <3>7. Repaid(s)' = Repaid(s) + (amount + FeeOn(amount))
      BY <2>1, <2>4, <3>1, <3>2, <3>4, <3>5, <3>6
    <3> QED
      BY <1>2, <2>1, <2>3, <2>6, <3>7
  <2> QED
    BY <2>5, <2>6
\* What moves in the three calls about a track of a sponsor's own.
<1> DEFINE given == SumFunction([i \in GivenBy(s) |->
                                    sponsorships[i].amount + sponsorships[i].fee])
           A == AskedBy(s)
           B == AskedBy(s)'
           a == [v \in A |-> PaidFor(v)]
           b == [v \in B |-> PaidFor(v)']
<1>10. /\ given \in Nat
       /\ IsFiniteSet(A) /\ NaturalsOn(a, A)
       /\ SumFunctionOnSet(a, A) \in Nat
  <2> DEFINE f == [i \in GivenBy(s) |-> sponsorships[i].amount + sponsorships[i].fee]
  <2>1. IsFiniteSet(GivenBy(s)) /\ NaturalsOn(f, GivenBy(s)) /\ DOMAIN f = GivenBy(s)
    <3>1. GivenBy(s) \subseteq DOMAIN sponsorships
      BY DEF GivenBy
    <3> QED
      BY <1>0, <3>1, RepaidIsNatural DEF NaturalsOn
  <2>2. IsFiniteSet(A) /\ NaturalsOn(a, A)
    BY <1>0, RepaidIsNatural DEF NaturalsOn
  <2> HIDE DEF f, a, A
  <2>3. SumFunction(f) \in Nat /\ SumFunctionOnSet(a, A) \in Nat
    BY <2>1, <2>2, SumNatural DEF SumFunction
  <2> QED
    BY <2>2, <2>3 DEF f
<1>11. ASSUME UNCHANGED sponsorships
       PROVE  /\ Repaid(s) = given + SumFunctionOnSet(a, A)
              /\ Repaid(s)' = given + SumFunctionOnSet(b, B)
  <2>1. Repaid(s) = given + SumFunction(a)
    BY DEF Repaid
  <2>2. Repaid(s)' = given + SumFunction(b)
    BY <1>11 DEF Repaid, GivenBy
  <2>3. SumFunction(a) = SumFunctionOnSet(a, A) /\ SumFunction(b) = SumFunctionOnSet(b, B)
    BY DEF SumFunction
  <2> QED
    BY <2>1, <2>2, <2>3
<1>12. \A v \in A : v \in NewTrack
  BY DEF AskedBy, With
<1> HIDE DEF given
<1>13. ASSUME NEW u, NEW t, NEW table, Asking(u, t, table)
       PROVE  wallet'[s] = - Repaid(s)'
  <2> DEFINE worth == SumFunction(table) + FeeOn(SumFunction(table))
  <2>1. /\ u \in Party /\ t \in NewTrack /\ worth \in Nat /\ Receive(u, worth)
        /\ UNCHANGED sponsorships
    <3>1. /\ SumFunction(table) \in Nat /\ FeeOn(SumFunction(table)) \in Nat
          /\ Receive(u, worth)
      BY <1>0, <1>13, RequestAsked
    <3>2. u \in Party /\ t \in NewTrack /\ UNCHANGED sponsorships
      BY <1>13 DEF Asking, ProposeTrack, Party
    <3> QED
      BY <3>1, <3>2
  <2>2. /\ wallet'[u] = wallet[u] - worth
        /\ s # u => wallet'[s] = wallet[s]
    BY <1>0, <1>2, <2>1, ReceiveMoves
  <2>3. /\ t \notin A
        /\ s = u => B = A \cup {t} /\ PaidFor(t)' = worth
        /\ s # u => B = A
        /\ \A v \in NewTrack : v # t => PaidFor(v)' = PaidFor(v)
    BY <1>0, <1>13, <2>1, RequestsAreDue
  <2>4. \A v \in A : PaidFor(v)' = PaidFor(v)
    BY <1>12, <2>3
  <2>5. CASE s = u
    <3>1. /\ \A v \in A : b[v] = a[v]
          /\ b[t] = worth
      BY <2>3, <2>4, <2>5
    <3>2. B = A \cup {t}
      BY <2>3, <2>5
    <3> HIDE DEF a, b, A, B, worth
    <3>3. SumFunctionOnSet(b, B) = SumFunctionOnSet(a, A) + worth
      <4>1. Extends(b, a, A, t) /\ b[t] \in Nat
        BY <2>1, <2>3, <3>1 DEF Extends
      <4>2. SumFunctionOnSet(b, A \cup {t}) = SumFunctionOnSet(a, A) + b[t]
        BY <1>10, <4>1, SumExtended
      <4> QED
        BY <3>1, <3>2, <4>2
    <3> QED
      BY <1>2, <1>10, <1>11, <2>1, <2>2, <2>5, <3>3
  <2>6. CASE s # u
    <3>1. b = a /\ B = A
      BY <2>3, <2>4, <2>6
    <3> QED
      BY <1>2, <1>11, <2>1, <2>2, <2>6, <3>1
  <2> QED
    BY <2>5, <2>6
<1>14. ASSUME NEW t \in NewTrack, AcceptTrack(t)
       PROVE  wallet'[s] = - Repaid(s)'
  <2>1. UNCHANGED <<sponsorships, wallet>>
    BY <1>14 DEF AcceptTrack, vault
  <2>2. B = A /\ \A v \in A : PaidFor(v)' = PaidFor(v)
    BY <1>0, <1>12, <1>14, RequestsAreDue
  <2>3. b = a /\ B = A
    BY <2>2
  <2> QED
    BY <1>2, <1>11, <2>1, <2>3
<1>15. ASSUME NEW t \in NewTrack, DeclineTrack(t)
       PROVE  wallet'[s] = - Repaid(s)'
  <2> DEFINE u == new_track[t].sponsor
             due == To(u, PaidFor(t))
  <2>1. /\ UNCHANGED sponsorships /\ Pay(due)
        /\ u \in Party /\ PaidFor(t) \in Nat
    BY <1>0, <1>15, RequestDecided, AskedFor DEF DeclineTrack
  <2>2. /\ due \in [Party -> Nat] /\ due[u] = PaidFor(t)
        /\ \A q \in Party : q # u => due[q] = 0
    BY <2>1, ToOne
  <2>3. /\ B = A \ {t} /\ (t \in A <=> u = s)
        /\ \A v \in NewTrack : v # t => PaidFor(v)' = PaidFor(v)
    BY <1>0, <1>15, RequestsAreDue
  <2>4. wallet'[s] = wallet[s] + due[s]
    <3> HIDE DEF due
    <3> QED
      BY <1>0, <1>2, <2>1, <2>2, PayMoves
  <2>5. CASE s = u
    <3>1. /\ t \in A /\ a[t] = PaidFor(t)
          /\ \A v \in B : b[v] = a[v]
          /\ B = A \ {t}
      BY <1>12, <2>3, <2>5
    <3> HIDE DEF a, b, A, B
    <3>2. IntegersOn(a, A) /\ IntegersOn(a, A \ {t}) /\ IsFiniteSet(A \ {t})
      <4>1. IsFiniteSet(A \ {t})
        BY <1>10, FS_RemoveElement
      <4> QED
        BY <1>10, <4>1 DEF NaturalsOn, IntegersOn
    <3>3. SumFunctionOnSet(a, A) = a[t] + SumFunctionOnSet(a, A \ {t})
      BY <1>10, <3>1, <3>2, SumRemove
    <3>4. SumFunctionOnSet(b, A \ {t}) = SumFunctionOnSet(a, A \ {t})
      BY <3>1, <3>2, SumSame
    <3>5. SumFunctionOnSet(a, A \ {t}) \in Int
      BY <3>2, SumIsInteger
    <3>6. due[s] = PaidFor(t)
      BY <2>2, <2>5
    <3> HIDE DEF due
    <3> QED
      BY <1>2, <1>10, <1>11, <2>1, <2>4, <3>1, <3>3, <3>4, <3>5, <3>6
  <2>6. CASE s # u
    <3>1. B = A /\ \A v \in A : PaidFor(v)' = PaidFor(v)
      BY <1>12, <2>3, <2>6
    <3>2. b = a
      BY <3>1
    <3>3. due[s] = 0
      BY <1>2, <2>2, <2>6
    <3> HIDE DEF due
    <3> QED
      BY <1>2, <1>11, <2>1, <2>4, <3>1, <3>2, <3>3
  <2> QED
    BY <2>5, <2>6
\* The calls that are not made before the ranking closes, and those about a
\* bench, which move nothing.
<1>16. /\ \A p, who, due : ~ Handing(p, who, due)
       /\ \A p : ~ SweepUnclaimed(p)
       /\ ~ SettlePlatformFee
       /\ \A t : ~ ResolveNoAward(t)
  BY <1>4 DEF Handing, SweepUnclaimed, Sweepable, SettlePlatformFee, MoneyMoves, ResolveNoAward
<1>17. ~ CallOff
  <2>1. Cancel \/ ResolveCancellation => phase' = "Cancelled"
    BY DEF Cancel, ResolveCancellation
  <2> QED
    BY <1>4, <2>1 DEF CallOff
<1>18. ASSUME NEW t, Moving(t)
       PROVE  wallet'[s] = - Repaid(s)'
  BY <1>3, <1>18 DEF Moving, OpenNoAward, ApproveNoAward, vault
<1> QED
  BY <1>0, <1>5, <1>6, <1>7, <1>8, <1>9, <1>13, <1>14, <1>15, <1>16, <1>17, <1>18, MoneySteps

(* Before publication nobody has given anything to give back.               *)
LEMMA RepaysNothing ==
    ASSUME Amounts, Unsponsored, phase \in Early, NEW s
    PROVE  Repaid(s) = 0
<1>1. DOMAIN sponsorships = {} /\ \A t \in NewTrack : new_track[t] = NoTrack
  BY DEF Unsponsored
<1> DEFINE f == [i \in GivenBy(s) |-> sponsorships[i].amount + sponsorships[i].fee]
           g == [t \in AskedBy(s) |-> PaidFor(t)]
<1>2. GivenBy(s) = {} /\ AskedBy(s) = {}
  BY <1>1 DEF GivenBy, AskedBy, With, NoTrack
<1>3. DOMAIN f = {} /\ DOMAIN g = {}
  BY <1>2
<1>4. Repaid(s) = SumFunction(f) + SumFunction(g)
  BY DEF Repaid
<1> HIDE DEF f, g
<1>5. SumFunction(f) = 0 /\ SumFunction(g) = 0
  BY <1>3, SumEmpty DEF SumFunction
<1> QED
  BY <1>4, <1>5

(* Only calling the event off cancels it. *)
LEMMA OnlyCallOffCancels ==
    ASSUME TreasuryInv, Amounts, [TreasuryNext]_everything,
           phase' = "Cancelled", phase # "Cancelled"
    PROVE  CallOff
<1>1. ~ Elsewhere /\ ~ FundAndPublish /\ ~ RankTracks
  BY DEF Elsewhere, FundAndPublish, RankTracks, Tick, Configure, LockRules, BindVault, SetUp,
     Publish, AdvancePhase, Advance, Successor, MoveDeadlines, FinalizeResults,
     OpenSettlement, PauseSettlement, ResumeSettlement, Complete, OpenCancellation,
     ApproveCancellation
<1>2. UNCHANGED phase => FALSE
  OBVIOUS
<1>3. /\ \A from, amount : ~ Deposit(from, amount)
      /\ \A p : ~ Prepare(p) /\ ~ SweepUnclaimed(p)
      /\ \A s, t, amount, shares : ~ Gift(s, t, amount, shares)
      /\ \A s, t, table : ~ Asking(s, t, table)
      /\ \A t : ~ AcceptTrack(t) /\ ~ DeclineTrack(t) /\ ~ Moving(t) /\ ~ ResolveNoAward(t)
      /\ \A p, who, due : ~ Handing(p, who, due)
      /\ ~ SettlePlatformFee
      /\ ~ UNCHANGED everything
  BY <1>2 DEF Deposit, Prepare, SweepUnclaimed, Gift, Sponsored, Asking, ProposeTrack,
     AcceptTrack, DeclineTrack, Moving, OpenNoAward, ApproveNoAward, ResolveNoAward,
     Handing, SettlePlatformFee, everything, lifecycle
<1> QED
  BY <1>1, <1>3, MoneySteps

(* Members are settled by the calls that settle, and by no other.           *)
LEMMA WhoSettles ==
    ASSUME TreasuryInv, Amounts, [TreasuryNext]_everything
    PROVE  \/ settled' = settled
           \/ \E p \in Position :
                 \/ SettlePosition(p)
                 \/ \E m \in Member : SettlePrize(p, m) \/ SweepShare(p, m)
<1>1. CASE Settling
  BY <1>1 DEF Settling, SweepUnclaimed
<1>2. CASE UNCHANGED everything
  BY <1>2 DEF everything, treasury, payments
<1>3. CASE Elsewhere \/ FundAndPublish \/ RankTracks \/ CallOff \/ SettlePlatformFee
  BY <1>3 DEF Elsewhere, FundAndPublish, RankTracks, CallOff, SettlePlatformFee,
     treasury, payments
<1>4. CASE \/ \E from \in {Organizer, Donor}, amount \in Amount : Deposit(from, amount)
           \/ \E p \in Unprepared : Prepare(p)
           \/ \E t \in NewTrack : AcceptTrack(t) \/ DeclineTrack(t)
  BY <1>4 DEF Deposit, Prepare, AcceptTrack, DeclineTrack, payments
<1>5. CASE Sponsoring
  <2>1. \A s, t, r, amount : SponsorTier(s, t, r, amount) => UNCHANGED settled
    BY DEF SponsorTier, Sponsored, payments
  <2>2. \A s, t, amount, split : SponsorPlaces(s, t, amount, split) => UNCHANGED settled
    BY DEF SponsorPlaces, Sponsored, payments
  <2>3. \A s, t, table : ProposeTrack(s, t, table) => UNCHANGED settled
    BY DEF ProposeTrack, payments
  <2> QED
    BY <1>5, <2>1, <2>2, <2>3, Zenon DEF Sponsoring
<1>6. CASE \E t \in Track : OpenNoAward(t) \/ ResolveNoAward(t)
                          \/ \E j \in Judge : ApproveNoAward(j, t)
  BY <1>6 DEF OpenNoAward, ResolveNoAward, ApproveNoAward, payments
<1> QED
  BY <1>1, <1>2, <1>3, <1>4, <1>5, <1>6, Zenon DEF TreasuryNext

-----------------------------------------------------------------------------
(***************************************************************************)
(* The accounts are kept in every reachable state.                         *)
(***************************************************************************)

(* A new hackathon has no money and has promised nothing.                   *)
LEMMA InitMoneyInv == TreasuryInit => MoneyInv
<1> SUFFICES ASSUME TreasuryInit PROVE MoneyInv
  OBVIOUS
<1>1. /\ phase = "Draft" /\ ~ vault_bound
      /\ balance = 0
      /\ wallet = [p \in Party |-> 0]
      /\ ready = Party \ Unprepared
      /\ sponsorships = <<>>
      /\ bonus = [p \in Position |-> 0]
      /\ sponsored_fee = 0
      /\ new_track = [t \in NewTrack |-> NoTrack]
      /\ paid = {}
      /\ fee_settled = FALSE
  BY DEF TreasuryInit, Init
<1>2. Amounts
  <2>1. sponsorships \in Seq(Contribution) /\ new_track \in [NewTrack -> {NoTrack} \cup Asked]
    BY <1>1
  <2>2. wallet \in [Party -> Int] /\ bonus \in [Position -> Nat] /\ ready \subseteq Party
    BY <1>1
  <2> QED
    BY <1>1, <2>1, <2>2 DEF Amounts
<1>3. \A status : status # "none" => With(status) = {}
  BY <1>1 DEF With, NoTrack
<1>4. Unsponsored /\ Unbound /\ FeeWaits /\ AimedAtPlaces /\ ClosedIsWithheld
  BY <1>1, <1>3 DEF Unsponsored, Unbound, FeeWaits, AimedAtPlaces, ClosedIsWithheld,
     Early, Paying
<1>5. DOMAIN sponsorships = {}
  BY <1>1
<1>6. BonusesAreContributions
  <2> SUFFICES ASSUME NEW t \in Track
               PROVE  SumFunction([p \in {t} \X Rank |-> bonus[p]]) =
                      SumFunction([i \in {k \in DOMAIN sponsorships : sponsorships[k].track = t}
                                        |-> sponsorships[i].amount])
    BY DEF BonusesAreContributions
  <2> DEFINE R == {t} \X Rank
             b == [p \in R |-> bonus[p]]
             K == {k \in DOMAIN sponsorships : sponsorships[k].track = t}
             a == [i \in K |-> sponsorships[i].amount]
  <2>1. R \in SUBSET Position
    BY DEF Position
  <2>2. \A p \in R : b[p] = 0
    BY <1>1, <2>1
  <2>3. K = {}
    BY <1>5
  <2>4. SumFunction(b) = SumFunctionOnSet(b, R) /\ SumFunction(a) = SumFunctionOnSet(a, K)
    BY DEF SumFunction
  <2> HIDE DEF b, R, a, K
  <2>5. IsFiniteSet(R)
    BY <2>1, FinitelyMany, FS_Subset
  <2>6. SumFunctionOnSet(b, R) = 0
    BY <2>2, <2>5, SumZero
  <2>7. SumFunctionOnSet(a, K) = 0
    BY <2>3, SumEmpty
  <2>8. SumFunction(b) = SumFunction(a)
    BY <2>4, <2>6, <2>7
  <2> QED
    BY <2>8 DEF b, R, a, K
<1>7. Accounts
  BY <1>1, <1>2, <1>4, RepaysNothing DEF Accounts, Early, Party
<1> QED
  BY <1>2, <1>4, <1>6, <1>7 DEF MoneyInv

(* The invariant is inductive, given the book of positions and the types of *)
(* the lifecycle.                                                           *)
LEMMA StepMoneyInv ==
    ASSUME TreasuryInv, MoneyInv, Inv, [TreasuryNext]_everything
    PROVE  MoneyInv'
<1>1. TypeOK
  BY DEF Inv
<1> QED
  BY <1>1, AmountsStep, UnsponsoredStep, UnboundStep, FeeWaitsStep, AimedAtPlacesStep,
     BonusStep, ClosedIsWithheldStep, AccountsStep DEF MoneyInv

(* In every reachable state the records of the money agree.                 *)
THEOREM MoneyInvariance == TreasurySpec => [](MoneyInv /\ TreasuryInv /\ Inv)
<1>1. TreasuryInit => MoneyInv
  BY InitMoneyInv
<1>2. TreasuryInv /\ MoneyInv /\ Inv /\ [TreasuryNext]_everything => MoneyInv'
  BY StepMoneyInv
<1>3. TreasurySpec => []Inv
  BY RunsTheLifecycle, Invariance, PTL
<1>4. TreasurySpec => []TreasuryInv
  BY TreasuryInvariance
<1> QED
  BY <1>1, <1>2, <1>3, <1>4, PTL DEF TreasurySpec

(* Every record keeps its type: no balance or sum of the code goes below    *)
(* zero, and no payment reaches somebody who is not a party.                *)
THEOREM TreasuryTypeCorrect == TreasurySpec => []TreasuryTypeOK
<1>1. MoneyInv /\ TreasuryInv /\ Inv => TreasuryTypeOK
  BY DEF MoneyInv, Amounts, TreasuryInv, Records, Inv, TreasuryTypeOK, Contribution, Asked
<1> QED
  BY <1>1, MoneyInvariance, PTL

(* What the places of a track gained is what its contributions carried,     *)
(* whoever gave it, to one place or to all of them, by either division.     *)
THEOREM ContributionsReachPlaces == TreasurySpec => []BonusesAreContributions
<1>1. MoneyInv => BonusesAreContributions
  BY DEF MoneyInv
<1> QED
  BY <1>1, MoneyInvariance, PTL

(* However many sponsors gave, to positions, to tracks or for tracks of     *)
(* their own, a cancelled event leaves each of them with what it had, and   *)
(* nothing in the vault.                                                    *)
THEOREM CancellingRepaysSponsors == TreasurySpec => SponsorsMadeWhole
<1>1. ASSUME MoneyInv, TreasuryInv, [TreasuryNext]_everything,
             phase' = "Cancelled", phase # "Cancelled"
      PROVE  balance' = 0 /\ \A s \in Sponsor : wallet'[s] = 0
  <2>1. Amounts /\ balance \in Nat
    BY <1>1 DEF MoneyInv, Amounts
  <2>2. CallOff
    BY <1>1, <2>1, OnlyCallOffCancels
  <2>3. phase \in Early \cup Running /\ ReturnThePool
    BY <2>2 DEF CallOff, Cancel, ResolveCancellation, Early
  <2>4. \A s \in Sponsor : /\ s \in Party /\ wallet[s] = - Repaid(s)
                           /\ wallet[s] \in Int /\ Repaid(s) \in Nat
    BY <1>1, <2>1, <2>3, RepaidIsNatural DEF MoneyInv, Accounts, Amounts, Party
  <2>5. CASE vault_bound
    <3>1. PICK due \in [Party -> Nat] : /\ Pay(due)
                                        /\ SumFunction(due) = balance
                                        /\ \A s \in Sponsor : due[s] = Repaid(s)
      BY <2>1, <2>3, <2>5, ReturnIsTheBalance
    <3>2. balance' = 0 /\ \A s \in Sponsor : wallet'[s] = wallet[s] + due[s]
      BY <2>1, <2>4, <3>1, PayMoves
    <3> QED
      BY <2>4, <3>1, <3>2
  <2>6. CASE ~ vault_bound
    <3>1. phase \in Early /\ balance = 0
      BY <1>1, <2>6 DEF MoneyInv, Unbound
    <3>2. \A s \in Sponsor : Repaid(s) = 0
      BY <1>1, <2>1, <3>1, RepaysNothing DEF MoneyInv
    <3>3. UNCHANGED <<balance, wallet>>
      BY <2>3, <2>6 DEF ReturnThePool, vault
    <3> QED
      BY <2>4, <3>1, <3>2, <3>3
  <2> QED
    BY <2>5, <2>6
<1>2. /\ MoneyInv /\ TreasuryInv /\ [TreasuryNext]_everything
      => [phase' = "Cancelled" /\ phase # "Cancelled" =>
             /\ balance' = 0
             /\ \A s \in Sponsor : wallet'[s] = 0]_everything
  BY <1>1
<1> QED
  BY <1>2, MoneyInvariance, PTL DEF TreasurySpec, SponsorsMadeWhole

(* However settle_prize, settle_position and sweep_share interleave, nobody *)
(* but the winner takes a share before the claim period is over.            *)
THEOREM SharesWaitForTheirOwners == TreasurySpec => ClaimPeriodHonoured
<1>1. ASSUME MoneyInv, TreasuryInv, [TreasuryNext]_everything,
             NEW p \in Position, NEW m \in Member,
             m \in settled'[p] \ settled[p], ShareAt(p, m) > 0, wallet'[m] = wallet[m]
      PROVE  now >= settlement_opened_at + ClaimPeriod
  <2>1. Amounts /\ m \in Party /\ settled \in [Position -> SUBSET Member]
    BY <1>1 DEF MoneyInv, Party, TreasuryInv, Records
  <2>2. wallet[m] \in Int
    BY <2>1 DEF Amounts
  <2>3. ASSUME NEW due \in [Party -> Nat], Pay(due)
        PROVE  due[m] = 0
    <3>1. wallet'[m] = wallet[m] + due[m] /\ due[m] \in Nat
      BY <2>1, <2>3, PayMoves
    <3> QED
      BY <1>1, <2>2, <3>1
  <2>4. ASSUME NEW q \in Position, NEW who, RecordShares(q, who)
        PROVE  q = p /\ m \in who
    BY <1>1, <2>1, <2>4 DEF RecordShares
  <2>5. ASSUME NEW q \in Position, SettlePosition(q)
        PROVE  FALSE
    <3>1. PICK who \in SUBSET (MembersOf(ranking[q]) \ settled[q]) :
             /\ RecordShares(q, who)
             /\ Pay([n \in Party |-> IF n \in who THEN ShareAt(q, n) ELSE 0])
      BY <2>5 DEF SettlePosition
    <3>2. q \in Payable /\ ranking[q] # Nobody
      BY <2>5 DEF SettlePosition
    <3> DEFINE due == [n \in Party |-> IF n \in who THEN ShareAt(q, n) ELSE 0]
    <3>3. due \in [Party -> Nat]
      <4>1. \A n \in MembersOf(ranking[q]) : ShareAt(q, n) \in Nat
        BY <1>1, <2>1, <3>2, SharesAt
      <4> QED
        BY <4>1
    <3>4. q = p /\ m \in who
      BY <2>4, <3>1
    <3>5. due[m] = ShareAt(p, m)
      BY <2>1, <3>4
    <3> HIDE DEF due
    <3>6. due[m] = 0
      BY <2>3, <3>1, <3>3 DEF due
    <3> QED
      BY <1>1, <3>5, <3>6
  <2>6. ASSUME NEW q \in Position, NEW n \in Member, SettlePrize(q, n)
        PROVE  FALSE
    <3>1. ShareDue(q, n) /\ HandOver(q, n, n)
      BY <2>6 DEF SettlePrize
    <3>2. q = p /\ m = n
      BY <2>4, <3>1 DEF HandOver
    <3>3. ShareAt(p, m) \in Nat
      BY <1>1, <2>1, <3>1, <3>2, SharesAt DEF ShareDue
    <3>4. Pay(To(m, ShareAt(p, m)))
      BY <1>1, <3>1, <3>2 DEF HandOver
    <3>5. To(m, ShareAt(p, m)) \in [Party -> Nat] /\ To(m, ShareAt(p, m))[m] = ShareAt(p, m)
      BY <2>1, <3>3, ToOne
    <3> QED
      BY <1>1, <2>3, <3>4, <3>5
  <2>7. ASSUME NEW q \in Position, NEW n \in Member, SweepShare(q, n)
        PROVE  now >= settlement_opened_at + ClaimPeriod
    BY <2>7 DEF SweepShare, Sweepable
  <2>8. settled' # settled
    BY <1>1
  <2> QED
    BY <1>1, <2>1, <2>5, <2>6, <2>7, <2>8, WhoSettles
<1>2. MoneyInv /\ TreasuryInv /\ [TreasuryNext]_everything
      => [\A p \in Position, m \in Member :
             /\ m \in settled'[p] \ settled[p]
             /\ ShareAt(p, m) > 0
             /\ wallet'[m] = wallet[m]
             => now >= settlement_opened_at + ClaimPeriod]_everything
  BY <1>1
<1> QED
  BY <1>2, MoneyInvariance, PTL DEF TreasurySpec, ClaimPeriodHonoured

(* While settlement is held nobody is paid or swept and the fee waits,      *)
(* whichever of the calls is tried, and no later step makes up for it.      *)
THEOREM AHoldStopsPrizes == TreasurySpec => HoldStopsPrizes
<1> DEFINE Held == /\ UNCHANGED payments
                   /\ \A p \in Member \cup {Organizer, Platform} : wallet'[p] <= wallet[p]
<1>1. ASSUME MoneyInv, TreasuryInv, [TreasuryNext]_everything,
             settlement_paused, phase = "Settlement"
      PROVE  Held
  <2>1. /\ Amounts
        /\ \A p \in Member \cup {Organizer, Platform} :
              p \in Party /\ p \notin Sponsor /\ wallet[p] \in Int
    BY <1>1, PartiesAssumption DEF MoneyInv, Amounts, Party
  <2>2. ~ MoneyMoves
    BY <1>1 DEF MoneyMoves
  <2>3. ASSUME UNCHANGED <<payments, vault>>
        PROVE  Held
    BY <2>1, <2>3 DEF vault
  <2>4. CASE Elsewhere \/ RankTracks \/ UNCHANGED everything
    BY <2>3, <2>4 DEF Elsewhere, RankTracks, everything, treasury
  <2>5. ~ FundAndPublish /\ ~ CallOff
    BY <1>1 DEF FundAndPublish, SetUp, CallOff, Cancel, ResolveCancellation, Running
  <2>6. ASSUME NEW from \in {Organizer, Donor}, NEW amount \in Amount, Deposit(from, amount)
        PROVE  Held
    <3>1. from \in Party /\ amount \in Nat /\ Receive(from, amount) /\ UNCHANGED payments
      BY <2>6, MoneyAssumption DEF Deposit, Party
    <3>2. \A p \in Party : wallet'[p] = IF p = from THEN wallet[p] - amount ELSE wallet[p]
      BY <2>1, <3>1, ReceiveMoves
    <3> QED
      BY <2>1, <3>1, <3>2
  <2>7. ASSUME NEW p \in Unprepared, Prepare(p)
        PROVE  Held
    BY <2>3, <2>7 DEF Prepare
  <2>8. /\ \A s, t, amount, shares : ~ Gift(s, t, amount, shares)
        /\ \A s, t, table : ~ Asking(s, t, table)
        /\ \A t \in NewTrack : ~ AcceptTrack(t)
    BY <1>1, WhenPledgesMove DEF Running
  <2>9. ASSUME NEW t \in NewTrack, DeclineTrack(t)
        PROVE  Held
    <3> DEFINE due == To(new_track[t].sponsor, PaidFor(t))
    <3>1. /\ Pay(due) /\ UNCHANGED payments
          /\ new_track[t].sponsor \in Sponsor /\ new_track[t].sponsor \in Party
          /\ PaidFor(t) \in Nat
      BY <2>1, <2>9, RequestDecided, AskedFor DEF DeclineTrack
    <3>2. /\ due \in [Party -> Nat]
          /\ \A q \in Party : q # new_track[t].sponsor => due[q] = 0
      BY <3>1, ToOne
    <3> HIDE DEF due
    <3>3. \A q \in Party : wallet'[q] = wallet[q] + due[q]
      BY <2>1, <3>1, <3>2, PayMoves
    <3> QED
      BY <2>1, <3>1, <3>2, <3>3
  <2>10. /\ \A p, who, due : ~ Handing(p, who, due)
         /\ \A p : ~ SweepUnclaimed(p)
         /\ ~ SettlePlatformFee
         /\ \A t : ~ ResolveNoAward(t)
    BY <1>1, <2>2 DEF Handing, SweepUnclaimed, Sweepable, SettlePlatformFee, ResolveNoAward
  <2>11. ASSUME NEW t, Moving(t)
         PROVE  Held
    BY <2>3, <2>11 DEF Moving, OpenNoAward, ApproveNoAward
  <2> QED
    BY <1>1, <2>1, <2>4, <2>5, <2>6, <2>7, <2>8, <2>9, <2>10, <2>11, MoneySteps
<1>2. MoneyInv /\ TreasuryInv /\ [TreasuryNext]_everything
      => [settlement_paused /\ phase = "Settlement" => Held]_everything
  BY <1>1
<1> QED
  BY <1>2, MoneyInvariance, PTL DEF TreasurySpec, HoldStopsPrizes

-----------------------------------------------------------------------------
(***************************************************************************)
(* What is owed.                                                           *)
(***************************************************************************)

OwedAtPlaces   == SumFunction([p \in Payable |-> Outstanding(p)])
OwedFee        == IF fee_settled THEN 0 ELSE FeeOn(PrizeTotal) + sponsored_fee
OwedOnRequests == SumFunction([t \in With("proposed") |-> PaidFor(t)])

(* What is left of a position is a natural number: its worth as long as     *)
(* nobody was settled there, and the shares of those who were not.          *)
LEMMA WhatIsLeft ==
    ASSUME TreasuryInv, Amounts, NEW p \in Payable
    PROVE  /\ Outstanding(p) \in Nat
           /\ p \notin paid /\ settled[p] = {} => Outstanding(p) = Worth(p)
           /\ p \notin paid /\ ranking[p] # Nobody =>
                 /\ settled[p] \subseteq MembersOf(ranking[p])
                 /\ \A f : (\A m \in MembersOf(ranking[p]) : f[m] = ShareAt(p, m)) =>
                       Outstanding(p) = SumFunctionOnSet(f, MembersOf(ranking[p]) \ settled[p])
<1> DEFINE f0 == [m \in settled[p] |-> ShareAt(p, m)]
<1>1. p \in Position /\ Worth(p) \in Nat
  BY PayableIsAPlace
<1>2. CASE p \in paid
  BY <1>2 DEF Outstanding
<1>3. p \notin paid => Outstanding(p) = Worth(p) - SumFunctionOnSet(f0, settled[p])
  BY DEF Outstanding, SumFunction
<1>4. settled[p] = {} => SumFunctionOnSet(f0, settled[p]) = 0
  <2> HIDE DEF f0
  <2> QED
    BY SumEmpty
<1>5. CASE p \notin paid /\ ranking[p] = Nobody
  <2>1. settled[p] = {}
    BY <1>1, <1>5 DEF TreasuryInv, Counted
  <2> HIDE DEF f0
  <2> QED
    BY <1>1, <1>3, <1>4, <1>5, <2>1
<1>6. CASE p \notin paid /\ ranking[p] # Nobody
  <2> DEFINE M == MembersOf(ranking[p])
             S == settled[p]
  <2>1. IsFiniteSet(M) /\ S \in SUBSET M
    BY <1>1, <1>6, SharesAt DEF TreasuryInv, Counted
  <2>2. ASSUME NEW f, \A m \in M : f[m] = ShareAt(p, m)
        PROVE  /\ Outstanding(p) = SumFunctionOnSet(f, M \ S)
               /\ SumFunctionOnSet(f, M \ S) \in Nat
    <3>1. NaturalsOn(f, M) /\ SumFunctionOnSet(f, M) = Worth(p)
      BY <1>6, <2>2, SharesAt
    <3>2. \A m \in S : f0[m] = f[m]
      BY <2>1, <2>2
    <3>3. p \notin paid
      BY <1>6
    <3> HIDE DEF f0, M, S
    <3>4. /\ IsFiniteSet(S)
          /\ SumFunctionOnSet(f, M) = SumFunctionOnSet(f, S) + SumFunctionOnSet(f, M \ S)
          /\ SumFunctionOnSet(f, S) \in Nat
          /\ SumFunctionOnSet(f, M \ S) \in Nat
      BY <2>1, <3>1, SumPart
    <3>5. SumFunctionOnSet(f0, S) = SumFunctionOnSet(f, S)
      <4>1. IntegersOn(f, S)
        BY <2>1, <3>1 DEF NaturalsOn, IntegersOn
      <4> QED
        BY <3>2, <3>4, <4>1, SumSame
    <3>6. Outstanding(p) = Worth(p) - SumFunctionOnSet(f0, S)
      BY <1>3, <3>3 DEF S
    <3>7. Outstanding(p) =
             (SumFunctionOnSet(f, S) + SumFunctionOnSet(f, M \ S)) - SumFunctionOnSet(f, S)
      BY <3>1, <3>4, <3>5, <3>6
    <3> QED
      BY <3>4, <3>7
  <2>3. Outstanding(p) \in Nat
    <3> DEFINE f == [m \in M |-> ShareAt(p, m)]
    <3>1. \A m \in M : f[m] = ShareAt(p, m)
      OBVIOUS
    <3> HIDE DEF f
    <3> QED
      BY <2>2, <3>1
  <2>4. S = {} => Outstanding(p) = Worth(p)
    <3> HIDE DEF f0
    <3> QED
      BY <1>1, <1>3, <1>4, <1>6
  <2> QED
    BY <1>6, <2>1, <2>2, <2>3, <2>4
<1> QED
  BY <1>2, <1>5, <1>6

\* Nothing was handed over at a position.
Untouched(p) == p \notin paid /\ settled[p] = {}

(* There are finitely many positions and requests, and what is owed on each *)
(* of them is a natural number.                                             *)
OwedIsCounted ==
    /\ Payable \subseteq Position /\ IsFiniteSet(Payable)
    /\ IsFiniteSet(With("proposed"))
    /\ \A p \in Payable : /\ Outstanding(p) \in Nat /\ Worth(p) \in Nat
                          /\ Untouched(p) => Outstanding(p) = Worth(p)
    /\ \A t \in With("proposed") : PaidFor(t) \in Nat
    /\ OwedAtPlaces \in Nat /\ OwedFee \in Nat /\ OwedOnRequests \in Nat
    /\ Owed \in Nat /\ Owed = OwedAtPlaces + OwedFee + OwedOnRequests

(* What is owed is a sum of natural numbers in every state the records      *)
(* agree in.                                                                *)
LEMMA Counting == TreasuryInv /\ Amounts => OwedIsCounted
<1> SUFFICES ASSUME TreasuryInv, Amounts PROVE OwedIsCounted
  OBVIOUS
<1> DEFINE f == [p \in Payable |-> Outstanding(p)]
           g == [t \in With("proposed") |-> PaidFor(t)]
<1>1. Payable \in SUBSET Position /\ With("proposed") \in SUBSET NewTrack
  BY PayableIsAPlace DEF With
<1>2. IsFiniteSet(Payable) /\ IsFiniteSet(With("proposed")) /\ Payable \subseteq Position
  BY <1>1, FinitelyMany, FS_Subset
<1>3. \A p \in Payable : Outstanding(p) \in Nat
  BY WhatIsLeft
<1>11. \A p \in Payable : /\ Outstanding(p) \in Nat /\ Worth(p) \in Nat
                          /\ Untouched(p) => Outstanding(p) = Worth(p)
  BY WhatIsLeft, PayableIsAPlace DEF Untouched
<1>4. \A t \in With("proposed") : PaidFor(t) \in Nat
  BY StatusesAsked, AskedFor DEF With
<1>5. NaturalsOn(f, Payable) /\ NaturalsOn(g, With("proposed"))
  <2>1. \A p \in Payable : f[p] \in Nat
    BY <1>3
  <2>2. \A t \in With("proposed") : g[t] \in Nat
    BY <1>4
  <2> QED
    BY <2>1, <2>2 DEF NaturalsOn
<1>6. /\ OwedAtPlaces = SumFunctionOnSet(f, Payable)
      /\ OwedOnRequests = SumFunctionOnSet(g, With("proposed"))
  BY DEF OwedAtPlaces, OwedOnRequests, SumFunction
<1> HIDE DEF f, g
<1>7. OwedAtPlaces \in Nat /\ OwedOnRequests \in Nat
  BY <1>2, <1>5, <1>6, SumNatural
<1>8. OwedFee \in Nat
  BY PrizeTotalIsNatural, FeeIsNatural DEF OwedFee, Amounts
<1>9. Owed = OwedAtPlaces + OwedFee + OwedOnRequests
  BY DEF Owed, OwedAtPlaces, OwedFee, OwedOnRequests
<1>10. Owed \in Nat
  BY <1>7, <1>8, <1>9
<1> QED
  BY <1>2, <1>4, <1>7, <1>8, <1>9, <1>10, <1>11, Zenon DEF OwedIsCounted

(* The same of the state a step leads to.                                   *)
LEMMA StillCounting == (TreasuryInv /\ Amounts)' => OwedIsCounted'
BY Counting, PTL

(* Where somebody is placed, what is left is what the others have to get.   *)
SharedBy(p, f) == \A m \in MembersOf(ranking[p]) : f[m] = ShareAt(p, m)

LeftIsShared ==
    \A p \in Payable : p \notin paid /\ ranking[p] # Nobody =>
        \A f : SharedBy(p, f) =>
            Outstanding(p) = SumFunctionOnSet(f, MembersOf(ranking[p]) \ settled[p])

(* What is left of a place somebody won are the shares not handed over.     *)
LEMMA LeftAreShares == TreasuryInv /\ Amounts => LeftIsShared
BY WhatIsLeft DEF LeftIsShared, SharedBy

(* The same of the state a step leads to.                                   *)
LEMMA StillShared == (TreasuryInv /\ Amounts)' => LeftIsShared'
BY LeftAreShares, PTL

(* One position changes what is owed by what it changes itself.             *)
LEMMA OnePlaceMoves ==
    ASSUME OwedIsCounted, NEW p \in Payable, Payable' = Payable, Outstanding(p)' \in Nat,
           \A q \in Payable : q # p => Outstanding(q)' = Outstanding(q)
    PROVE  OwedAtPlaces' = OwedAtPlaces + (Outstanding(p)' - Outstanding(p))
<1> DEFINE f == [q \in Payable |-> Outstanding(q)]
           g == [q \in Payable |-> Outstanding(q)']
<1>1. /\ IntegersOn(f, Payable) /\ IntegersOn(g, Payable) /\ IsFiniteSet(Payable)
      /\ \A q \in Payable : q # p => g[q] = f[q]
      /\ g[p] = Outstanding(p)' /\ f[p] = Outstanding(p)
  BY DEF OwedIsCounted, IntegersOn
<1>2. /\ OwedAtPlaces = SumFunctionOnSet(f, Payable)
      /\ OwedAtPlaces' = SumFunctionOnSet(g, Payable)
  BY DEF OwedAtPlaces, SumFunction
<1> HIDE DEF f, g
<1>3. SumFunctionOnSet(g, Payable) = SumFunctionOnSet(f, Payable) + (g[p] - f[p])
  BY <1>1, SumUpdate
<1> QED
  BY <1>1, <1>2, <1>3

(* The calls that leave the pledges and the payments alone owe as much.     *)
LEMMA NothingDischarged ==
    ASSUME TreasuryInv, UNCHANGED <<pledges, payments>>,
           \A p \in Position : settled[p] # {} => ranking'[p] = ranking[p]
    PROVE  Owed' = Owed
<1>1. /\ Payable' = Payable /\ UNCHANGED <<paid, settled, fee_settled, sponsored_fee>>
      /\ \A p : Worth(p)' = Worth(p)
      /\ With("proposed")' = With("proposed") /\ \A t : PaidFor(t)' = PaidFor(t)
  BY PledgesStand DEF payments, pledges
<1>2. Payable \subseteq Position
  BY PlacesArePositions DEF Payable, TreasuryInv
<1>3. \A p \in Payable : Outstanding(p)' = Outstanding(p)
  <2> SUFFICES ASSUME NEW p \in Payable PROVE Outstanding(p)' = Outstanding(p)
    OBVIOUS
  <2>1. [m \in settled[p] |-> ShareAt(p, m)'] = [m \in settled[p] |-> ShareAt(p, m)]
    BY <1>1, <1>2 DEF ShareAt
  <2> QED
    BY <1>1, <2>1 DEF Outstanding
<1>4. OwedAtPlaces' = OwedAtPlaces
  BY <1>1, <1>3 DEF OwedAtPlaces
<1>5. OwedFee' = OwedFee /\ OwedOnRequests' = OwedOnRequests
  BY <1>1 DEF OwedFee, OwedOnRequests
<1> QED
  BY <1>4, <1>5 DEF Owed, OwedAtPlaces, OwedFee, OwedOnRequests

(* As long as results are not out, everything promised is still owed.       *)
LEMMA NothingPaidYet ==
    ASSUME TreasuryInv, MoneyInv, phase \in Early \cup Running
    PROVE  /\ paid = {} /\ \A p \in Position : settled[p] = {}
           /\ ~ fee_settled
BY DEF TreasuryInv, Unranked, Unsettled, MoneyInv, FeeWaits, Early, Running, Ranked, Paying

(* A contribution is owed the moment it arrives, the fee on it included.    *)
LEMMA GiftIsOwed ==
    ASSUME TreasuryInv, MoneyInv, OwedIsCounted, OwedIsCounted',
           NEW s, NEW t, NEW amount, NEW shares, Gift(s, t, amount, shares)
    PROVE  /\ amount + FeeOn(amount) \in Nat
           /\ Owed' = Owed + (amount + FeeOn(amount))
           /\ balance' = balance + (amount + FeeOn(amount))
<1> DEFINE fee == FeeOn(amount)
<1>0. Amounts
  BY DEF MoneyInv
<1>1. /\ s \in Party /\ t \in RunningTrack /\ amount \in Nat /\ fee \in Nat
      /\ amount + fee \in Nat
  <2>1. s \in Party /\ t \in RunningTrack /\ amount \in Nat
    BY DEF Gift, Party
  <2>2. fee \in Nat
    BY <2>1, FeeIsNatural
  <2> QED
    BY <2>1, <2>2
<1>2. /\ UNCHANGED <<phase, new_track, ranking, paid, settled, fee_settled>>
      /\ sponsored_fee' = sponsored_fee + fee
      /\ Receive(s, amount + fee)
  BY DEF Gift, Sponsored, lifecycle, payments
<1>3. balance' = balance + (amount + fee)
  BY <1>0, <1>1, <1>2, ReceiveMoves
<1>4. /\ \A status : With(status)' = With(status)
      /\ Payable' = Payable
      /\ \A u : TiersOf(u)' = TiersOf(u) /\ PaidFor(u)' = PaidFor(u)
  <2>1. /\ \A status : With(status)' = With(status)
        /\ \A u : TiersOf(u)' = TiersOf(u) /\ PaidFor(u)' = PaidFor(u)
    BY <1>2 DEF With, TiersOf, PaidFor
  <2> QED
    BY <2>1 DEF Payable, RunningTrack, Places
<1>5. paid = {} /\ (\A p \in Position : settled[p] = {}) /\ ~ fee_settled
  BY NothingPaidYet, WhenPledgesMove
<1>6. OwedFee' = OwedFee + fee /\ OwedOnRequests' = OwedOnRequests
  <2>1. OwedOnRequests' = OwedOnRequests
    BY <1>4 DEF OwedOnRequests
  <2>2. FeeOn(PrizeTotal) \in Nat /\ sponsored_fee \in Nat
    BY <1>0, PrizeTotalIsNatural, FeeIsNatural DEF Amounts
  <2>3. OwedFee = FeeOn(PrizeTotal) + sponsored_fee
    BY <1>5 DEF OwedFee
  <2>4. OwedFee' = FeeOn(PrizeTotal) + sponsored_fee'
    BY <1>2, <1>5 DEF OwedFee
  <2> HIDE DEF fee
  <2> QED
    BY <1>1, <1>2, <2>1, <2>2, <2>3, <2>4
<1>7. OwedAtPlaces' = OwedAtPlaces + amount
  <2> DEFINE f == [p \in Payable |-> Outstanding(p)]
             g == [p \in Payable |-> Outstanding(p)']
             gain == Gain(t, shares)
  <2>1. /\ IsFiniteSet(Payable) /\ NaturalsOn(gain, Payable)
        /\ SumFunctionOnSet(gain, Payable) = amount
        /\ \A p \in Position : bonus'[p] = bonus[p] + gain[p]
    <3>1. \A r \in DOMAIN TiersOf(t) : <<t, r>> \in Payable
      BY <1>1 DEF Payable, Places
    <3>2. Payable \in SUBSET Position
      BY DEF OwedIsCounted
    <3> QED
      BY <1>0, <3>1, <3>2, GiftReaches
  <2>2. \A p \in Payable : Outstanding(p)' = Outstanding(p) + gain[p]
    <3> SUFFICES ASSUME NEW p \in Payable PROVE Outstanding(p)' = Outstanding(p) + gain[p]
      OBVIOUS
    <3>1. p \in Position /\ p \in Payable' /\ settled[p] = {} /\ p \notin paid
      BY <1>4, <1>5 DEF OwedIsCounted
    <3>2. Outstanding(p) = Worth(p) /\ Outstanding(p)' = Worth(p)'
      BY <1>2, <3>1 DEF OwedIsCounted, Untouched
    <3>3. TiersOf(p[1])[p[2]] \in Nat /\ bonus[p] \in Nat /\ gain[p] \in Nat
      <4>1. p[1] \in RunningTrack /\ p[2] \in DOMAIN TiersOf(p[1])
        BY <1>0, PayableIsAPlace DEF Places
      <4> QED
        BY <1>0, <2>1, <3>1, <4>1, RunningTables DEF Amounts, NaturalsOn
    <3>4. Worth(p) = TiersOf(p[1])[p[2]] + bonus[p]
      BY DEF Worth
    <3>5. Worth(p)' = TiersOf(p[1])[p[2]] + bonus'[p]
      BY <1>4 DEF Worth
    <3> HIDE DEF gain
    <3> QED
      BY <2>1, <3>1, <3>2, <3>3, <3>4, <3>5
  <2>3. IntegersOn(f, Payable)
    BY DEF OwedIsCounted, IntegersOn
  <2>4. \A p \in Payable : g[p] = f[p] + gain[p]
    BY <2>2
  <2>5. /\ OwedAtPlaces = SumFunctionOnSet(f, Payable)
        /\ OwedAtPlaces' = SumFunctionOnSet(g, Payable)
    BY <1>4 DEF OwedAtPlaces, SumFunction
  <2> HIDE DEF f, g, gain
  <2>6. IntegersOn(gain, Payable)
    BY <2>1, SumNatural
  <2>7. SumFunctionOnSet(g, Payable) =
           SumFunctionOnSet(f, Payable) + SumFunctionOnSet(gain, Payable)
    BY <2>1, <2>3, <2>4, <2>6, SumPlus
  <2> QED
    BY <2>1, <2>5, <2>7
<1>8. /\ Owed = OwedAtPlaces + OwedFee + OwedOnRequests
      /\ Owed' = OwedAtPlaces' + OwedFee' + OwedOnRequests'
      /\ OwedAtPlaces \in Nat /\ OwedFee \in Nat /\ OwedOnRequests \in Nat
  BY DEF OwedIsCounted
<1> HIDE DEF fee
<1>9. Owed' = Owed + (amount + fee)
  BY <1>1, <1>6, <1>7, <1>8
<1> QED
  BY <1>1, <1>3, <1>9 DEF fee

(* The calls about a track that does not run leave the places alone.        *)
LEMMA PlacesStandStill ==
    ASSUME TreasuryInv, MoneyInv, OwedIsCounted,
           UNCHANGED <<bonus, ranking, paid, settled>>,
           With("accepted")' = With("accepted"),
           \A t \in With("accepted") : new_track'[t].table = new_track[t].table
    PROVE  OwedAtPlaces' = OwedAtPlaces
<1>1. RunningTrack' = RunningTrack /\ \A t \in RunningTrack : TiersOf(t)' = TiersOf(t)
  BY DEF RunningTrack, TiersOf
<1>2. \A t \in RunningTrack : Places(t)' = Places(t)
  BY <1>1 DEF Places
<1>3. Payable' = Payable
  BY <1>1, <1>2 DEF Payable
<1>4. \A p \in Payable : Worth(p)' = Worth(p)
  <2>1. \A p \in Payable : p[1] \in RunningTrack
    BY PayableIsAPlace DEF MoneyInv
  <2> QED
    BY <1>1, <2>1 DEF Worth
<1>5. \A p \in Payable : Outstanding(p)' = Outstanding(p)
  <2> SUFFICES ASSUME NEW p \in Payable PROVE Outstanding(p)' = Outstanding(p)
    OBVIOUS
  <2>1. [m \in settled[p] |-> ShareAt(p, m)'] = [m \in settled[p] |-> ShareAt(p, m)]
    BY <1>4 DEF ShareAt
  <2> QED
    BY <1>4, <2>1 DEF Outstanding
<1> QED
  BY <1>3, <1>5 DEF OwedAtPlaces

(* What a sponsor brings with a request is owed back until it is answered.  *)
LEMMA RequestIsOwed ==
    ASSUME TreasuryInv, MoneyInv, OwedIsCounted, OwedIsCounted',
           NEW s, NEW t, NEW table, Asking(s, t, table)
    PROVE  LET worth == SumFunction(table) + FeeOn(SumFunction(table))
           IN  /\ worth \in Nat
               /\ Owed' = Owed + worth
               /\ balance' = balance + worth
<1> DEFINE worth == SumFunction(table) + FeeOn(SumFunction(table))
           P == With("proposed")
           f == [u \in P |-> PaidFor(u)]
           g == [u \in P \cup {t} |-> PaidFor(u)']
<1>0. Amounts
  BY DEF MoneyInv
<1>1. /\ new_track[t] = NoTrack /\ t \in NewTrack /\ s \in Party
      /\ new_track'[t].status = "proposed"
      /\ new_track'[t].table = table /\ new_track'[t].fee = FeeOn(SumFunction(table))
      /\ \A u \in NewTrack : u # t => new_track'[u] = new_track[u]
      /\ SumFunction(table) \in Nat /\ FeeOn(SumFunction(table)) \in Nat
      /\ Receive(s, worth)
  <2> DEFINE r == [status |-> "proposed", sponsor |-> s, table |-> table,
                   fee |-> FeeOn(SumFunction(table))]
  <2>1. /\ new_track[t] = NoTrack /\ new_track'[t] = r
        /\ \A u \in NewTrack : u # t => new_track'[u] = new_track[u]
        /\ SumFunction(table) \in Nat /\ FeeOn(SumFunction(table)) \in Nat
        /\ Receive(s, worth)
    BY <1>0, RequestAsked
  <2>2. t \in NewTrack /\ s \in Party
    BY DEF Asking, Party
  <2>3. r.status = "proposed" /\ r.table = table /\ r.fee = FeeOn(SumFunction(table))
    OBVIOUS
  <2> HIDE DEF r, worth
  <2> QED
    BY <2>1, <2>2, <2>3
<1>2. worth \in Nat
  BY <1>1
<1>3. balance' = balance + worth
  <2> HIDE DEF worth
  <2> QED
    BY <1>0, <1>1, <1>2, ReceiveMoves
<1>4. UNCHANGED <<bonus, sponsored_fee, ranking, paid, settled, fee_settled>>
  BY DEF Asking, ProposeTrack, payments
<1>5. /\ t \notin P /\ t \notin With("accepted")
      /\ P' = P \cup {t}
      /\ With("accepted")' = With("accepted")
      /\ \A u \in With("accepted") : new_track'[u].table = new_track[u].table
      /\ \A u \in P : PaidFor(u)' = PaidFor(u)
      /\ PaidFor(t)' = worth
  BY <1>1 DEF With, NoTrack, PaidFor
<1>6. OwedAtPlaces' = OwedAtPlaces /\ OwedFee' = OwedFee
  BY <1>4, <1>5, PlacesStandStill DEF OwedFee
<1>7. OwedOnRequests' = OwedOnRequests + worth
  <2>1. IsFiniteSet(P) /\ NaturalsOn(f, P)
    BY DEF OwedIsCounted, NaturalsOn
  <2>2. (\A u \in P : g[u] = f[u]) /\ g[t] = worth
    BY <1>5
  <2>3. /\ OwedOnRequests = SumFunctionOnSet(f, P)
        /\ OwedOnRequests' = SumFunctionOnSet(g, P \cup {t})
    BY <1>5 DEF OwedOnRequests, SumFunction
  <2>4. t \notin P
    BY <1>5
  <2> HIDE DEF f, g, P, worth
  <2>5. g[t] \in Nat
    BY <1>2, <2>2
  <2>6. SumFunctionOnSet(g, P \cup {t}) = SumFunctionOnSet(f, P) + g[t]
    <3>1. Extends(g, f, P, t)
      BY <2>2, <2>4 DEF Extends
    <3> QED
      BY <2>1, <2>5, <3>1, SumExtended
  <2> QED
    BY <2>2, <2>3, <2>6
<1>8. /\ Owed = OwedAtPlaces + OwedFee + OwedOnRequests
      /\ Owed' = OwedAtPlaces' + OwedFee' + OwedOnRequests'
      /\ OwedAtPlaces \in Nat /\ OwedFee \in Nat /\ OwedOnRequests \in Nat
  BY DEF OwedIsCounted
<1> HIDE DEF worth
<1>9. Owed' = Owed + worth
  BY <1>2, <1>6, <1>7, <1>8
<1> QED
  BY <1>2, <1>3, <1>9 DEF worth

(* Either answer takes the request off the list.                            *)
LEMMA RequestAnswered ==
    ASSUME TreasuryInv, MoneyInv, OwedIsCounted,
           NEW t \in NewTrack, AcceptTrack(t) \/ DeclineTrack(t)
    PROVE  /\ PaidFor(t) \in Nat
           /\ OwedOnRequests = PaidFor(t) + OwedOnRequests'
<1> DEFINE P == With("proposed")
           f == [u \in P |-> PaidFor(u)]
           g == [u \in P \ {t} |-> PaidFor(u)']
<1>0. Amounts
  BY DEF MoneyInv
<1>1. /\ new_track[t].status = "proposed"
      /\ new_track'[t].status \in {"accepted", "declined"}
      /\ \A u \in NewTrack : u # t => new_track'[u] = new_track[u]
  BY <1>0, RequestDecided
<1>2. /\ t \in P /\ P' = P \ {t}
      /\ \A u \in P \ {t} : PaidFor(u)' = PaidFor(u)
  BY <1>1 DEF With, PaidFor
<1>3. IsFiniteSet(P) /\ IntegersOn(f, P) /\ IsFiniteSet(P \ {t}) /\ IntegersOn(f, P \ {t})
      /\ PaidFor(t) \in Nat
  <2>1. IsFiniteSet(P) /\ IntegersOn(f, P) /\ PaidFor(t) \in Nat
    BY <1>2 DEF OwedIsCounted, IntegersOn
  <2>2. IsFiniteSet(P \ {t})
    BY <2>1, FS_RemoveElement
  <2> QED
    BY <2>1, <2>2 DEF IntegersOn
<1>4. f[t] = PaidFor(t) /\ \A u \in P \ {t} : g[u] = f[u]
  BY <1>2
<1>5. /\ OwedOnRequests = SumFunctionOnSet(f, P)
      /\ OwedOnRequests' = SumFunctionOnSet(g, P \ {t})
  BY <1>2 DEF OwedOnRequests, SumFunction
<1>6. t \in P
  BY <1>2
<1> HIDE DEF f, g, P
<1>7. SumFunctionOnSet(f, P) = f[t] + SumFunctionOnSet(f, P \ {t})
  BY <1>3, <1>6, SumRemove
<1>8. SumFunctionOnSet(g, P \ {t}) = SumFunctionOnSet(f, P \ {t})
  BY <1>3, <1>4, SumSame
<1> QED
  BY <1>3, <1>4, <1>5, <1>7, <1>8

\* At the places of track t the function f has what table T says.
Tabled(f, t, T) == \A r \in DOMAIN T : f[<<t, r>>] = T[r]

(* Summed over the places of a track, a table is worth its total.           *)
LEMMA PlacesOfATable ==
    ASSUME NEW t, NEW T \in Range(FrozenTable) \cup NewTable, NEW f, Tabled(f, t, T)
    PROVE  /\ IsFiniteSet({<<t, r>> : r \in DOMAIN T})
           /\ SumFunctionOnSet(f, {<<t, r>> : r \in DOMAIN T}) = SumFunction(T)
<1> DEFINE D == DOMAIN T
           h == [r \in D |-> <<t, r>>]
<1>1. IsFiniteSet(D) /\ NaturalsOn(T, D) /\ IntegersOn(T, D)
  <2>1. IsFiniteSet(D) /\ NaturalsOn(T, D)
    BY TableTotal
  <2> QED
    BY <2>1, SumNatural
<1>2. /\ \A x, y \in D : h[x] = h[y] => x = y
      /\ \A x \in D : f[h[x]] = T[x]
  BY DEF Tabled
<1>3. {h[x] : x \in D} = {<<t, r>> : r \in D}
  OBVIOUS
<1> HIDE DEF D, h
<1>4. /\ IsFiniteSet({h[x] : x \in D})
      /\ SumFunctionOnSet(f, {h[x] : x \in D}) = SumFunctionOnSet(T, D)
  BY <1>1, <1>2, SumReindex
<1> QED
  BY <1>3, <1>4 DEF D, SumFunction

(* Accepting a track moves what it brought from the requests to its places  *)
(* and to the fee: as much is owed as before.                               *)
LEMMA AcceptedIsOwed ==
    ASSUME TreasuryInv, MoneyInv, OwedIsCounted, OwedIsCounted',
           NEW t \in NewTrack, AcceptTrack(t)
    PROVE  Owed' = Owed /\ balance' = balance
<1> DEFINE T == new_track[t].table
           L == {<<t, r>> : r \in DOMAIN T}
           P == Payable
           f == [p \in P |-> Outstanding(p)]
           g == [p \in P \cup L |-> Outstanding(p)']
<1>0. Amounts /\ Records /\ AimedAtPlaces
  BY DEF MoneyInv, TreasuryInv
<1>1. /\ phase = "Open" /\ UNCHANGED <<balance, bonus, ranking, paid, settled, fee_settled>>
      /\ sponsored_fee' = sponsored_fee + new_track[t].fee
  BY DEF AcceptTrack, vault, payments
<1>2. /\ new_track[t].status = "proposed" /\ new_track'[t].status = "accepted"
      /\ new_track'[t].table = T
      /\ \A u \in NewTrack : u # t => new_track'[u] = new_track[u]
      /\ T \in NewTable /\ new_track[t].fee \in Nat /\ PaidFor(t) \in Nat
  BY <1>0, RequestDecided, AskedFor
<1>3. /\ paid = {} /\ (\A p \in Position : settled[p] = {}) /\ ~ fee_settled
  BY <1>1, NothingPaidYet DEF Running
<1>4. /\ t \notin RunningTrack /\ t \notin FrozenTrack
      /\ RunningTrack' = RunningTrack \cup {t}
  BY <1>2, MoneyAssumption DEF RunningTrack, With
<1>5. /\ \A u \in RunningTrack : TiersOf(u)' = TiersOf(u) /\ Places(u)' = Places(u)
      /\ TiersOf(t)' = T /\ Places(t)' = L
  <2>1. /\ \A u \in RunningTrack : TiersOf(u)' = TiersOf(u)
        /\ TiersOf(t)' = T
    BY <1>2, <1>4 DEF RunningTrack, With, TiersOf
  <2> QED
    BY <2>1 DEF Places
<1>6. Payable' = P \cup L
  BY <1>4, <1>5 DEF Payable
<1>7. /\ P \cap L = {} /\ L \subseteq Position
      /\ \A p \in P : p[1] \in RunningTrack
  <2>1. \A p \in P : p[1] \in RunningTrack
    BY <1>0, PayableIsAPlace
  <2>2. L \subseteq Position
    BY <1>6 DEF OwedIsCounted
  <2> QED
    BY <1>4, <2>1, <2>2
<1>8. \A p \in P : g[p] = f[p] /\ f[p] \in Nat
  <2> SUFFICES ASSUME NEW p \in P PROVE Outstanding(p)' = Outstanding(p) /\ Outstanding(p) \in Nat
    OBVIOUS
  <2>1. Worth(p)' = Worth(p)
    BY <1>1, <1>5, <1>7 DEF Worth
  <2>2. [m \in settled[p] |-> ShareAt(p, m)'] = [m \in settled[p] |-> ShareAt(p, m)]
    BY <1>1, <2>1 DEF ShareAt
  <2> QED
    BY <1>1, <2>1, <2>2 DEF Outstanding, OwedIsCounted
<1>9. \A r \in DOMAIN T : g[<<t, r>>] = T[r] /\ T[r] \in Nat
  <2> SUFFICES ASSUME NEW r \in DOMAIN T PROVE Outstanding(<<t, r>>)' = T[r] /\ T[r] \in Nat
    OBVIOUS
  <2>1. <<t, r>> \in L /\ <<t, r>> \in Position /\ <<t, r>> \notin P /\ <<t, r>> \in Payable'
    BY <1>6, <1>7
  <2>2. Untouched(<<t, r>>)'
    BY <1>1, <1>3, <2>1 DEF Untouched
  <2>3. Outstanding(<<t, r>>)' = Worth(<<t, r>>)'
    BY <2>1, <2>2 DEF OwedIsCounted
  <2>4. bonus[<<t, r>>] = 0
    BY <1>0, <2>1 DEF AimedAtPlaces
  <2>5. T[r] \in Nat
    BY <1>2, TableTotal DEF NaturalsOn
  <2>6. Worth(<<t, r>>)' = T[r] + bonus[<<t, r>>]
    BY <1>1, <1>5 DEF Worth
  <2> HIDE DEF T
  <2> QED
    BY <2>3, <2>4, <2>5, <2>6
<1>10. IsFiniteSet(L) /\ SumFunctionOnSet(g, L) = SumFunction(T)
  <2>1. Tabled(g, t, T)
    BY <1>9 DEF Tabled
  <2>2. T \in Range(FrozenTable) \cup NewTable
    BY <1>2
  <2> HIDE DEF g, T
  <2> QED
    BY <2>1, <2>2, PlacesOfATable
<1>11. OwedAtPlaces' = OwedAtPlaces + SumFunction(T)
  <2>1. /\ OwedAtPlaces = SumFunctionOnSet(f, P)
        /\ OwedAtPlaces' = SumFunctionOnSet(g, P \cup L)
    BY <1>6 DEF OwedAtPlaces, SumFunction
  <2>2. IntegersOn(f, P) /\ IsFiniteSet(P)
    BY <1>8 DEF IntegersOn, OwedIsCounted
  <2>3. IntegersOn(g, P \cup L)
    BY <1>6 DEF IntegersOn, OwedIsCounted
  <2>4. P \cap L = {} /\ \A p \in P : g[p] = f[p]
    BY <1>7, <1>8
  <2> HIDE DEF f, g, P, L
  <2>5. SumFunctionOnSet(g, P \cup L) = SumFunctionOnSet(g, P) + SumFunctionOnSet(g, L)
    BY <1>10, <2>2, <2>3, <2>4, SumUnion
  <2>6. SumFunctionOnSet(g, P) = SumFunctionOnSet(f, P)
    BY <2>2, <2>4, SumSame
  <2> QED
    BY <1>10, <2>1, <2>5, <2>6
<1>12. OwedFee' = OwedFee + new_track[t].fee
  <2>1. FeeOn(PrizeTotal) \in Nat /\ sponsored_fee \in Nat
    BY <1>0, PrizeTotalIsNatural, FeeIsNatural DEF Amounts
  <2>2. OwedFee = FeeOn(PrizeTotal) + sponsored_fee
    BY <1>3 DEF OwedFee
  <2>3. OwedFee' = FeeOn(PrizeTotal) + sponsored_fee'
    BY <1>1, <1>3 DEF OwedFee
  <2> QED
    BY <1>1, <1>2, <2>1, <2>2, <2>3
<1>13. OwedOnRequests = (SumFunction(T) + new_track[t].fee) + OwedOnRequests'
  <2>1. OwedOnRequests = PaidFor(t) + OwedOnRequests'
    BY RequestAnswered
  <2> QED
    BY <2>1 DEF PaidFor
<1>14. /\ Owed = OwedAtPlaces + OwedFee + OwedOnRequests
       /\ Owed' = OwedAtPlaces' + OwedFee' + OwedOnRequests'
       /\ OwedAtPlaces \in Nat /\ OwedFee \in Nat /\ OwedOnRequests \in Nat
       /\ OwedOnRequests' \in Nat
  BY DEF OwedIsCounted
<1>15. SumFunction(T) \in Nat /\ new_track[t].fee \in Nat
  BY <1>2, TableTotal
<1> HIDE DEF T
<1>16. Owed' = Owed
  BY <1>11, <1>12, <1>13, <1>14, <1>15
<1> QED
  BY <1>1, <1>16

(* A declined request is paid back and no longer owed.                      *)
LEMMA DeclinedIsDischarged ==
    ASSUME TreasuryInv, MoneyInv, OwedIsCounted, OwedIsCounted',
           NEW t \in NewTrack, DeclineTrack(t)
    PROVE  /\ PaidFor(t) \in Nat
           /\ Owed = Owed' + PaidFor(t)
           /\ balance' \in Nat /\ balance' = balance - PaidFor(t)
<1>0. Amounts
  BY DEF MoneyInv
<1>1. /\ UNCHANGED <<bonus, sponsored_fee, ranking, paid, settled, fee_settled>>
      /\ Pay(To(new_track[t].sponsor, PaidFor(t)))
  BY DEF DeclineTrack, payments
<1>2. PaidFor(t) \in Nat /\ new_track[t].sponsor \in Party
  BY <1>0, RequestDecided, AskedFor
<1>3. /\ new_track[t].status = "proposed"
      /\ new_track'[t].status \in {"accepted", "declined"}
      /\ \A u \in NewTrack : u # t => new_track'[u] = new_track[u]
  BY <1>0, RequestDecided
<1>4. new_track'[t].status = "declined"
  <2>1. new_track[t] \in Asked
    BY <1>0, RequestDecided, AskedFor
  <2>2. /\ new_track' = [new_track EXCEPT ![t].status = "declined"]
        /\ new_track \in [NewTrack -> {NoTrack} \cup Asked]
    BY <1>0 DEF DeclineTrack, Amounts
  <2> QED
    BY <2>1, <2>2 DEF Asked
<1>5. /\ With("accepted")' = With("accepted")
      /\ \A u \in With("accepted") : new_track'[u].table = new_track[u].table
  BY <1>3, <1>4 DEF With
<1>6. OwedAtPlaces' = OwedAtPlaces /\ OwedFee' = OwedFee
  BY <1>1, <1>5, PlacesStandStill DEF OwedFee
<1>7. OwedOnRequests = PaidFor(t) + OwedOnRequests'
  BY RequestAnswered
<1>8. /\ Owed = OwedAtPlaces + OwedFee + OwedOnRequests
      /\ Owed' = OwedAtPlaces' + OwedFee' + OwedOnRequests'
      /\ OwedAtPlaces \in Nat /\ OwedFee \in Nat /\ OwedOnRequests' \in Nat
  BY DEF OwedIsCounted
<1>9. Owed = Owed' + PaidFor(t)
  BY <1>2, <1>6, <1>7, <1>8
<1>10. balance' \in Nat /\ balance' = balance - PaidFor(t)
  <2>1. /\ To(new_track[t].sponsor, PaidFor(t)) \in [Party -> Nat]
        /\ SumFunction(To(new_track[t].sponsor, PaidFor(t))) = PaidFor(t)
    BY <1>2, ToOne
  <2> QED
    BY <1>0, <1>1, <2>1, PayMoves
<1> QED
  BY <1>2, <1>9, <1>10

-----------------------------------------------------------------------------
(***************************************************************************)
(* Payments discharge what they pay.                                       *)
(***************************************************************************)

(* A payment that records nothing at a position leaves what is left there.  *)
LEMMA OthersStand ==
    ASSUME UNCHANGED <<pledges, ranking>>, NEW q,
           q \in paid' <=> q \in paid, settled'[q] = settled[q]
    PROVE  Outstanding(q)' = Outstanding(q)
<1>1. Worth(q)' = Worth(q)
  BY PledgesStand
<1>2. [m \in settled[q] |-> ShareAt(q, m)'] = [m \in settled[q] |-> ShareAt(q, m)]
  BY <1>1 DEF ShareAt
<1> QED
  BY <1>1, <1>2 DEF Outstanding

(* With the pledges and the fee as they were, what is owed changes by what  *)
(* is owed at the places.                                                   *)
LEMMA OnlyPlacesMove ==
    ASSUME OwedIsCounted, OwedIsCounted', UNCHANGED <<pledges, fee_settled>>,
           NEW d \in Int, OwedAtPlaces = OwedAtPlaces' + d
    PROVE  Owed = Owed' + d
<1>1. OwedFee' = OwedFee
  BY DEF OwedFee, pledges
<1>2. OwedOnRequests' = OwedOnRequests
  BY PledgesStand DEF OwedOnRequests
<1>3. /\ Owed = OwedAtPlaces + OwedFee + OwedOnRequests
      /\ Owed' = OwedAtPlaces' + OwedFee' + OwedOnRequests'
      /\ OwedAtPlaces' \in Nat /\ OwedFee \in Nat /\ OwedOnRequests \in Nat
  BY DEF OwedIsCounted
<1> QED
  BY <1>1, <1>2, <1>3

(* Sweeping a position nobody won discharges all it was worth.              *)
LEMMA SweptIsDischarged ==
    ASSUME TreasuryInv, MoneyInv, OwedIsCounted, OwedIsCounted',
           NEW p \in Position, SweepUnclaimed(p)
    PROVE  /\ Worth(p) \in Nat /\ Worth(p) > 0
           /\ Owed = Owed' + Worth(p)
           /\ balance' \in Nat /\ balance' = balance - Worth(p)
           /\ UNCHANGED phase
<1>0. Amounts
  BY DEF MoneyInv
<1>1. /\ p \in Payable /\ p \notin paid /\ ranking[p] = Nobody
      /\ paid' = paid \cup {p}
      /\ Pay(To(RefundTarget(p[1]), Worth(p)))
      /\ UNCHANGED <<phase, pledges, ranking, settled, fee_settled>>
  BY DEF SweepUnclaimed, Sweepable, lifecycle
<1>2. Worth(p) \in Nat /\ Worth(p) > 0 /\ RefundTarget(p[1]) \in Party
  BY <1>0, <1>1, PayableIsAPlace
<1>3. Outstanding(p) = Worth(p)
  <2>1. settled[p] = {}
    BY <1>1 DEF TreasuryInv, Counted
  <2> QED
    BY <1>1, <2>1 DEF OwedIsCounted, Untouched
<1>4. Outstanding(p)' = 0
  <2>1. p \in paid'
    BY <1>1
  <2> QED
    BY <2>1 DEF Outstanding
<1>5. \A q \in Payable : q # p => Outstanding(q)' = Outstanding(q)
  BY <1>1, OthersStand
<1>6. Payable' = Payable
  BY <1>1, PledgesStand
<1>7. OwedAtPlaces' = OwedAtPlaces + (Outstanding(p)' - Outstanding(p))
  BY <1>1, <1>4, <1>5, <1>6, OnePlaceMoves
<1>8. OwedAtPlaces = OwedAtPlaces' + Worth(p)
  <2>1. OwedAtPlaces \in Nat
    BY DEF OwedIsCounted
  <2> QED
    BY <1>2, <1>3, <1>4, <1>7, <2>1
<1>9. Owed = Owed' + Worth(p)
  BY <1>1, <1>2, <1>8, OnlyPlacesMove
<1>10. balance' \in Nat /\ balance' = balance - Worth(p)
  <2>1. /\ To(RefundTarget(p[1]), Worth(p)) \in [Party -> Nat]
        /\ SumFunction(To(RefundTarget(p[1]), Worth(p))) = Worth(p)
    BY <1>2, ToOne
  <2> QED
    BY <1>0, <1>1, <2>1, PayMoves
<1> QED
  BY <1>1, <1>2, <1>9, <1>10

\* What settle_platform_fee pays: the cut on the table and on what sponsors brought.
TheFee == FeeOn(PrizeTotal) + sponsored_fee

(* The fee, once paid, is no longer owed.                                   *)
LEMMA FeeIsDischarged ==
    ASSUME TreasuryInv, MoneyInv, OwedIsCounted, OwedIsCounted', SettlePlatformFee
    PROVE  /\ TheFee \in Nat
           /\ Owed = Owed' + TheFee
           /\ balance' \in Nat /\ balance' = balance - TheFee
           /\ UNCHANGED phase
<1>0. Amounts
  BY DEF MoneyInv
<1>1. /\ ~ fee_settled /\ fee_settled'
      /\ UNCHANGED <<phase, pledges, ranking, paid, settled>>
  BY DEF SettlePlatformFee, lifecycle
<1>2. TheFee \in Nat /\ Pay(To(Platform, TheFee))
  BY <1>0, FeePayment DEF TheFee
<1>3. \A q \in Payable : Outstanding(q)' = Outstanding(q)
  BY <1>1, OthersStand
<1>4. OwedAtPlaces' = OwedAtPlaces /\ OwedOnRequests' = OwedOnRequests
  <2>1. Payable' = Payable
    BY <1>1, PledgesStand
  <2> QED
    BY <1>1, <1>3, <2>1, PledgesStand DEF OwedAtPlaces, OwedOnRequests
<1>5. OwedFee = TheFee /\ OwedFee' = 0
  BY <1>1 DEF OwedFee, TheFee
<1>6. /\ Owed = OwedAtPlaces + OwedFee + OwedOnRequests
      /\ Owed' = OwedAtPlaces' + OwedFee' + OwedOnRequests'
      /\ OwedAtPlaces \in Nat /\ OwedOnRequests \in Nat
  BY DEF OwedIsCounted
<1>7. balance' \in Nat /\ balance' = balance - TheFee
  <2>1. To(Platform, TheFee) \in [Party -> Nat] /\ SumFunction(To(Platform, TheFee)) = TheFee
    <3>1. Platform \in Party
      BY DEF Party
    <3> QED
      BY <1>2, <3>1, ToOne
  <2> QED
    BY <1>0, <1>2, <2>1, PayMoves
<1>8. Owed = Owed' + TheFee
  BY <1>2, <1>4, <1>5, <1>6
<1> QED
  BY <1>1, <1>2, <1>7, <1>8

(* Handing over shares discharges exactly those shares, whoever they go to: *)
(* the last of them closes the position with nothing left over.             *)
LEMMA SharesAreDischarged ==
    ASSUME TreasuryInv, TreasuryInv', MoneyInv, OwedIsCounted, OwedIsCounted',
           LeftIsShared, LeftIsShared',
           NEW p, NEW who, NEW due, Handing(p, who, due)
    PROVE  /\ SumFunction(due) \in Nat
           /\ Owed = Owed' + SumFunction(due)
           /\ balance' \in Nat /\ balance' = balance - SumFunction(due)
           /\ UNCHANGED phase
<1> DEFINE M == MembersOf(ranking[p])
           S == settled[p]
           handed == [m \in who |-> ShareAt(p, m)]
<1> PICK f : f = [m \in M |-> ShareAt(p, m)]
  OBVIOUS
<1>0. Amounts
  BY DEF MoneyInv
<1>1. /\ p \in Payable /\ p \notin paid /\ p \in Position
      /\ ranking[p] # Nobody
      /\ who \in SUBSET (M \ S)
      /\ settled' = [settled EXCEPT ![p] = @ \cup who]
      /\ paid' \in {paid, paid \cup {p}}
      /\ due \in [Party -> Nat] /\ Pay(due)
      /\ SumFunction(due) = SumFunctionOnSet(handed, who)
      /\ UNCHANGED <<phase, pledges, ranking, no_award, fee_settled>>
  BY DEF Handing, RecordShares, lifecycle
<1>2. /\ settled'[p] = S \cup who
      /\ \A q \in Position : q # p => settled'[q] = settled[q]
  BY <1>1 DEF TreasuryInv, Records
<1>3. IsFiniteSet(M) /\ NaturalsOn(f, M) /\ S \subseteq M
  <2>1. \A m \in M : f[m] = ShareAt(p, m)
    OBVIOUS
  <2>2. S \subseteq M
    BY <1>1 DEF TreasuryInv, Counted
  <2>3. IsFiniteSet(M)
    BY <1>0, <1>1, SharesAt
  <2>4. NaturalsOn(f, M)
    BY <1>0, <1>1, <2>1, SharesAt
  <2> QED
    BY <2>2, <2>3, <2>4
<1>4. SharedBy(p, f)
  BY DEF SharedBy
<1>5. SharedBy(p, f)'
  <2>1. Worth(p)' = Worth(p)
    BY <1>1, PledgesStand
  <2> QED
    BY <1>1, <2>1 DEF SharedBy, ShareAt
<1>6. Outstanding(p) = SumFunctionOnSet(f, M \ S)
  <2> QED
    BY <1>1, <1>4 DEF LeftIsShared
<1>7. Payable' = Payable
  BY <1>1, PledgesStand
<1>8. Outstanding(p)' = SumFunctionOnSet(f, M \ (S \cup who))
  <2>1. CASE p \in paid'
    <3>1. ~ Declared(p[1])'
      <4>1. p[1] \in Track /\ p \in Places(p[1])
        BY <1>0, <1>1, PayableIsAPlace DEF Position
      <4>2. ~ Declared(p[1])
        BY <1>1, <4>1 DEF TreasuryInv, WithheldIsClosed
      <4> QED
        BY <1>1, <4>2 DEF Declared
    <3>2. settled'[p] = M
      BY <1>1, <2>1, <3>1 DEF TreasuryInv, Closing
    <3>3. M \ (S \cup who) = {}
      BY <1>2, <3>2
    <3>4. Outstanding(p)' = 0
      BY <2>1 DEF Outstanding
    <3> HIDE DEF M, S
    <3> QED
      BY <3>3, <3>4, SumEmpty
  <2>2. CASE p \notin paid'
    <3>1. p \in Payable' /\ p \notin paid' /\ ranking'[p] # Nobody
      BY <1>1, <1>7, <2>2
    <3>2. Outstanding(p)' = SumFunctionOnSet(f, MembersOf(ranking'[p]) \ settled'[p])
      BY <1>5, <3>1 DEF LeftIsShared
    <3> QED
      BY <1>1, <1>2, <3>2
  <2> QED
    BY <2>1, <2>2
<1>9. /\ Outstanding(p) = Outstanding(p)' + SumFunction(due)
      /\ SumFunction(due) \in Nat /\ Outstanding(p)' \in Nat
  <2>1. \A m \in who : handed[m] = f[m]
    BY <1>1
  <2>2. M \ S \in SUBSET M /\ (M \ S) \ who = M \ (S \cup who) /\ who \in SUBSET (M \ S)
    BY <1>1
  <2> HIDE DEF M, S, handed
  <2>3. IsFiniteSet(M \ S) /\ NaturalsOn(f, M \ S)
    BY <1>3, <2>2, FS_Subset DEF NaturalsOn
  <2>4. /\ IsFiniteSet(who)
        /\ SumFunctionOnSet(f, M \ S) =
              SumFunctionOnSet(f, who) + SumFunctionOnSet(f, (M \ S) \ who)
        /\ SumFunctionOnSet(f, who) \in Nat
        /\ SumFunctionOnSet(f, (M \ S) \ who) \in Nat
    BY <2>2, <2>3, SumPart
  <2>5. IntegersOn(f, who)
    BY <2>2, <2>3 DEF NaturalsOn, IntegersOn
  <2>6. SumFunctionOnSet(handed, who) = SumFunctionOnSet(f, who)
    BY <2>1, <2>4, <2>5, SumSame
  <2>7. (M \ S) \ who = M \ (S \cup who)
    BY <2>2
  <2>8. Outstanding(p)' = SumFunctionOnSet(f, (M \ S) \ who)
    BY <1>8, <2>7
  <2>9. SumFunction(due) = SumFunctionOnSet(f, who)
    BY <1>1, <2>6
  <2> QED
    BY <1>6, <2>4, <2>8, <2>9
<1>10. \A q \in Payable : q # p => Outstanding(q)' = Outstanding(q)
  <2> SUFFICES ASSUME NEW q \in Payable, q # p PROVE Outstanding(q)' = Outstanding(q)
    OBVIOUS
  <2>1. q \in Position
    BY DEF OwedIsCounted
  <2>2. settled'[q] = settled[q] /\ (q \in paid' <=> q \in paid)
    BY <1>1, <1>2, <2>1
  <2> QED
    BY <1>1, <2>2, OthersStand
<1>11. OwedAtPlaces = OwedAtPlaces' + SumFunction(due)
  <2>1. OwedAtPlaces' = OwedAtPlaces + (Outstanding(p)' - Outstanding(p))
    BY <1>1, <1>7, <1>9, <1>10, OnePlaceMoves
  <2>2. OwedAtPlaces \in Nat
    BY DEF OwedIsCounted
  <2> QED
    BY <1>9, <2>1, <2>2
<1>12. Owed = Owed' + SumFunction(due)
  BY <1>1, <1>9, <1>11, OnlyPlacesMove
<1>13. balance' \in Nat /\ balance' = balance - SumFunction(due)
  BY <1>0, <1>1, PayMoves
<1> QED
  BY <1>1, <1>9, <1>12, <1>13

(* A declared no award discharges every place of its track for what it was  *)
(* worth: the table's part and the contributions' part together.            *)
LEMMA WithheldIsDischarged ==
    ASSUME TreasuryInv, MoneyInv, OwedIsCounted, OwedIsCounted',
           NEW t \in Track, ResolveNoAward(t), no_award[t].approvals >= NoAwardThreshold
    PROVE  /\ SumFunction(Withheld(t)) \in Nat
           /\ Owed = Owed' + SumFunction(Withheld(t))
           /\ balance' \in Nat /\ balance' = balance - SumFunction(Withheld(t))
           /\ UNCHANGED phase
<1> DEFINE L == Places(t)
           P == Payable
           f == [p \in P |-> Outstanding(p)]
           g == [p \in P |-> Outstanding(p)']
           w == [p \in L |-> Worth(p)]
<1>0. Amounts /\ BonusesAreContributions /\ AimedAtPlaces
  BY DEF MoneyInv
<1>1. /\ phase = "Finalization"
      /\ paid' = paid \cup L /\ Pay(Withheld(t))
      /\ UNCHANGED <<phase, pledges, ranking, settled, fee_settled>>
  BY DEF ResolveNoAward, lifecycle
<1>2. t \in RunningTrack /\ L \cap paid = {}
  BY NothingClosedYet
<1>3. L \in SUBSET P
  BY <1>2 DEF Payable
<1>4. /\ Withheld(t) \in [Party -> Nat]
      /\ SumFunction(Withheld(t)) = SumFunctionOnSet(w, L)
  BY <1>0, <1>2, WithheldIsTheWorth
<1>5. /\ SumFunction(Withheld(t)) \in Nat
      /\ balance' \in Nat /\ balance' = balance - SumFunction(Withheld(t))
  BY <1>0, <1>1, <1>4, PayMoves
<1>6. \A p \in L : f[p] = w[p] /\ g[p] = 0
  <2> SUFFICES ASSUME NEW p \in L PROVE Outstanding(p) = Worth(p) /\ Outstanding(p)' = 0
    BY <1>3
  <2>1. p \in Position /\ p \in P
    BY <1>3 DEF OwedIsCounted
  <2>2. settled[p] = {}
    BY <1>1, <2>1 DEF TreasuryInv, Unsettled, Paying
  <2>3. Untouched(p)
    BY <1>2, <2>2 DEF Untouched
  <2>4. p \in paid'
    BY <1>1
  <2> QED
    BY <2>1, <2>3, <2>4 DEF OwedIsCounted, Outstanding
<1>7. \A p \in P \ L : g[p] = f[p]
  <2> SUFFICES ASSUME NEW p \in P, p \notin L PROVE Outstanding(p)' = Outstanding(p)
    OBVIOUS
  <2>1. p \in paid' <=> p \in paid
    BY <1>1
  <2> QED
    BY <1>1, <2>1, OthersStand
<1>8. IsFiniteSet(P) /\ NaturalsOn(f, P) /\ IntegersOn(g, P)
  <2>1. Payable' = P
    BY <1>1, PledgesStand
  <2> QED
    BY <2>1 DEF OwedIsCounted, NaturalsOn, IntegersOn
<1>9. OwedAtPlaces = SumFunctionOnSet(f, P) /\ OwedAtPlaces' = SumFunctionOnSet(g, P)
  <2>1. Payable' = P
    BY <1>1, PledgesStand
  <2> QED
    BY <2>1 DEF OwedAtPlaces, SumFunction
<1>10. OwedAtPlaces = OwedAtPlaces' + SumFunction(Withheld(t))
  <2> HIDE DEF L, P, f, g, w
  <2>1. /\ IsFiniteSet(L)
        /\ SumFunctionOnSet(f, P) = SumFunctionOnSet(f, L) + SumFunctionOnSet(f, P \ L)
        /\ SumFunctionOnSet(f, L) \in Nat
        /\ SumFunctionOnSet(f, P \ L) \in Nat
    BY <1>3, <1>8, SumPart
  <2>2. IntegersOn(f, L) /\ IntegersOn(f, P \ L) /\ IsFiniteSet(P \ L)
    <3>1. IntegersOn(f, L) /\ IntegersOn(f, P \ L)
      BY <1>3, <1>8 DEF NaturalsOn, IntegersOn
    <3>2. IsFiniteSet(P \ L)
      BY <1>8, FS_Subset
    <3> QED
      BY <3>1, <3>2
  <2>3. SumFunctionOnSet(w, L) = SumFunctionOnSet(f, L)
    BY <1>6, <2>1, <2>2, SumSame
  <2>4. SumFunctionOnSet(g, L) = 0
    BY <1>6, <2>1, SumZero
  <2>5. SumFunctionOnSet(g, P \ L) = SumFunctionOnSet(f, P \ L)
    BY <1>7, <2>2, SumSame
  <2>6. SumFunctionOnSet(g, P) = SumFunctionOnSet(g, L) + SumFunctionOnSet(g, P \ L)
    <3>1. L \cap (P \ L) = {} /\ L \cup (P \ L) = P
      BY <1>3
    <3> QED
      BY <1>8, <2>1, <2>2, <3>1, SumUnion
  <2> QED
    BY <1>4, <1>9, <2>1, <2>3, <2>4, <2>5, <2>6
<1>11. Owed = Owed' + SumFunction(Withheld(t))
  BY <1>1, <1>5, <1>10, OnlyPlacesMove
<1> QED
  BY <1>1, <1>5, <1>11

-----------------------------------------------------------------------------
(***************************************************************************)
(* The treasury keeps the promise of Escrow.                               *)
(***************************************************************************)

(* What publication takes on is the table and the fee on it, no more.       *)
LEMMA AnnouncedIsOwed ==
    ASSUME TreasuryInv, MoneyInv, OwedIsCounted, phase \in Early
    PROVE  Owed = RequiredFunding
<1> DEFINE F == FrozenTrack
           P == [t \in F |-> Places(t)]
           f == [p \in Payable |-> Outstanding(p)]
           g == [t \in F |-> SumFunction(FrozenTable[t])]
<1>1. /\ \A p \in Position : bonus[p] = 0
      /\ sponsored_fee = 0
      /\ \A t \in NewTrack : new_track[t] = NoTrack
  BY DEF MoneyInv, Unsponsored
<1>2. /\ paid = {} /\ (\A p \in Position : settled[p] = {}) /\ ~ fee_settled
  BY NothingPaidYet
<1>3. \A t \in NewTrack : new_track[t].status = "none"
  BY <1>1 DEF NoTrack
<1>4. With("accepted") = {} /\ With("proposed") = {}
  BY <1>3 DEF With
<1>5. RunningTrack = F /\ \A t \in F : TiersOf(t) = FrozenTable[t]
  BY <1>4 DEF RunningTrack, TiersOf
<1>6. \A t \in F : P[t] = {<<t, r>> : r \in DOMAIN FrozenTable[t]}
  BY <1>5 DEF Places
<1>7. Divides(P, F, Payable)
  <2>1. \A x : x \in Payable <=> \E t \in F : x \in Places(t)
    BY <1>5 DEF Payable
  <2>2. \A t \in F : \A u \in F : t # u => Places(t) \cap Places(u) = {}
    BY DEF Places
  <2> QED
    BY <2>1, <2>2 DEF Divides
<1>8. \A t \in F : Tabled(f, t, FrozenTable[t])
  <2> SUFFICES ASSUME NEW t \in F, NEW r \in DOMAIN FrozenTable[t]
               PROVE  f[<<t, r>>] = FrozenTable[t][r]
    BY DEF Tabled
  <2>1. <<t, r>> \in P[t]
    BY <1>6
  <2>2. <<t, r>> \in Payable
    BY <1>5, <2>1 DEF Payable
  <2>3. <<t, r>> \in Position
    BY <2>2 DEF OwedIsCounted
  <2>4. Outstanding(<<t, r>>) = Worth(<<t, r>>)
    BY <1>2, <2>2, <2>3 DEF OwedIsCounted, Untouched
  <2>5. FrozenTable[t][r] \in Nat
    BY FrozenTables, TableTotal DEF NaturalsOn
  <2>6. Worth(<<t, r>>) = FrozenTable[t][r] + bonus[<<t, r>>]
    BY <1>5 DEF Worth
  <2> QED
    BY <1>1, <2>2, <2>3, <2>4, <2>5, <2>6
<1>9. OwedAtPlaces = PrizeTotal
  <2>1. OwedAtPlaces = SumFunctionOnSet(f, Payable) /\ PrizeTotal = SumFunctionOnSet(g, F)
    BY DEF OwedAtPlaces, PrizeTotal, SumFunction
  <2>2. \A t \in F : FrozenTable[t] \in Range(FrozenTable) \cup NewTable
    BY FrozenTables
  <2>3. IntegersOn(f, Payable)
    BY DEF OwedIsCounted, IntegersOn
  <2>4. \A t \in F : g[t] = SumFunction(FrozenTable[t])
    OBVIOUS
  <2>5. IsFiniteSet(F)
    BY FinitelyMany
  <2> HIDE DEF P, f, g, F
  <2>6. \A t \in F : IsFiniteSet(P[t]) /\ SumFunctionOnSet(f, P[t]) = SumFunction(FrozenTable[t])
    <3> SUFFICES ASSUME NEW t \in F
                 PROVE  IsFiniteSet(P[t]) /\ SumFunctionOnSet(f, P[t]) = SumFunction(FrozenTable[t])
      OBVIOUS
    <3> QED
      BY <1>6, <1>8, <2>2, PlacesOfATable
  <2>7. \A t \in F : IntegersOn(f, P[t])
    BY <1>7, <2>3 DEF IntegersOn, Divides
  <2>8. \A t \in F : g[t] = SumFunctionOnSet(f, P[t])
    BY <2>4, <2>6
  <2>9. \A t \in F : IsFiniteSet(P[t])
    BY <2>6
  <2> QED
    BY <1>7, <2>1, <2>5, <2>7, <2>8, <2>9, SumFamily
<1>10. OwedOnRequests = 0
  <2> DEFINE h == [t \in With("proposed") |-> PaidFor(t)]
  <2>1. OwedOnRequests = SumFunctionOnSet(h, DOMAIN h) /\ DOMAIN h = {}
    BY <1>4 DEF OwedOnRequests, SumFunction
  <2> HIDE DEF h
  <2> QED
    BY <2>1, SumEmpty
<1>11. OwedFee = FeeOn(PrizeTotal) /\ PrizeTotal \in Nat /\ FeeOn(PrizeTotal) \in Nat
  BY <1>1, <1>2, PrizeTotalIsNatural, FeeIsNatural DEF OwedFee
<1> HIDE DEF F, P, f, g
<1> QED
  BY <1>9, <1>10, <1>11 DEF OwedIsCounted, RequiredFunding

\* The state of Escrow that a state of the treasury stands for.
Due   == IF Published THEN Owed ELSE 0
Stand == CASE phase \in {"Draft", "Funding"} -> "forming"
           [] phase = "Cancelled"            -> "cancelled"
           [] OTHER                          -> "open"

(* The three stages of Escrow in terms of the phase.                        *)
LEMMA WhereItStands ==
    /\ phase \in Early => Stand = "forming" /\ Due = 0
    /\ phase = "Cancelled" => Stand = "cancelled" /\ Due = 0
    /\ phase \notin Early \cup {"Cancelled"} => Stand = "open" /\ Due = Owed
    /\ Stand = "open" <=> Published
    /\ Published => Due = Owed
    /\ Stand \in {"forming", "open", "cancelled"}
BY DEF Early, Due, Stand, Published

(* The same of the state a step leads to.                                   *)
LEMMA WhereItWillStand ==
    /\ phase' \in Early => Stand' = "forming" /\ Due' = 0
    /\ phase' = "Cancelled" => Stand' = "cancelled" /\ Due' = 0
    /\ phase' \notin Early \cup {"Cancelled"} => Stand' = "open" /\ Due' = Owed'
BY DEF Early, Due, Stand, Published

(* The actions of Escrow, in terms of the treasury.                         *)
LEMMA EscrowInTheTreasury ==
    /\ E!EscrowInit <=> balance = 0 /\ Due = 0 /\ Stand = "forming"
    /\ E!Give <=> balance' \in Nat /\ balance' > balance /\ Due' = Due /\ Stand' = Stand
    /\ E!Open <=> /\ Stand = "forming" /\ Stand' = "open" /\ Due' = RequiredFunding
                  /\ balance' \in Nat /\ balance' >= balance /\ balance' >= RequiredFunding
    /\ E!Promise <=> /\ Stand = "open" /\ Stand' = Stand
                     /\ Due' \in Nat /\ Due' > Due
                     /\ balance' = balance + (Due' - Due)
    /\ E!Discharge <=> /\ Stand = "open" /\ Stand' = Stand
                       /\ Due' \in Nat /\ Due' < Due
                       /\ balance' = balance - (Due - Due')
    /\ E!Return <=> /\ Stand # "cancelled" /\ Stand' = "cancelled"
                    /\ balance' = 0 /\ Due' = 0
    /\ E!Leak <=> /\ Stand = "cancelled" /\ Stand' = Stand
                  /\ balance' \in Nat /\ balance' < balance /\ Due' = Due
    /\ UNCHANGED E!escrow <=> balance' = balance /\ Due' = Due /\ Stand' = Stand
    /\ E!Covered <=> (Stand = "open" => balance >= Due)
BY DEF Due, Stand, E!EscrowInit, E!Give, E!Open, E!Promise, E!Discharge, E!Return, E!Leak,
   E!escrow, E!Covered

(* A promise that brings its money, and a payment that discharges what it   *)
(* pays, keep a covered pool covered.                                       *)
LEMMA Balances ==
    ASSUME NEW h \in Nat, NEW o \in Nat, NEW p \in Nat, h >= o
    PROVE  /\ p > o => h + (p - o) \in Nat /\ h + (p - o) >= p
           /\ p < o => h - (o - p) \in Nat /\ h - (o - p) >= p
OBVIOUS

(* Two amounts that change by as much both grow, both shrink or both stay.  *)
LEMMA Evenly ==
    ASSUME NEW h \in Nat, NEW k \in Nat, NEW o \in Nat, NEW p \in Nat, k - h = p - o
    PROVE  \/ p > o /\ k = h + (p - o)
           \/ p < o /\ k = h - (o - p)
           \/ p = o /\ k = h
OBVIOUS

(* An open event stays even: what a step adds to the vault it adds to what  *)
(* is owed, and what it takes out it takes off; only a gift that aims at    *)
(* nothing lifts the vault alone.                                           *)
LEMMA OpenStep ==
    ASSUME TreasuryInv, TreasuryInv', MoneyInv, MoneyInv', [TreasuryNext]_everything,
           phase \notin Early \cup {"Cancelled"}, phase' # "Cancelled"
    PROVE  \/ balance' - balance = Owed' - Owed
           \/ balance' > balance /\ Owed' = Owed
<1>0. Amounts /\ Amounts' /\ OwedIsCounted /\ OwedIsCounted' /\ LeftIsShared /\ LeftIsShared'
  <2>1. Amounts /\ Amounts'
    BY DEF MoneyInv
  <2> QED
    BY <2>1, Counting, StillCounting, LeftAreShares, StillShared
<1>1. balance \in Nat /\ balance' \in Nat /\ Owed \in Nat /\ Owed' \in Nat
  BY <1>0 DEF Amounts, OwedIsCounted
<1>2. ASSUME UNCHANGED <<pledges, payments, ranking>>
      PROVE  Owed' = Owed
  BY <1>2, NothingDischarged
<1>3. CASE Elsewhere \/ UNCHANGED everything
  <2>1. UNCHANGED <<pledges, payments, ranking, balance>>
    BY <1>3 DEF Elsewhere, everything, treasury, vault
  <2> QED
    BY <1>1, <1>2, <2>1
<1>4. CASE FundAndPublish
  BY <1>4 DEF FundAndPublish, SetUp, Early
<1>5. ASSUME NEW from \in {Organizer, Donor}, NEW amount \in Amount, Deposit(from, amount)
      PROVE  balance' > balance /\ Owed' = Owed
  <2>1. Receive(from, amount) /\ UNCHANGED <<pledges, payments, ranking>>
    BY <1>5 DEF Deposit
  <2>2. from \in Party /\ amount \in Nat /\ amount > 0
    BY MoneyAssumption DEF Party
  <2>3. balance' = balance + amount
    BY <1>0, <2>1, <2>2, ReceiveMoves
  <2> QED
    BY <1>1, <1>2, <2>1, <2>2, <2>3
<1>6. CASE (\E p \in Unprepared : Prepare(p)) \/ (\E t : Moving(t))
  <2>1. UNCHANGED <<pledges, payments, ranking, balance>>
    BY <1>6 DEF Prepare, Moving, OpenNoAward, ApproveNoAward, vault
  <2> QED
    BY <1>1, <1>2, <2>1
<1>7. ASSUME NEW s, NEW t, NEW amount, NEW shares, Gift(s, t, amount, shares)
      PROVE  balance' - balance = Owed' - Owed
  <2>1. /\ amount + FeeOn(amount) \in Nat
        /\ Owed' = Owed + (amount + FeeOn(amount))
        /\ balance' = balance + (amount + FeeOn(amount))
    BY <1>0, <1>7, GiftIsOwed
  <2> QED
    BY <1>1, <2>1
<1>8. ASSUME NEW s, NEW t, NEW table, Asking(s, t, table)
      PROVE  balance' - balance = Owed' - Owed
  <2> DEFINE worth == SumFunction(table) + FeeOn(SumFunction(table))
  <2>1. worth \in Nat /\ Owed' = Owed + worth /\ balance' = balance + worth
    BY <1>0, <1>8, RequestIsOwed
  <2> HIDE DEF worth
  <2> QED
    BY <1>1, <2>1
<1>9. ASSUME NEW t \in NewTrack, AcceptTrack(t)
      PROVE  balance' - balance = Owed' - Owed
  <2>1. Owed' = Owed /\ balance' = balance
    BY <1>0, <1>9, AcceptedIsOwed
  <2> QED
    BY <1>1, <2>1
<1>10. ASSUME NEW t \in NewTrack, DeclineTrack(t)
       PROVE  balance' - balance = Owed' - Owed
  <2>1. PaidFor(t) \in Nat /\ Owed = Owed' + PaidFor(t) /\ balance' = balance - PaidFor(t)
    BY <1>0, <1>10, DeclinedIsDischarged
  <2> QED
    BY <1>1, <2>1
<1>11. CASE RankTracks
  <2>1. phase = "Reveal" /\ UNCHANGED <<pledges, payments, balance>>
    BY <1>11 DEF RankTracks, FinalizeResults, vault
  <2>2. \A p \in Position : settled[p] = {}
    BY <2>1 DEF TreasuryInv, Unsettled, Paying
  <2>3. Owed' = Owed
    BY <2>1, <2>2, NothingDischarged
  <2> QED
    BY <1>1, <2>1, <2>3
<1>12. ASSUME NEW p, NEW who, NEW due, Handing(p, who, due)
       PROVE  balance' - balance = Owed' - Owed
  <2>1. /\ SumFunction(due) \in Nat
        /\ Owed = Owed' + SumFunction(due) /\ balance' = balance - SumFunction(due)
    BY <1>0, <1>12, SharesAreDischarged
  <2> QED
    BY <1>1, <2>1
<1>13. ASSUME NEW p \in Position, SweepUnclaimed(p)
       PROVE  balance' - balance = Owed' - Owed
  <2>1. Worth(p) \in Nat /\ Owed = Owed' + Worth(p) /\ balance' = balance - Worth(p)
    BY <1>0, <1>13, SweptIsDischarged
  <2> QED
    BY <1>1, <2>1
<1>14. ASSUME SettlePlatformFee
       PROVE  balance' - balance = Owed' - Owed
  <2>1. TheFee \in Nat /\ balance' = balance - TheFee
    BY <1>0, <1>14, FeeIsDischarged
  <2>2. Owed = Owed' + TheFee
    BY <1>0, <1>14, FeeIsDischarged
  <2>3. balance = balance' + TheFee
    BY <1>1, <2>1
  <2>4. TheFee \in Nat
    BY <2>1
  <2> QED
    BY <1>1, <2>2, <2>3, <2>4
<1>15. ASSUME NEW t \in Track, ResolveNoAward(t)
       PROVE  balance' - balance = Owed' - Owed
  <2>1. CASE no_award[t].approvals >= NoAwardThreshold
    <3>1. /\ SumFunction(Withheld(t)) \in Nat
          /\ Owed = Owed' + SumFunction(Withheld(t))
          /\ balance' = balance - SumFunction(Withheld(t))
      BY <1>0, <1>15, <2>1, WithheldIsDischarged
    <3> QED
      BY <1>1, <3>1
  <2>2. CASE ~ (no_award[t].approvals >= NoAwardThreshold)
    <3>1. UNCHANGED <<pledges, payments, ranking, balance>>
      BY <1>15, <2>2 DEF ResolveNoAward, payments, vault
    <3> QED
      BY <1>1, <1>2, <3>1
  <2> QED
    BY <2>1, <2>2
<1>16. CASE CallOff
  BY <1>16 DEF CallOff, Cancel, ResolveCancellation
<1> QED
  BY <1>0, <1>3, <1>4, <1>5, <1>6, <1>7, <1>8, <1>9, <1>10, <1>11, <1>12, <1>13, <1>14,
     <1>15, <1>16, MoneySteps

(* Topping the pool up fills it, and takes nothing out.                     *)
LEMMA FundingReaches ==
    ASSUME Amounts, FundAndPublish
    PROVE  balance' >= balance /\ balance' >= RequiredFunding
<1>1. balance \in Nat /\ RequiredFunding \in Nat
  BY PrizeTotalIsNatural, FeeIsNatural DEF Amounts, RequiredFunding
<1>2. CASE RequiredFunding - balance > 0
  <2>1. Receive(Organizer, RequiredFunding - balance)
    BY <1>2 DEF FundAndPublish
  <2>2. balance' = balance + (RequiredFunding - balance)
    BY <2>1 DEF Receive
  <2> QED
    BY <1>1, <1>2, <2>2
<1>3. CASE ~ (RequiredFunding - balance > 0)
  <2>1. balance' = balance
    BY <1>3 DEF FundAndPublish, vault
  <2> QED
    BY <1>1, <1>3, <2>1
<1> QED
  BY <1>2, <1>3

(* Before publication nothing leaves the vault.                             *)
LEMMA FormingStep ==
    ASSUME TreasuryInv, MoneyInv, MoneyInv', [TreasuryNext]_everything,
           phase \in Early, phase' # "Cancelled"
    PROVE  balance' >= balance
<1>0. Amounts /\ Amounts'
  BY DEF MoneyInv
<1>1. balance \in Nat /\ balance' \in Nat
  BY <1>0 DEF Amounts
<1>2. CASE Elsewhere \/ UNCHANGED everything \/ RankTracks
           \/ (\E p \in Unprepared : Prepare(p)) \/ (\E t : Moving(t))
  <2>1. balance' = balance
    BY <1>2 DEF Elsewhere, everything, treasury, vault, RankTracks, Prepare, Moving,
       OpenNoAward, ApproveNoAward
  <2> QED
    BY <1>1, <2>1
<1>3. CASE FundAndPublish
  BY <1>0, <1>3, FundingReaches
<1>4. ASSUME NEW from \in {Organizer, Donor}, NEW amount \in Amount, Deposit(from, amount)
      PROVE  balance' >= balance
  BY <1>1, <1>4, MoneyAssumption DEF Deposit, Receive
<1>5. /\ ~ \E s, t, amount, shares : Gift(s, t, amount, shares)
      /\ ~ \E s, t, table : Asking(s, t, table)
      /\ ~ \E t \in NewTrack : AcceptTrack(t)
      /\ ~ \E t \in NewTrack : DeclineTrack(t)
  BY WhenPledgesMove DEF Early, Running
<1>6. /\ ~ \E p, who, due : Handing(p, who, due)
      /\ ~ \E p \in Position : SweepUnclaimed(p)
      /\ ~ SettlePlatformFee
      /\ ~ \E t \in Track : ResolveNoAward(t)
  BY DEF Handing, SweepUnclaimed, Sweepable, SettlePlatformFee, MoneyMoves, ResolveNoAward,
     Early
<1>7. ~ CallOff
  BY DEF CallOff, Cancel, ResolveCancellation
<1> QED
  BY <1>0, <1>2, <1>3, <1>4, <1>5, <1>6, <1>7, MoneySteps

(* An event that is published takes on what it announced, and has it.       *)
LEMMA PublishingStep ==
    ASSUME TreasuryInv, MoneyInv, MoneyInv', [TreasuryNext]_everything,
           phase \in Early, phase' \notin Early \cup {"Cancelled"}
    PROVE  balance' >= RequiredFunding /\ Owed' = RequiredFunding
<1>0. Amounts /\ OwedIsCounted
  <2>1. Amounts
    BY DEF MoneyInv
  <2> QED
    BY <2>1, Counting
<1>1. balance \in Nat /\ RequiredFunding \in Nat
  BY <1>0, PrizeTotalIsNatural, FeeIsNatural DEF Amounts, RequiredFunding
<1>2. /\ \/ Elsewhere
         \/ FundAndPublish
      /\ UNCHANGED <<pledges, payments, ranking>>
  <2>1. CASE Elsewhere \/ FundAndPublish
    BY <2>1 DEF Elsewhere, FundAndPublish, treasury
  <2>2. Elsewhere \/ FundAndPublish
    <3>1. /\ ~ \E from \in {Organizer, Donor}, amount \in Amount : Deposit(from, amount)
          /\ ~ \E p \in Unprepared : Prepare(p)
          /\ ~ \E t : Moving(t)
          /\ ~ UNCHANGED everything
      BY DEF Deposit, Prepare, Moving, OpenNoAward, ApproveNoAward, everything, lifecycle
    <3>2. /\ ~ \E s, t, amount, shares : Gift(s, t, amount, shares)
          /\ ~ \E s, t, table : Asking(s, t, table)
          /\ ~ \E t \in NewTrack : AcceptTrack(t)
          /\ ~ \E t \in NewTrack : DeclineTrack(t)
      BY WhenPledgesMove DEF Early, Running
    <3>3. /\ ~ \E p, who, due : Handing(p, who, due)
          /\ ~ \E p \in Position : SweepUnclaimed(p)
          /\ ~ SettlePlatformFee
          /\ ~ \E t \in Track : ResolveNoAward(t)
      BY DEF Handing, SweepUnclaimed, Sweepable, SettlePlatformFee, MoneyMoves,
         ResolveNoAward, Early
    <3>4. ~ RankTracks /\ ~ CallOff
      BY DEF RankTracks, FinalizeResults, CallOff, Cancel, ResolveCancellation, Early
    <3> QED
      BY <1>0, <3>1, <3>2, <3>3, <3>4, MoneySteps
  <2> QED
    BY <2>1, <2>2
<1>3. Owed' = RequiredFunding
  <2>1. Owed = RequiredFunding
    BY <1>0, AnnouncedIsOwed
  <2>2. Owed' = Owed
    BY <1>2, NothingDischarged
  <2> QED
    BY <2>1, <2>2
<1>4. CASE FundAndPublish
  BY <1>0, <1>3, <1>4, FundingReaches
<1>5. CASE Elsewhere
  <2>1. UNCHANGED balance
    BY <1>5 DEF Elsewhere, treasury, vault
  <2>2. balance >= RequiredFunding
    <3>1. Publish(balance >= RequiredFunding)
      BY <1>5 DEF Elsewhere, Tick, Configure, LockRules, BindVault, AdvancePhase, Advance,
         Successor, ClosingDeadline, MoveDeadlines, OpenSettlement, PauseSettlement,
         ResumeSettlement, Complete, OpenCancellation, ApproveCancellation, Early
    <3> QED
      BY <3>1 DEF Publish
  <2> QED
    BY <1>3, <2>1, <2>2
<1> QED
  BY <1>2, <1>3, <1>4, <1>5

(* Calling the event off leaves nothing in the vault.                       *)
LEMMA CancellingEmpties ==
    ASSUME TreasuryInv, MoneyInv, [TreasuryNext]_everything,
           phase' = "Cancelled", phase # "Cancelled"
    PROVE  balance' = 0
<1>0. Amounts /\ balance \in Nat
  BY DEF MoneyInv, Amounts
<1>1. ReturnThePool
  BY <1>0, OnlyCallOffCancels DEF CallOff
<1>2. CASE vault_bound
  <2>1. PICK due \in [Party -> Nat] : Pay(due) /\ SumFunction(due) = balance
    BY <1>0, <1>1, <1>2, ReturnIsTheBalance
  <2>2. balance' = balance - SumFunction(due)
    BY <1>0, <2>1, PayMoves
  <2> QED
    BY <1>0, <2>1, <2>2
<1>3. CASE ~ vault_bound
  <2>1. balance = 0 /\ UNCHANGED vault
    BY <1>1, <1>3 DEF ReturnThePool, MoneyInv, Unbound
  <2> QED
    BY <2>1 DEF vault
<1> QED
  BY <1>2, <1>3

(* Every step of the treasury is one of Escrow or none.                     *)
LEMMA StepOfTheEscrow ==
    ASSUME TreasuryInv, TreasuryInv', MoneyInv, MoneyInv', Inv, Inv',
           [TreasuryNext]_everything
    PROVE  [E!EscrowNext]_(E!escrow)
<1>0. Amounts /\ Amounts' /\ OwedIsCounted /\ OwedIsCounted'
  <2>1. Amounts /\ Amounts'
    BY DEF MoneyInv
  <2> QED
    BY <2>1, Counting, StillCounting
<1>1. balance \in Nat /\ balance' \in Nat /\ Owed \in Nat /\ Owed' \in Nat
  BY <1>0 DEF Amounts, OwedIsCounted
<1>2. [Next]_lifecycle
  BY StepOfTheLifecycle
<1>3. /\ phase' \in Early => phase \in Early
      /\ phase = "Cancelled" => phase' = "Cancelled"
  BY <1>2, PhaseCameFrom
<1>4. SUFFICES \/ E!Give \/ E!Open \/ E!Promise \/ E!Discharge \/ E!Return \/ E!Leak
               \/ UNCHANGED E!escrow
  BY DEF E!EscrowNext
<1>5. CASE phase = "Cancelled"
  <2>1. Stand = "cancelled" /\ Stand' = "cancelled" /\ Due' = Due
    BY <1>3, <1>5, WhereItStands, WhereItWillStand
  <2>2. \/ balance' > balance
        \/ balance' < balance
        \/ balance' = balance
    BY <1>1
  <2> QED
    BY <1>1, <2>1, <2>2, EscrowInTheTreasury
<1>6. CASE phase # "Cancelled" /\ phase' = "Cancelled"
  <2>1. Stand # "cancelled" /\ Stand' = "cancelled" /\ Due' = 0
    BY <1>6, WhereItStands, WhereItWillStand DEF Early
  <2>2. balance' = 0
    BY <1>0, <1>6, CancellingEmpties
  <2> QED
    BY <2>1, <2>2, EscrowInTheTreasury
<1>7. CASE phase \in Early /\ phase' \in Early
  <2>1. Stand' = Stand /\ Due' = Due
    BY <1>7, WhereItStands, WhereItWillStand
  <2>2. balance' >= balance
    BY <1>7, FormingStep DEF Early
  <2>3. balance' > balance \/ balance' = balance
    BY <1>1, <2>2
  <2> QED
    BY <1>1, <2>1, <2>3, EscrowInTheTreasury
<1>8. CASE phase \in Early /\ phase' \notin Early \cup {"Cancelled"}
  <2>1. Stand = "forming" /\ Stand' = "open" /\ Due' = Owed'
    BY <1>8, WhereItStands, WhereItWillStand
  <2>2. balance' >= RequiredFunding /\ Owed' = RequiredFunding
    BY <1>8, PublishingStep
  <2>3. balance' >= balance
    BY <1>8, FormingStep
  <2> QED
    BY <1>1, <2>1, <2>2, <2>3, EscrowInTheTreasury
<1>9. CASE phase \notin Early \cup {"Cancelled"} /\ phase' \notin Early \cup {"Cancelled"}
  <2>1. Stand = "open" /\ Stand' = "open" /\ Due = Owed /\ Due' = Owed'
    BY <1>9, WhereItStands, WhereItWillStand
  <2>2. \/ balance' - balance = Owed' - Owed
        \/ balance' > balance /\ Owed' = Owed
    BY <1>9, OpenStep
  <2>3. \/ Owed' > Owed /\ balance' = balance + (Owed' - Owed)
        \/ Owed' < Owed /\ balance' = balance - (Owed - Owed')
        \/ Owed' = Owed /\ balance' > balance
        \/ Owed' = Owed /\ balance' = balance
    BY <1>1, <2>2, Evenly
  <2> QED
    BY <1>1, <2>1, <2>3, EscrowInTheTreasury
<1> QED
  BY <1>3, <1>5, <1>6, <1>7, <1>8, <1>9

(* The promise of Escrow is kept: after publication every unit that arrives *)
(* with an aim is owed to somebody, every payment takes off exactly what it *)
(* pays, and calling the event off empties vault and promises together.     *)
THEOREM KeepsThePromise == TreasurySpec => ImplementsEscrow
<1>1. TreasuryInit => E!EscrowInit
  <2> SUFFICES ASSUME TreasuryInit PROVE E!EscrowInit
    OBVIOUS
  <2>1. phase \in Early /\ balance = 0
    BY DEF TreasuryInit, Init, Early
  <2> QED
    BY <2>1, WhereItStands, EscrowInTheTreasury
<1>2. /\ MoneyInv /\ TreasuryInv /\ Inv
      /\ (MoneyInv /\ TreasuryInv /\ Inv)'
      /\ [TreasuryNext]_everything
      => [E!EscrowNext]_(E!escrow)
  BY StepOfTheEscrow
<1> QED
  BY <1>1, <1>2, MoneyInvariance, PTL DEF TreasurySpec, ImplementsEscrow, E!EscrowSpec

(* A pool that keeps the promise covers what it owes.                       *)
LEMMA EscrowCovers ==
    ASSUME balance \in Nat, Due \in Nat, E!Covered, [E!EscrowNext]_(E!escrow)
    PROVE  E!Covered'
<1>1. \/ E!Give \/ E!Open \/ E!Promise \/ E!Discharge \/ E!Return \/ E!Leak
      \/ UNCHANGED E!escrow
  BY DEF E!EscrowNext
<1>2. E!Covered => (Stand = "open" => balance >= Due)
  BY EscrowInTheTreasury
<1>3. (Stand' = "open" => balance' >= Due') => E!Covered'
  BY DEF Stand, Due, E!Covered
<1>4. CASE E!Give \/ UNCHANGED E!escrow
  <2>1. /\ (balance' \in Nat /\ balance' > balance) \/ balance' = balance
        /\ Due' = Due /\ Stand' = Stand
    BY <1>4, EscrowInTheTreasury
  <2> QED
    BY <1>2, <1>3, <2>1
<1>5. CASE E!Open
  BY <1>3, <1>5, EscrowInTheTreasury
<1>6. CASE E!Promise
  <2>1. /\ Stand = "open" /\ Due' \in Nat /\ Due' > Due
        /\ balance' = balance + (Due' - Due)
    BY <1>6, EscrowInTheTreasury
  <2>2. balance >= Due
    BY <1>2, <2>1
  <2>3. balance' >= Due'
    BY <2>1, <2>2, Balances
  <2> QED
    BY <1>3, <2>3
<1>7. CASE E!Discharge
  <2>1. /\ Stand = "open" /\ Due' \in Nat /\ Due' < Due
        /\ balance' = balance - (Due - Due')
    BY <1>7, EscrowInTheTreasury
  <2>2. balance >= Due
    BY <1>2, <2>1
  <2>3. balance' >= Due'
    BY <2>1, <2>2, Balances
  <2> QED
    BY <1>3, <2>3
<1>8. CASE E!Return \/ E!Leak
  <2>1. Stand' = "cancelled"
    BY <1>8, EscrowInTheTreasury
  <2> QED
    BY <1>3, <2>1
<1> QED
  BY <1>1, <1>4, <1>5, <1>6, <1>7, <1>8

(* The vault of an open event can meet every payment it still owes: the     *)
(* prizes, the fee and the requests nobody answered, all of them at once.   *)
THEOREM VaultIsSolvent == TreasurySpec => []Solvent
<1>1. TreasuryInit => E!Covered
  <2> SUFFICES ASSUME TreasuryInit PROVE E!Covered
    OBVIOUS
  <2>1. phase \in Early
    BY DEF TreasuryInit, Init, Early
  <2> QED
    BY <2>1, WhereItStands, EscrowInTheTreasury
<1>2. MoneyInv /\ TreasuryInv => balance \in Nat /\ Due \in Nat
  <2> SUFFICES ASSUME MoneyInv, TreasuryInv PROVE balance \in Nat /\ Due \in Nat
    OBVIOUS
  <2>1. Amounts /\ OwedIsCounted
    BY Counting DEF MoneyInv
  <2> QED
    BY <2>1 DEF Amounts, OwedIsCounted, Due
<1>3. /\ MoneyInv /\ TreasuryInv /\ E!Covered /\ [E!EscrowNext]_(E!escrow)
      => E!Covered'
  BY <1>2, EscrowCovers
<1>4. TreasurySpec => [][E!EscrowNext]_(E!escrow)
  BY KeepsThePromise, PTL DEF ImplementsEscrow, E!EscrowSpec
<1>5. TreasurySpec => []E!Covered
  BY <1>1, <1>3, <1>4, MoneyInvariance, PTL DEF TreasurySpec
<1>6. E!Covered => Solvent
  <2>1. Published => Stand = "open" /\ Due = Owed
    BY WhereItStands
  <2>2. E!Covered => (Stand = "open" => balance >= Due)
    BY EscrowInTheTreasury
  <2> QED
    BY <2>1, <2>2 DEF Solvent
<1> QED
  BY <1>5, <1>6, PTL

=============================================================================
