---------------------------- MODULE CommitReveal ----------------------------
(***************************************************************************)
(* What a round of sealed input promises, without saying how: one set of   *)
(* entries is committed to, once, while input is collected; afterwards     *)
(* only entries of that set are shown, no two of them from the same slot;  *)
(* and when the round is closed nothing changes any more.  SealedReveal    *)
(* implements this twice, for scorecards and for ballots.                  *)
(***************************************************************************)
CONSTANTS
    Leaf,      \* the entries there may be
    SlotOf     \* whose entry it is: one judge on one team, or one voter

VARIABLES
    stage,     \* collecting, opening or closed
    sealed,    \* the set committed to; empty until it is
    shown      \* the entries that count

round == <<stage, sealed, shown>>

OnePerSlot(leaves) == \A l, m \in leaves : SlotOf[l] = SlotOf[m] => l = m

RoundTypeOK ==
    /\ stage \in {"collecting", "opening", "closed"}
    /\ sealed \subseteq Leaf
    /\ shown \subseteq Leaf

RoundInit == stage = "collecting" /\ sealed = {} /\ shown = {}

(* One commitment, to something. *)
Seal ==
    /\ stage = "collecting"
    /\ sealed = {}
    /\ sealed' \in (SUBSET Leaf) \ {{}}
    /\ OnePerSlot(sealed')
    /\ UNCHANGED <<stage, shown>>

Open ==
    /\ stage = "collecting"
    /\ stage' = "opening"
    /\ UNCHANGED <<sealed, shown>>

(* An entry is shown under the commitment, and spends its slot. *)
Show(l) ==
    /\ stage = "opening"
    /\ l \in sealed
    /\ \A m \in shown : SlotOf[m] # SlotOf[l]
    /\ shown' = shown \cup {l}
    /\ UNCHANGED <<stage, sealed>>

Close ==
    /\ stage # "closed"
    /\ stage' = "closed"
    /\ UNCHANGED <<sealed, shown>>

RoundNext == Seal \/ Open \/ Close \/ \E l \in Leaf : Show(l)

RoundSpec == RoundInit /\ [][RoundNext]_round

(* What counts was committed to, and no slot counts twice. *)
OnlyTheSealedCount == shown \subseteq sealed /\ OnePerSlot(shown)

=============================================================================
