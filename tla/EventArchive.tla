---------------------------- MODULE EventArchive ----------------------------
(***************************************************************************)
(* What an archive of a contract's events promises, whatever fills it: it  *)
(* only grows, it holds nothing the chain did not publish, and the ledger  *)
(* it says it is complete up to is never ahead of what it holds, but for   *)
(* the events the node had stopped serving by then.                        *)
(***************************************************************************)
EXTENDS Naturals, Sequences

CONSTANT Event          \* what a ledger may publish, with the ledger it closed in

VARIABLES
    chain,      \* every event published so far, in order
    oldest,     \* the oldest ledger the node still serves
    archive,    \* the positions of the chain that are archived
    covered     \* the ledger the archive claims to be complete up to

vars == <<chain, oldest, archive, covered>>

\* The events a claim up to ledger `t` answers for.
Answerable(t) == {p \in DOMAIN chain : chain[p].ledger \in oldest..t}

Init ==
    /\ chain = <<>>
    /\ oldest \in Nat
    /\ archive = {}
    /\ covered = 0

Publish ==
    /\ chain' \in Seq(Event)
    /\ Len(chain') > Len(chain)
    /\ SubSeq(chain', 1, Len(chain)) = chain
    /\ UNCHANGED <<oldest, archive, covered>>

Expire ==
    /\ oldest' > oldest
    /\ UNCHANGED <<chain, archive, covered>>

Keep ==
    /\ archive' \subseteq DOMAIN chain
    /\ archive \subseteq archive'
    /\ UNCHANGED <<chain, oldest, covered>>

Claim ==
    /\ covered' \in Nat
    /\ Answerable(covered') \subseteq archive
    /\ UNCHANGED <<chain, oldest, archive>>

Next == Publish \/ Expire \/ Keep \/ Claim

Spec == Init /\ [][Next]_vars

=============================================================================
