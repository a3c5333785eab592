----------------------------- MODULE MCReviewer -----------------------------
(***************************************************************************)
(* Small queues for Reviewer.                                              *)
(***************************************************************************)
EXTENDS Reviewer

CONSTANTS t1, t2, t3

\* Every entry, or one that was picked by hand.
AllOrOne == {Team, {t1}}

=============================================================================
