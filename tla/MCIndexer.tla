----------------------------- MODULE MCIndexer -----------------------------
(***************************************************************************)
(* The indexer on a chain of three ledgers and three events, with two      *)
(* rows: the hackathon's own, which no read goes with, and one team's      *)
(* entry, whose events prompt the read of its URI.                         *)
(***************************************************************************)
EXTENDS Indexer

CONSTANTS phase, entry

MCRow == {phase, entry}
MCAsking == {entry}

\* Every call may throw but the one to the node's health.
CallsButHealth == {"gathering", "storing", "answering", "moving", "noting", "projecting"}
=============================================================================
