------------------------------- MODULE Escrow -------------------------------
(***************************************************************************)
(* What the prize pool promises, without saying how: from publication on,  *)
(* what is held covers what is owed; money that arrives with a promise     *)
(* raises both by the same amount; money leaves only to discharge as much  *)
(* of what is owed; and calling the event off empties the pool and the     *)
(* promises together.  Treasury implements this specification.             *)
(***************************************************************************)
EXTENDS Naturals

CONSTANT Announced     \* the prize table and the platform's fee on it

VARIABLES
    held,    \* what the pool contains
    owing,   \* what has been promised and not yet handed over
    stage    \* before publication, after it, or called off

escrow == <<held, owing, stage>>

Stage == {"forming", "open", "cancelled"}

EscrowTypeOK == held \in Nat /\ owing \in Nat /\ stage \in Stage

EscrowInit == held = 0 /\ owing = 0 /\ stage = "forming"

(* A gift promises nobody anything. *)
Give ==
    /\ held' \in Nat /\ held' > held
    /\ UNCHANGED <<owing, stage>>

(* Publication takes on the announced prizes, with the money to meet them. *)
Open ==
    /\ stage = "forming"
    /\ stage' = "open"
    /\ owing' = Announced
    /\ held' \in Nat /\ held' >= held /\ held' >= Announced

(* A contribution is promised on to somebody the moment it arrives. *)
Promise ==
    /\ stage = "open"
    /\ owing' \in Nat /\ owing' > owing
    /\ held' = held + (owing' - owing)
    /\ UNCHANGED stage

(* A payment discharges exactly what it pays. *)
Discharge ==
    /\ stage = "open"
    /\ owing' \in Nat /\ owing' < owing
    /\ held' = held - (owing - owing')
    /\ UNCHANGED stage

(* The event is called off: everything goes back. *)
Return ==
    /\ stage # "cancelled"
    /\ stage' = "cancelled"
    /\ held' = 0 /\ owing' = 0

(* Of money that arrives after that nothing is promised. *)
Leak ==
    /\ stage = "cancelled"
    /\ held' \in Nat /\ held' < held
    /\ UNCHANGED <<owing, stage>>

EscrowNext == Give \/ Open \/ Promise \/ Discharge \/ Return \/ Leak

EscrowSpec == EscrowInit /\ [][EscrowNext]_escrow

(* The pool always covers what it promised. *)
Covered == stage = "open" => held >= owing

=============================================================================
