------------------------- MODULE MCProofReservation -------------------------
(***************************************************************************)
(* An instance of ProofReservation: two payments with the same two proofs, *)
(* for invoices of overlapping windows, submitted in opposite orders; and  *)
(* a mint that rotates and reprices.  The proofs are worth 2: at the fee   *)
(* of Rotated they pay an invoice, until second 1; at that of Repriced     *)
(* they are valid and pay none.                                            *)
(***************************************************************************)
EXTENDS ProofReservation, TLC

CONSTANTS p1, p2, i1, i2

Slots == Permutations(Calls)

Invoiced == p1 :> i1 @@ p2 :> i2
Windows  == i1 :> [from |-> 0, to |-> 2] @@ i2 :> [from |-> 0, to |-> 1]
Amounts  == i1 :> 1 @@ i2 :> 1
Orders   == p1 :> <<1, 2>> @@ p2 :> <<2, 1>>
OfKeyset == <<1, 2>>

First    == 1 :> [active |-> TRUE, of |-> [fee |-> 400, expiry |-> 1]]
Rotated  == 1 :> [active |-> FALSE, of |-> [fee |-> 400, expiry |-> 1]]
            @@ 2 :> [active |-> TRUE, of |-> [fee |-> 400, expiry |-> 9]]
Repriced == 1 :> [active |-> FALSE, of |-> [fee |-> 900, expiry |-> 9]]
            @@ 2 :> [active |-> TRUE, of |-> [fee |-> 400, expiry |-> 9]]
Published == {First, Rotated, Repriced}

=============================================================================
