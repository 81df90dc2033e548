--------------------------- MODULE PaymentEscrow ---------------------------
(***************************************************************************)
(* What the acquirer promises about Cashu payments, with no clocks, claims *)
(* or evidence.  A payment holds its proofs, commits them to one melt and  *)
(* ends either spent, crediting its invoice in the same step, or returned. *)
(* No proof is in two live payments, no invoice is committed to two of     *)
(* them, and nothing happens to a payment that has ended.                  *)
(***************************************************************************)
CONSTANTS Payments, Invoices, NoPayment, InvoiceOf, ProofsOf

VARIABLES phase, credit

vars == <<phase, credit>>

Phases == {"idle", "held", "committed", "spent", "returned"}

Live(p)      == phase[p] \in {"held", "committed", "spent"}
Committed(p) == phase[p] \in {"committed", "spent"}

Init ==
    /\ phase  = [p \in Payments |-> "idle"]
    /\ credit = [i \in Invoices |-> NoPayment]

Hold(p) ==
    /\ phase[p] = "idle"
    /\ credit[InvoiceOf[p]] = NoPayment
    /\ \A q \in Payments : Live(q) => ProofsOf[q] \cap ProofsOf[p] = {}
    /\ phase' = [phase EXCEPT ![p] = "held"]
    /\ UNCHANGED credit

Commit(p) ==
    /\ phase[p] = "held"
    /\ \A q \in Payments : InvoiceOf[q] = InvoiceOf[p] => ~Committed(q)
    /\ phase' = [phase EXCEPT ![p] = "committed"]
    /\ UNCHANGED credit

Spend(p) ==
    /\ phase[p] = "committed"
    /\ credit[InvoiceOf[p]] = NoPayment
    /\ phase'  = [phase EXCEPT ![p] = "spent"]
    /\ credit' = [credit EXCEPT ![InvoiceOf[p]] = p]

Return(p) ==
    /\ phase[p] \in {"held", "committed"}
    /\ phase' = [phase EXCEPT ![p] = "returned"]
    /\ UNCHANGED credit

Next == \E p \in Payments : Hold(p) \/ Commit(p) \/ Spend(p) \/ Return(p)

Spec == Init /\ [][Next]_vars

=============================================================================
