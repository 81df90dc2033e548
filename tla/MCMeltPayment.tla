--------------------------- MODULE MCMeltPayment ---------------------------
(***************************************************************************)
(* Instances of MeltPayment with one payment of two proofs, two concurrent *)
(* coordinators of one kind and one of the other.                          *)
(***************************************************************************)
EXTENDS MeltPayment, TLC

CONSTANTS p1, f1, f2, i1

OneInvoice    == [p \in Payments |-> i1]
BothProofs    == [p \in Payments |-> {f1, f2}]
OneProof      == [p \in Payments |-> {f1}]
InvoiceWindow == [i \in Invoices |-> MaxTime]
QuoteWindow   == [p \in Payments |-> MaxTime - 1]
QuoteToTheEnd == [p \in Payments |-> MaxTime]
Clock         == 0..MaxTime

Interchangeable == Permutations(Dispatchers) \cup Permutations(Recoverers)

=============================================================================
