-------------------------- MODULE MCMeltLifecycle --------------------------
(***************************************************************************)
(* Small instances of MeltLifecycle.  Two payments that share a proof, two *)
(* that share an invoice, and one payment with a longer history.           *)
(***************************************************************************)
EXTENDS MeltLifecycle, TLC

CONSTANTS p1, p2, f1, f2, i1, i2,
    MaxQuotes,        \* quote observations per payment
    MaxSnapshots,     \* proof-state observations per payment
    SetupTimes        \* seconds at which a payment may be set up

OnePayment     == {p1}
TwoPayments    == {p1, p2}

OneInvoice     == [p \in Payments |-> i1]
OwnInvoice     == [p \in Payments |-> IF p = p1 THEN i1 ELSE i2]
OwnProof       == [p \in Payments |-> IF p = p1 THEN {f1} ELSE {f2}]
SharedProof    == [p \in Payments |-> {f1}]
BothProofs     == [p \in Payments |-> {f1, f2}]

InvoiceExpiry2 == [i \in Invoices |-> 2]
InvoiceExpiry3 == [i \in Invoices |-> 3]
QuoteExpiry1   == [p \in Payments |-> 1]
QuoteExpiry2   == [p \in Payments |-> 2]

\* Identifiers are only compared, so they are used in their order.
NextId == 1 + Cardinality(UNION {{events[p][k].id : k \in 1..Len(events[p])} : p \in Payments})

Bounded ==
    \A p \in Payments :
        /\ Cardinality(quotes'[p]) <= MaxQuotes
        /\ Cardinality(snapshots'[p]) <= MaxSnapshots
        /\ {reservedAt'[p], custodyAt'[p], attemptAt'[p]} \subseteq SetupTimes \cup {Never}

BoundedNext ==
    /\ \E p \in Payments :
          \/ Setup(p) \/ Observe(p)
          \/ \E id \in EventIds \cap {NextId} : Transition(p, id)
    /\ Bounded
BoundedSpec == Init /\ [][BoundedNext]_vars


=============================================================================
