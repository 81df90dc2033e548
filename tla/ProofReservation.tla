-------------------------- MODULE ProofReservation --------------------------
(***************************************************************************)
(* Reservations of bearer proofs, statement by statement, against the      *)
(* keyset evidence they rest on, while that evidence is being added to.    *)
(* MeltLifecycle has the reservation as one step and everything that       *)
(* follows it in detail; here what follows it is one step each.            *)
(*                                                                         *)
(* A payment is made by the surroundings: they find a fresh snapshot,      *)
(* validate the proofs against it and reserve them.  The fingerprint of a  *)
(* reservation covers its evidence's time and its own; what else it covers *)
(* belongs to the payment.                                                 *)
(*                                                                         *)
(* A definition that stands directly before the one it resembles and is    *)
(* used nowhere is a defect of it; the runs show that a property sees it.  *)
(***************************************************************************)
EXTENDS KeysetEvidence, Functions, FiniteSetsExt

CONSTANTS
    Payments, Invoices,
    NoPayment,
    InvoiceOf,      \* the invoice a payment is for
    WindowOf,       \* creation and expiry of an invoice
    AmountOf,       \* of an invoice, and so of every quote for its payments
    Proofs,         \* proof references, numbered in the order of their y
    Submitted,      \* the proofs of a payment, in the order of its payload
    KeysetOf,       \* the keyset of a proof
    MaxAge          \* of a snapshot a payment is validated against

ProofsOf == [p \in Payments |-> {Submitted[p][i] : i \in DOMAIN Submitted[p]}]

ASSUME ReservationAssumption ==
    /\ Proofs \subseteq Nat /\ MaxAge \in Nat
    /\ NoPayment \notin Payments /\ Nothing \notin Payments
    /\ KeysetOf \in [Proofs -> Keysets] /\ AmountOf \in [Invoices -> Nat]
    /\ \A p \in Payments : /\ InvoiceOf[p] \in Invoices
                           /\ ProofsOf[p] \subseteq Proofs /\ ProofsOf[p] # {}
                           /\ IsFiniteSet(ProofsOf[p]) /\ IsInjective(Submitted[p])

States == {"held", "committed", "spent", "returned"}
Row    == [evidence : Times, reservedAt : Times, state : States]

ASSUME ReservationRowsAssumption == Nothing \notin Row

VARIABLES
    reservations,   \* cashu_proof_reservations with the latest state
    terms,          \* what a payment was validated with (history)
    claims,         \* cashu_active_proof_claims
    journal         \* the payment an invoice is paid by

record == <<reservations, terms, claims, journal>>
vars   == <<mint, evidence, call, record>>

Init ==
    /\ mint \in Versions
    /\ EvidenceInit
    /\ call = [c \in Calls |-> Idle]
    /\ reservations = [p \in Payments |-> Nothing]
    /\ terms = [p \in Payments |-> Nothing]
    /\ claims = [y \in Proofs |-> NoPayment]
    /\ journal = [i \in Invoices |-> NoPayment]

-----------------------------------------------------------------------------
(* Validation against a snapshot                                           *)

\* The sum is rounded up once.
InputFee(proofs, s) == (MapThenSumSet(LAMBDA y : s[KeysetOf[y]].of.fee, proofs) + 999) \div 1000

Expiries(proofs, s) == {s[KeysetOf[y]].of.expiry : y \in proofs}
Terms(proofs, s)    == [fee |-> InputFee(proofs, s), expiries |-> Expiries(proofs, s)]

Unexpired(proofs, s, now) ==
    /\ \A y \in proofs : KeysetOf[y] \in DOMAIN s
    /\ \A e \in Expiries(proofs, s) : now < e

\* validateCashuPaymentProofsV1; a proof is worth 1.
ValidFor(proofs, s, now) == Unexpired(proofs, s, now) /\ InputFee(proofs, s) <= Cardinality(proofs)

-----------------------------------------------------------------------------
(* What transactions hold                                                  *)

Reserves(d)        == call[d].payment # Nothing /\ InTx(d)
HoldsInvoice(d, i) == Reserves(d) /\ "invoice" \in call[d].got /\ InvoiceOf[call[d].payment] = i
HoldsPayment(d, p) == Reserves(d) /\ "payment" \in call[d].got /\ call[d].payment = p
HoldsClaim(d, y)   == Reserves(d) /\ y \in call[d].held

NextSubmitted(l) == Submitted[l.payment][l.done + 1]
NextProof(l)     == Nth(ProofsOf[l.payment], l.done)

-----------------------------------------------------------------------------
(* A payment                                                               *)

Intake(c, p, t) ==
    /\ Free(c)
    /\ To(c, [Idle EXCEPT !.pc = "find", !.payment = p, !.at = t])
    /\ UNCHANGED <<mint, evidence, record>>

\* The surroundings find a fresh snapshot and validate the proofs against it.
\* Rows and entries are append-only, so the two statements that read them see
\* the same observation.
Validate(c) ==
    LET l == call[c]  t == LatestWithin(l.at - MaxAge, l.at) IN
    /\ l.pc = "find"
    /\ IF t = Nothing THEN Ends(c, "refused")
       ELSE IF ~Readable(observations[t]) THEN Ends(c, "invalid")
       ELSE IF ValidFor(ProofsOf[l.payment], Rebuilt(observations[t]), l.at)
       THEN To(c, [l EXCEPT !.pc = "reserve", !.time = t,
                            !.terms = Terms(ProofsOf[l.payment], Rebuilt(observations[t]))])
       ELSE Ends(c, "refused")
    /\ UNCHANGED <<mint, evidence, record>>

\* The same reservation again is a replay, unless it was released.
Replays(c) ==
    LET l == call[c]  r == reservations[l.payment] IN
    Ends(c, IF r.evidence # l.time \/ r.reservedAt # l.at THEN "refused"
            ELSE IF r.state = "returned" THEN "refused"
            ELSE IF \E y \in ProofsOf[l.payment] : claims[y] # l.payment THEN "invalid"
            ELSE "done")

FindReservation(c) ==
    /\ call[c].pc = "reserve"
    /\ IF reservations[call[c].payment] # Nothing THEN Replays(c)
       ELSE To(c, [call[c] EXCEPT !.pc = "invoice"])
    /\ UNCHANGED <<mint, evidence, record>>

\* SELECT ... FOR UPDATE of the invoice.
LockInvoice(c) ==
    LET l == call[c]  i == InvoiceOf[l.payment] IN
    /\ l.pc = "invoice"
    /\ \A d \in Calls \ {c} : ~HoldsInvoice(d, i)
    /\ IF journal[i] = NoPayment /\ l.at >= WindowOf[i].from /\ l.at < WindowOf[i].to
       THEN To(c, [l EXCEPT !.pc = "evidence", !.tx = "open", !.got = {"invoice"}])
       ELSE Ends(c, "refused")
    /\ UNCHANGED <<mint, evidence, record>>

Evident(p, t) ==
    observations[t] # Nothing /\ \A y \in ProofsOf[p] : KeysetOf[y] \in DOMAIN observations[t].active

AssertKeysetEvidence(c) ==
    /\ call[c].pc = "evidence"
    /\ IF Evident(call[c].payment, call[c].time) THEN To(c, [call[c] EXCEPT !.pc = "insert"])
       ELSE Ends(c, "invalid")
    /\ UNCHANGED <<mint, evidence, record>>

InsertAnyway(c) ==
    /\ call[c].pc = "insert"
    /\ \A d \in Calls \ {c} : ~HoldsPayment(d, call[c].payment)
    /\ To(c, [call[c] EXCEPT !.pc = "proofs", !.got = @ \cup {"payment"}])
    /\ UNCHANGED <<mint, evidence, record>>
InsertReservation(c) ==
    LET l == call[c] IN
    /\ l.pc = "insert"
    /\ \A d \in Calls \ {c} : ~HoldsPayment(d, l.payment)
    /\ IF reservations[l.payment] # Nothing THEN Replays(c)
       ELSE To(c, [l EXCEPT !.pc = "proofs", !.got = @ \cup {"payment"}])
    /\ UNCHANGED <<mint, evidence, record>>

\* A reserved proof claims its y, one after the other.
InsertProofAtOnce(c) ==
    LET l == call[c]  y == NextProof(l) IN
    /\ l.pc = "proofs" /\ l.done < Cardinality(ProofsOf[l.payment])
    /\ IF claims[y] # NoPayment THEN Ends(c, "refused")
       ELSE To(c, [l EXCEPT !.held = @ \cup {y}, !.done = @ + 1])
    /\ UNCHANGED <<mint, evidence, record>>
InsertProof(c) ==
    LET l == call[c]  y == NextProof(l) IN
    /\ l.pc = "proofs" /\ l.done < Cardinality(ProofsOf[l.payment])
    /\ \A d \in Calls \ {c} : ~HoldsClaim(d, y)
    /\ IF claims[y] # NoPayment THEN Ends(c, "refused")
       ELSE To(c, [l EXCEPT !.held = @ \cup {y}, !.done = @ + 1])
    /\ UNCHANGED <<mint, evidence, record>>

AskCommit(c) ==
    LET l == call[c] IN
    /\ l.pc = "proofs" /\ l.done = Cardinality(ProofsOf[l.payment])
    /\ To(c, [l EXCEPT !.pc = "committing", !.tx = "commit"])
    /\ UNCHANGED <<mint, evidence, record>>

\* The deferred triggers: an open invoice in its window, all proofs, evidence.
Consistent(l) ==
    /\ journal[InvoiceOf[l.payment]] = NoPayment
    /\ l.held = ProofsOf[l.payment] /\ Evident(l.payment, l.time)

\* The terms are remembered by the surroundings, not in the row.
CommitReservation(c) ==
    LET l == call[c] IN
    /\ l.tx = "commit" /\ l.payment # Nothing
    /\ IF Consistent(l)
       THEN /\ reservations' = [reservations EXCEPT ![l.payment] =
                    [evidence |-> l.time, reservedAt |-> l.at, state |-> "held"]]
            /\ terms' = [terms EXCEPT ![l.payment] = l.terms]
            /\ claims' = [y \in Proofs |-> IF y \in l.held THEN l.payment ELSE claims[y]]
            /\ Ends(c, IF l.pc = "gone" THEN "refused" ELSE "done")
       ELSE Ends(c, "invalid") /\ UNCHANGED <<reservations, terms, claims>>
    /\ UNCHANGED <<mint, evidence, journal>>

PaymentStep(c) ==
    \/ Validate(c) \/ FindReservation(c) \/ LockInvoice(c) \/ AssertKeysetEvidence(c)
    \/ InsertReservation(c) \/ InsertProof(c) \/ AskCommit(c) \/ CommitReservation(c)

-----------------------------------------------------------------------------
(* What follows a reservation, which MeltLifecycle has in detail           *)

StateOf(p) == IF reservations[p] = Nothing THEN "idle" ELSE reservations[p].state
SetState(p, s) == reservations' = [reservations EXCEPT ![p].state = s]
InvoiceUnlocked(p) == \A d \in Calls : ~HoldsInvoice(d, InvoiceOf[p])

\* The snapshot of exactly the reservation's evidence.
LatestObservation(p) == LatestWithin(reservations[p].evidence, reservations[p].evidence + MaxAge)
ExactObservation(p)  == LatestWithin(reservations[p].evidence, reservations[p].evidence)

\* deriveInputFee: the fee at the dispatch's own time, provided the quote, which
\* is for the amount of the invoice, and the fee are what the proofs are worth.
FeeOf(p, now) ==
    LET t == ExactObservation(p)  s == Rebuilt(observations[t])  fee == InputFee(ProofsOf[p], s) IN
    IF /\ t # Nothing /\ Readable(observations[t]) /\ Unexpired(ProofsOf[p], s, now)
       /\ AmountOf[InvoiceOf[p]] + fee = Cardinality(ProofsOf[p])
    THEN fee ELSE Nothing

\* The fee is derived before the bundle is opened and again when the melt is
\* authorized.
FeeAgreed(p, preparedAt, startedAt) ==
    FeeOf(p, preparedAt) # Nothing /\ FeeOf(p, startedAt) = FeeOf(p, preparedAt)

\* The foreign key of the effect locks the invoice.  The quote was asked for
\* after the reservation and observed before preparedAt.
Dispatch(p, preparedAt, startedAt) ==
    LET window == WindowOf[InvoiceOf[p]] IN
    /\ StateOf(p) = "held" /\ InvoiceUnlocked(p)
    /\ reservations[p].reservedAt <= preparedAt /\ reservations[p].reservedAt <= startedAt
    /\ window.from <= startedAt /\ startedAt < window.to
    /\ FeeAgreed(p, preparedAt, startedAt)
    /\ \A q \in Payments : InvoiceOf[q] = InvoiceOf[p] => StateOf(q) \notin {"committed", "spent"}
    /\ SetState(p, "committed")
    /\ UNCHANGED <<mint, evidence, call, terms, claims, journal>>

Accept(p) ==
    /\ StateOf(p) = "committed" /\ InvoiceUnlocked(p)
    /\ journal[InvoiceOf[p]] = NoPayment
    /\ SetState(p, "spent")
    /\ journal' = [journal EXCEPT ![InvoiceOf[p]] = p]
    /\ UNCHANGED <<mint, evidence, call, terms, claims>>

Release(p) ==
    /\ StateOf(p) \in {"held", "committed"}
    /\ SetState(p, "returned")
    /\ claims' = [y \in Proofs |-> IF claims[y] = p THEN NoPayment ELSE claims[y]]
    /\ UNCHANGED <<mint, evidence, call, terms, journal>>

-----------------------------------------------------------------------------

Next ==
    \/ \E c \in Calls :
          \/ \E t \in Times : Observe(c, t) /\ UNCHANGED record
          \/ \E p \in Payments, t \in Times : Intake(c, p, t)
          \/ (ObserverStep(c) \/ GiveUp(c) \/ Abort(c)) /\ UNCHANGED record
          \/ PaymentStep(c)
    \/ \E v \in Versions : Publish(v) /\ UNCHANGED record
    \/ \E p \in Payments :
          \/ \E preparedAt, startedAt \in Times : Dispatch(p, preparedAt, startedAt)
          \/ Accept(p) \/ Release(p)

Spec == Init /\ [][Next]_vars

-----------------------------------------------------------------------------
(* Properties                                                              *)

\* Every variable holds a value of its type; the active claims are the proofs
\* of the payments not released, as the claim tables' deferred trigger demands.
TypeOK ==
    /\ EvidenceTypeOK
    /\ claims \in [Proofs -> Payments \cup {NoPayment}]
    /\ \A p \in Payments :
          {y \in Proofs : claims[y] = p} =
              IF StateOf(p) \in {"idle", "returned"} THEN {} ELSE ProofsOf[p]

\* A dispatch derives the fee that the payment was validated with until the
\* first final expiry the payment was validated with, and none from then on or
\* for an invoice of another amount, whatever the mint has published since and
\* whatever has been observed of it.
Honoured(p, now) ==
    /\ \A e \in terms[p].expiries : now < e
    /\ AmountOf[InvoiceOf[p]] + terms[p].fee = Cardinality(ProofsOf[p])

TermsStand ==
    \A p \in Payments, now \in Times : reservations[p] # Nothing =>
        FeeOf(p, now) = IF Honoured(p, now) THEN terms[p].fee ELSE Nothing

\* No call meets a stored record it must reject.
NoneInvalid == \A c \in Calls : call[c].answer # "invalid"

EvidenceStands == SnapshotsAreCurrent /\ ObservationsStand /\ TermsStand /\ NoneInvalid

\* Rows are locked in one order, so transactions never wait for each other in
\* a circle, which the database would end by failing one of them.
WaitsFor(c) ==
    LET l == call[c] IN
    WaitsForObserver(c) \cup
    {d \in Calls \ {c} :
        \/ l.pc = "invoice" /\ HoldsInvoice(d, InvoiceOf[l.payment])
        \/ l.pc = "insert" /\ HoldsPayment(d, l.payment)
        \/ l.pc = "proofs" /\ l.done < Cardinality(ProofsOf[l.payment]) /\ HoldsClaim(d, NextProof(l))}

NoWaitCycle == \A S \in SUBSET Calls : S # {} => \E c \in S : WaitsFor(c) \cap S = {}

\* The reservation, made of statements that interleave with others', is the
\* one step that PaymentEscrow and MeltLifecycle have.
Escrow == INSTANCE PaymentEscrow WITH
              phase <- [p \in Payments |-> StateOf(p)], credit <- journal

ImplementsEscrow == Escrow!Spec

=============================================================================
