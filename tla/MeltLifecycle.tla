--------------------------- MODULE MeltLifecycle ---------------------------
(***************************************************************************)
(* The durable record of a Cashu payment that is settled by melting its    *)
(* proofs: the reservation, its bearer custody, the Stellar quote attempt, *)
(* the quote and proof-state observations, the operator effect, the        *)
(* append-only lifecycle events, the active claims, and the invoice with   *)
(* its journal.                                                            *)
(*                                                                         *)
(* Every action is one PostgreSQL transaction of the acquirer's            *)
(* repositories: the reservation row is locked FOR UPDATE first, so the    *)
(* transactions of one payment are serial.  An action is enabled exactly   *)
(* when the transaction commits a change; a replay and every refused call  *)
(* leave the record as it is and are steps of no action.  The callers are  *)
(* unconstrained here: any caller may offer any timestamps in any order.   *)
(* MeltPayment restricts them to the coordinators.                         *)
(*                                                                         *)
(* A definition that stands directly before the one it resembles and is    *)
(* used nowhere is a defect of it; the runs show that a property sees it.  *)
(***************************************************************************)
EXTENDS Integers, FiniteSets, Sequences

CONSTANTS
    Payments, Proofs, Invoices,  \* identities
    NoPayment,                   \* "no row"
    InvoiceOf,                   \* the invoice a payment pays
    ProofsOf,                    \* the proofs a payment reserves
    Times,                       \* the Unix seconds a caller may offer
    InvoiceExpiry,               \* expires_at of an invoice; created_at is 0
    QuoteExpiry,                 \* expiry of the quote of a payment
    QuoteTTL,                    \* MAX_CASHU_STELLAR_MELT_QUOTE_TTL_SECONDS
    EventIds,                    \* event identifiers, unique over the table
    AttentionReasons,            \* CASHU_OPERATOR_ATTENTION_REASONS
    MaxEvents                    \* event sequence numbers are below this

ASSUME ConstantsAssumption ==
    /\ NoPayment \notin Payments
    /\ InvoiceOf \in [Payments -> Invoices]
    /\ ProofsOf \in [Payments -> (SUBSET Proofs) \ {{}}]
    /\ Times \subseteq Nat
    /\ InvoiceExpiry \in [Invoices -> Nat]
    /\ QuoteExpiry \in [Payments -> Nat]
    /\ QuoteTTL \in Nat
    /\ MaxEvents \in Nat \ {0}

Never == -1                      \* a timestamp column of an absent row
When  == Times \cup {Never}
Maybe == Payments \cup {NoPayment}

QuoteStates == {"UNPAID", "PENDING", "PAID"}
ProofStates == {"UNSPENT", "PENDING", "SPENT"}
Terminal    == {"consumed", "released"}
InDispatch  == {"dispatch_started", "pending", "needs_attention"}

QuoteObservation == [at : Times, state : QuoteStates]
Snapshot(p)      == [at : Times, states : [ProofsOf[p] -> ProofStates]]
Event ==
    [id : EventIds,
     state : InDispatch \cup Terminal,
     evidence : AttentionReasons \cup
                {"none", "operator_pending", "melt_paid",
                 "pre_dispatch", "melt_unpaid_after_expiry"},
     recordedAt : Times,
     evidenceAt : When,          \* when the quote was observed
     proofsAt : When]            \* when the proof snapshot was observed

VARIABLES
    reservedAt,     \* cashu_proof_reservations.reserved_at
    custodyAt,      \* cashu_bearer_proof_custody.created_at
    attemptAt,      \* cashu_stellar_melt_quote_attempts.started_at
    ambiguous,      \* payments whose quote creation ended ambiguous
    quotes,         \* cashu_stellar_melt_quote_observations
    snapshots,      \* cashu_proof_state_observations and their entries
    startedAt,      \* cashu_operator_effects.started_at
    events,         \* cashu_proof_reservation_events, by sequence
    proofClaim,     \* cashu_active_proof_claims
    invoiceClaim,   \* cashu_active_invoice_payment_claims
    paidAt,         \* merchant_invoices.paid_at; an open invoice has none
    journal         \* merchant_invoice_payment_journals: the payment booked

evidenceVars == <<quotes, snapshots>>
setupVars    == <<reservedAt, custodyAt, attemptAt, ambiguous>>
claimVars    == <<proofClaim, invoiceClaim>>
ledgerVars   == <<paidAt, journal>>
vars == <<setupVars, evidenceVars, startedAt, events, claimVars, ledgerVars>>

-----------------------------------------------------------------------------
(* Reading the record                                                      *)

Exists(p)    == reservedAt[p] # Never
HasEffect(p) == startedAt[p] # Never
LastEvent(p) == events[p][Len(events[p])]
State(p)     == IF events[p] = <<>> THEN "reserved" ELSE LastEvent(p).state
IsTerminal(p)  == State(p) \in Terminal
PreDispatchUntilTerminal(p) == Exists(p) /\ ~IsTerminal(p)
PreDispatch(p) == Exists(p) /\ events[p] = <<>> /\ ~HasEffect(p)

Open(i)          == paidAt[i] = Never
InWindow(p, t)   == Open(InvoiceOf[p]) /\ t < InvoiceExpiry[InvoiceOf[p]]
IsLatest(o, log) == o \in log /\ \A x \in log : x.at <= o.at

SomeIn(p, s, state)  == \E f \in ProofsOf[p] : s.states[f] = state
Uniform(p, s, state) == \A f \in ProofsOf[p] : s.states[f] = state

ExpiresEarly(p, t) == QuoteExpiry[p] <= t + 1
Expired(p, t)      == QuoteExpiry[p] <= t

\* The quote observation a stored effect is read with: the latest one at or
\* before the effect's start.
DispatchQuote(p, o) ==
    /\ o \in quotes[p] /\ o.at <= startedAt[p]
    /\ \A x \in quotes[p] : x.at <= startedAt[p] => x.at <= o.at

\* Loading a lifecycle fails with invalid_record when that observation is not
\* UNPAID; every read and every transition of the payment loads it.
Readable(p) ==
    HasEffect(p) => \E o \in quotes[p] : DispatchQuote(p, o) /\ o.state = "UNPAID"

FreshId(id) == \A q \in Payments : \A k \in 1..Len(events[q]) : events[q][k].id # id

Init ==
    /\ reservedAt   = [p \in Payments |-> Never]
    /\ custodyAt    = [p \in Payments |-> Never]
    /\ attemptAt    = [p \in Payments |-> Never]
    /\ ambiguous    = {}
    /\ quotes       = [p \in Payments |-> {}]
    /\ snapshots    = [p \in Payments |-> {}]
    /\ startedAt    = [p \in Payments |-> Never]
    /\ events       = [p \in Payments |-> <<>>]
    /\ proofClaim   = [f \in Proofs |-> NoPayment]
    /\ invoiceClaim = [i \in Invoices |-> NoPayment]
    /\ paidAt       = [i \in Invoices |-> Never]
    /\ journal      = [i \in Invoices |-> NoPayment]

-----------------------------------------------------------------------------
(* Before dispatch: reservation, custody, quote                            *)

\* The claim trigger gives every proof of the payment to it, or the whole
\* insertion fails on the primary key (mint_url, proof_y).
ProofsFreeOfReserved(p) ==
    \A f \in ProofsOf[p] : proofClaim[f] # NoPayment => HasEffect(proofClaim[f])
ProofsFree(p) == \A f \in ProofsOf[p] : proofClaim[f] = NoPayment

Reserve(p, t) ==
    /\ ~Exists(p)
    /\ InWindow(p, t)
    /\ ProofsFree(p)
    /\ reservedAt' = [reservedAt EXCEPT ![p] = t]
    /\ proofClaim' = [f \in Proofs |-> IF f \in ProofsOf[p] THEN p ELSE proofClaim[f]]
    /\ UNCHANGED <<custodyAt, attemptAt, ambiguous, evidenceVars, startedAt,
                   events, invoiceClaim, ledgerVars>>

StoreCustody(p, t) ==
    /\ PreDispatch(p) /\ custodyAt[p] = Never
    /\ InWindow(p, t) /\ reservedAt[p] <= t
    /\ custodyAt' = [custodyAt EXCEPT ![p] = t]
    /\ UNCHANGED <<reservedAt, attemptAt, ambiguous, evidenceVars, startedAt,
                   events, claimVars, ledgerVars>>

BeginQuote(p, t) ==
    /\ PreDispatch(p) /\ custodyAt[p] # Never /\ attemptAt[p] = Never
    /\ InWindow(p, t) /\ reservedAt[p] <= t /\ custodyAt[p] <= t
    /\ attemptAt' = [attemptAt EXCEPT ![p] = t]
    /\ UNCHANGED <<reservedAt, custodyAt, ambiguous, evidenceVars, startedAt,
                   events, claimVars, ledgerVars>>

\* An attempt has one outcome, written while the payment is still undispatched.
OutcomeWritable(p) ==
    /\ attemptAt[p] # Never /\ p \notin ambiguous /\ quotes[p] = {}
    /\ custodyAt[p] # Never /\ PreDispatch(p)

RecordAmbiguous(p) ==
    /\ OutcomeWritable(p)
    /\ ambiguous' = ambiguous \cup {p}
    /\ UNCHANGED <<reservedAt, custodyAt, attemptAt, evidenceVars, startedAt,
                   events, claimVars, ledgerVars>>

RecordQuote(p, t) ==
    /\ OutcomeWritable(p)
    /\ attemptAt[p] <= t /\ ~Expired(p, t)
    /\ QuoteExpiry[p] - attemptAt[p] <= QuoteTTL
    /\ quotes' = [quotes EXCEPT ![p] = {[at |-> t, state |-> "UNPAID"]}]
    /\ UNCHANGED <<setupVars, snapshots, startedAt, events, claimVars, ledgerVars>>

-----------------------------------------------------------------------------
(* Observations: append-only, and closed once the payment is terminal      *)

\* A newer observation only, and PAID does not regress.
QuoteAdvances(p, o) ==
    \A x \in quotes[p] : x.at < o.at /\ (x.state = "PAID" => o.state = "PAID")

AlwaysWritable(p)      == Exists(p)
ObservationWritable(p) == Exists(p) /\ ~IsTerminal(p)

ObserveQuote(p, o) ==
    /\ ObservationWritable(p)
    /\ quotes[p] # {}
    /\ QuoteAdvances(p, o)
    /\ quotes' = [quotes EXCEPT ![p] = @ \cup {o}]
    /\ UNCHANGED <<setupVars, snapshots, startedAt, events, claimVars, ledgerVars>>

\* Snapshots may arrive in any order; in time order SPENT never regresses.
SnapshotFitsEarlier(p, s) ==
    \A x \in snapshots[p], f \in ProofsOf[p] :
        x.at # s.at /\ (x.at < s.at /\ x.states[f] = "SPENT" => s.states[f] = "SPENT")
SnapshotFits(p, s) ==
    \A x \in snapshots[p] :
        /\ x.at # s.at
        /\ \A f \in ProofsOf[p] :
              /\ x.at < s.at /\ x.states[f] = "SPENT" => s.states[f] = "SPENT"
              /\ s.at < x.at /\ s.states[f] = "SPENT" => x.states[f] = "SPENT"

ObserveProofs(p, s) ==
    /\ ObservationWritable(p)
    /\ reservedAt[p] <= s.at
    /\ SnapshotFits(p, s)
    /\ snapshots' = [snapshots EXCEPT ![p] = @ \cup {s}]
    /\ UNCHANGED <<setupVars, quotes, startedAt, events, claimVars, ledgerVars>>

-----------------------------------------------------------------------------
(* The lifecycle                                                           *)

Append1(p, e) == events' = [events EXCEPT ![p] = Append(@, e)]

\* The latest quote observation still offers the melt at time t.
QuoteDispatchable(p, t) ==
    /\ ~Expired(p, t)
    /\ \E o \in quotes[p] : IsLatest(o, quotes[p]) /\ o.state = "UNPAID" /\ o.at <= t

\* The claim on the invoice is its primary key.
InvoiceUnpaid(p) == Open(InvoiceOf[p])
InvoiceFree(p)   == invoiceClaim[InvoiceOf[p]] = NoPayment

CanStartEffect(p, id, t) ==
    /\ PreDispatch(p)
    /\ InWindow(p, t) /\ reservedAt[p] <= t
    /\ QuoteDispatchable(p, t) /\ FreshId(id)
    /\ InvoiceFree(p)

\* One transaction writes the effect, its dispatch_started event and the
\* invoice claim (and the recovery job, which RecoveryJobs models).
StartEffect(p, id, t) ==
    /\ CanStartEffect(p, id, t)
    /\ startedAt' = [startedAt EXCEPT ![p] = t]
    /\ Append1(p, [id |-> id, state |-> "dispatch_started", evidence |-> "none",
                   recordedAt |-> t, evidenceAt |-> Never, proofsAt |-> Never])
    /\ invoiceClaim' = [invoiceClaim EXCEPT ![InvoiceOf[p]] = p]
    /\ UNCHANGED <<setupVars, evidenceVars, proofClaim, ledgerVars>>

EverDispatched(p) == HasEffect(p) /\ Readable(p)
Dispatched(p)     == HasEffect(p) /\ State(p) \in InDispatch /\ Readable(p)

FitsUnbounded(p, e) == FreshId(e.id)
Fits(p, e)          == FreshId(e.id) /\ Len(events[p]) < MaxEvents

\* What every transition after dispatch is checked for.
CanTransition(p, e) ==
    /\ Dispatched(p) /\ Fits(p, e)
    /\ LastEvent(p).recordedAt <= e.recordedAt
    /\ startedAt[p] <= e.evidenceAt /\ e.evidenceAt <= e.recordedAt
    /\ e.evidence = "melt_unpaid_after_expiry" => Expired(p, e.evidenceAt)
    /\ e.proofsAt # Never => e.evidenceAt <= e.proofsAt /\ e.proofsAt <= e.recordedAt

PendingEvent(id, at, now) ==
    [id |-> id, state |-> "pending", evidence |-> "operator_pending",
     recordedAt |-> now, evidenceAt |-> at, proofsAt |-> Never]

AttentionEvent(id, why, at, now) ==
    [id |-> id, state |-> "needs_attention", evidence |-> why,
     recordedAt |-> now, evidenceAt |-> at, proofsAt |-> Never]

ConsumedEvent(id, at, pat, now) ==
    [id |-> id, state |-> "consumed", evidence |-> "melt_paid",
     recordedAt |-> now, evidenceAt |-> at, proofsAt |-> pat]

FailureEvent(id, at, pat, now) ==
    [id |-> id, state |-> "released", evidence |-> "melt_unpaid_after_expiry",
     recordedAt |-> now, evidenceAt |-> at, proofsAt |-> pat]

\* A nonterminal transition appends its event and changes nothing else.
Note(p, e) ==
    /\ CanTransition(p, e)
    /\ Append1(p, e)
    /\ UNCHANGED <<setupVars, evidenceVars, startedAt, claimVars, ledgerVars>>

RecordPending(p, id, at, now)        == Note(p, PendingEvent(id, at, now))
RequireAttention(p, id, why, at, now) == Note(p, AttentionEvent(id, why, at, now))

\* PAID at exactly the evidence time, and every proof SPENT in the snapshot.
PaymentProven(p, at, pat) ==
    /\ \E o \in quotes[p] : o.at = at /\ o.state = "PAID"
    /\ \E s \in snapshots[p] : s.at = pat /\ Uniform(p, s, "SPENT")

CanAccept(p, id, at, pat, now) ==
    /\ PaymentProven(p, at, pat)
    /\ InWindow(p, pat)
    /\ CanTransition(p, ConsumedEvent(id, at, pat, now))

AcceptUnbooked(p, id, at, pat, now) ==
    /\ CanAccept(p, id, at, pat, now)
    /\ Append1(p, ConsumedEvent(id, at, pat, now))
    /\ custodyAt' = [custodyAt EXCEPT ![p] = Never]
    /\ UNCHANGED <<reservedAt, attemptAt, ambiguous, evidenceVars, startedAt,
                   claimVars, ledgerVars>>

\* Journal, postings, paid invoice and consumed event commit together; the
\* event's trigger destroys the bearer custody.  Both claims stay.
AcceptPayment(p, id, at, pat, now) ==
    /\ CanAccept(p, id, at, pat, now)
    /\ Append1(p, ConsumedEvent(id, at, pat, now))
    /\ paidAt'    = [paidAt EXCEPT ![InvoiceOf[p]] = pat]
    /\ journal'   = [journal EXCEPT ![InvoiceOf[p]] = p]
    /\ custodyAt' = [custodyAt EXCEPT ![p] = Never]
    /\ UNCHANGED <<reservedAt, attemptAt, ambiguous, evidenceVars, startedAt, claimVars>>

DropClaimsOnly(p) ==
    /\ proofClaim'   = [f \in Proofs |-> IF proofClaim[f] = p THEN NoPayment ELSE proofClaim[f]]
    /\ invoiceClaim' = [i \in Invoices |->
                           IF invoiceClaim[i] = p THEN NoPayment ELSE invoiceClaim[i]]
    /\ UNCHANGED custodyAt

\* A released payment gives up its claims and its custody.
DropClaims(p) ==
    /\ proofClaim'   = [f \in Proofs |-> IF proofClaim[f] = p THEN NoPayment ELSE proofClaim[f]]
    /\ invoiceClaim' = [i \in Invoices |->
                           IF invoiceClaim[i] = p THEN NoPayment ELSE invoiceClaim[i]]
    /\ custodyAt'    = [custodyAt EXCEPT ![p] = Never]

ReleasePreDispatch(p, id, now) ==
    /\ PreDispatch(p) /\ FreshId(id) /\ reservedAt[p] <= now
    /\ Append1(p, [id |-> id, state |-> "released", evidence |-> "pre_dispatch",
                   recordedAt |-> now, evidenceAt |-> Never, proofsAt |-> Never])
    /\ DropClaims(p)
    /\ UNCHANGED <<reservedAt, attemptAt, ambiguous, evidenceVars, startedAt, ledgerVars>>

FailureSeen(p, at, pat) ==
    /\ \E o \in quotes[p] : o.at = at /\ o.state = "UNPAID"
    /\ \E s \in snapshots[p] : s.at = pat /\ Uniform(p, s, "UNSPENT")

\* Failure is proven by the latest pair of observations only: the quote UNPAID
\* and every proof UNSPENT.
FailureProven(p, at, pat) ==
    /\ \E o \in quotes[p] : o.at = at /\ o.state = "UNPAID" /\ IsLatest(o, quotes[p])
    /\ \E s \in snapshots[p] :
          s.at = pat /\ Uniform(p, s, "UNSPENT") /\ IsLatest(s, snapshots[p])

CanReleaseAfterFailure(p, id, at, pat, now) ==
    /\ FailureProven(p, at, pat)
    /\ CanTransition(p, FailureEvent(id, at, pat, now))

ReleaseAfterFailure(p, id, at, pat, now) ==
    /\ CanReleaseAfterFailure(p, id, at, pat, now)
    /\ Append1(p, FailureEvent(id, at, pat, now))
    /\ DropClaims(p)
    /\ UNCHANGED <<reservedAt, attemptAt, ambiguous, evidenceVars, startedAt, ledgerVars>>

-----------------------------------------------------------------------------
Setup(p) ==
    \/ RecordAmbiguous(p)
    \/ \E t \in Times :
          Reserve(p, t) \/ StoreCustody(p, t) \/ BeginQuote(p, t) \/ RecordQuote(p, t)

Observe(p) ==
    \/ \E o \in QuoteObservation : ObserveQuote(p, o)
    \/ \E s \in Snapshot(p) : ObserveProofs(p, s)

Transition(p, id) ==
    \E now \in Times :
        \/ StartEffect(p, id, now)
        \/ ReleasePreDispatch(p, id, now)
        \/ \E at \in Times :
              \/ RecordPending(p, id, at, now)
              \/ \E why \in AttentionReasons : RequireAttention(p, id, why, at, now)
              \/ \E pat \in Times :
                    \/ AcceptPayment(p, id, at, pat, now)
                    \/ ReleaseAfterFailure(p, id, at, pat, now)

Next == \E p \in Payments : Setup(p) \/ Observe(p) \/ \E id \in EventIds : Transition(p, id)

Spec == Init /\ [][Next]_vars

-----------------------------------------------------------------------------
(* Properties                                                              *)

\* Every column holds a value of its type.
TypeOK ==
    /\ {reservedAt, custodyAt, attemptAt, startedAt} \subseteq [Payments -> When]
    /\ ambiguous \subseteq Payments
    /\ quotes \in [Payments -> SUBSET QuoteObservation]
    /\ DOMAIN snapshots = Payments
    /\ \A p \in Payments : snapshots[p] \subseteq Snapshot(p)
    /\ events \in [Payments -> Seq(Event)]
    /\ \A p \in Payments : Len(events[p]) <= MaxEvents
    /\ proofClaim \in [Proofs -> Maybe]
    /\ invoiceClaim \in [Invoices -> Maybe]
    /\ paidAt \in [Invoices -> When]
    /\ journal \in [Invoices -> Maybe]

Holds(p) == Exists(p) /\ State(p) # "released"

\* Two payments that hold their proofs have no proof in common, whatever the
\* order of reservations, releases and re-reservations of the same proof by
\* other payments (the primary key of cashu_active_proof_claims).
NoSharedProof ==
    \A p, q \in Payments :
        p # q /\ Holds(p) /\ Holds(q) => ProofsOf[p] \cap ProofsOf[q] = {}

\* At most one payment of an invoice is between dispatch and the end of time
\* with its proofs gone or at risk: a second payment of the same invoice can be
\* dispatched only after the first one was released
\* (cashu_active_invoice_payment_claims).
OneMeltPerInvoice ==
    \A p, q \in Payments :
        /\ p # q /\ InvoiceOf[p] = InvoiceOf[q]
        /\ HasEffect(p) /\ HasEffect(q)
        => State(p) = "released" \/ State(q) = "released"

\* An invoice is paid exactly when one payment of it is consumed, and the
\* journal books that payment: the writes of acceptPayment are one transaction.
BookedOnce ==
    \A i \in Invoices :
        /\ paidAt[i] # Never <=> journal[i] # NoPayment
        /\ \A p \in Payments :
              journal[i] = p <=> InvoiceOf[p] = i /\ State(p) = "consumed"

\* Encrypted bearer proofs outlive every ambiguity and do not outlive the end:
\* a dispatched payment has custody until it is terminal, and a terminal one
\* has none.
CustodyUntilTerminal ==
    \A p \in Payments :
        /\ HasEffect(p) /\ ~IsTerminal(p) => custodyAt[p] # Never
        /\ IsTerminal(p) => custodyAt[p] = Never

\* A dispatched payment that was released rests on evidence nothing later
\* contradicts: its last quote observation is UNPAID at or after the quote's
\* expiry and its last snapshot, no older, finds every proof UNSPENT.
ReleaseIsProven ==
    \A p \in Payments :
        HasEffect(p) /\ State(p) = "released" =>
            \E o \in quotes[p], s \in snapshots[p] :
                /\ IsLatest(o, quotes[p]) /\ o.state = "UNPAID" /\ Expired(p, o.at)
                /\ IsLatest(s, snapshots[p]) /\ Uniform(p, s, "UNSPENT") /\ o.at <= s.at

\* A consumed payment was PAID and then all-SPENT before its invoice expired,
\* and no observation of the record, earlier or later, says otherwise after it.
ConsumedIsProven ==
    \A p \in Payments :
        State(p) = "consumed" =>
            \E o \in quotes[p], s \in snapshots[p] :
                /\ o.state = "PAID" /\ Uniform(p, s, "SPENT") /\ o.at <= s.at
                /\ s.at < InvoiceExpiry[InvoiceOf[p]]
                /\ \A x \in quotes[p] : o.at <= x.at => x.state = "PAID"
                /\ \A x \in snapshots[p] : s.at <= x.at => Uniform(p, x, "SPENT")

\* Once a payment is terminal its events, its evidence, its effect and, for a
\* consumed payment, its claims and its booking never change again.
TerminalIsFrozen ==
    [][\A p \in Payments : IsTerminal(p) =>
          /\ UNCHANGED <<events[p], quotes[p], snapshots[p], startedAt[p], custodyAt[p]>>
          /\ State(p) = "consumed" =>
                UNCHANGED <<invoiceClaim[InvoiceOf[p]], paidAt[InvoiceOf[p]],
                            journal[InvoiceOf[p]]>>]_vars

\* docs/adr/0020-require-quote-evidence-for-melt-effects.md: "Later quote
\* checks remain append-only and can advance without invalidating lifecycle
\* recovery."  The record of a dispatched payment can always be read back.
LaterQuotesKeepRecovery == \A p \in Payments : Readable(p)

Phase(p) ==
    IF ~Exists(p) THEN "idle"
    ELSE IF State(p) = "consumed" THEN "spent"
    ELSE IF State(p) = "released" THEN "returned"
    ELSE IF HasEffect(p) THEN "committed" ELSE "held"

Escrow == INSTANCE PaymentEscrow WITH
              phase <- [p \in Payments |-> Phase(p)], credit <- journal

\* The record implements the escrow: the claim tables, the invoice claim and
\* the evidence rules together keep what PaymentEscrow promises.
ImplementsEscrow == Escrow!Spec

=============================================================================
