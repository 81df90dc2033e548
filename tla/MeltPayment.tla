---------------------------- MODULE MeltPayment ----------------------------
(***************************************************************************)
(* Concurrent melt coordinators over the durable record of MeltLifecycle,  *)
(* and the mint they talk to.  Dispatchers authorize and send one NUT-05   *)
(* melt; recoverers only read the mint (the quote first, then the proofs)  *)
(* and decide from what they stored.  Every dispatcher and recoverer is    *)
(* one call, made at any time; a crash is a call that never takes its next *)
(* step, and a retry after it is another call.  A request or a response    *)
(* may be delayed or lost, and storage may refuse or fail any call.  The   *)
(* clocks of the acquirer's processes and of the mint agree                *)
(* (docs/recovery-operations.md asks for coordinated UTC clocks); a clock  *)
(* is read where the code reads it and time may pass between any two       *)
(* steps.                                                                  *)
(*                                                                         *)
(* Payments start reserved, in custody and quoted at second 0, as the      *)
(* operations of MeltLifecycle leave them.                                 *)
(***************************************************************************)
EXTENDS MeltLifecycle

CONSTANTS
    Dispatchers,     \* calls of the dispatch coordinator, at any time
    Recoverers,      \* calls of the recovery coordinator, at any time
    MaxTime          \* the clock stops here

\* Deterministic event identifiers: one payment, one kind, and for the
\* recovery events the evidence time.
Id(p, kind)       == <<p, kind, Never>>
IdAt(p, kind, at) == <<p, kind, at>>
Identifiers ==
    Payments \X (AttentionReasons \cup {"start", "pending", "accepted", "released", "abandoned"})
             \X When

ASSUME ClockAssumption == MaxTime \in Nat /\ Times = 0..MaxTime
ASSUME IdentifiersAssumption == Identifiers \subseteq EventIds

\* The payments start with their proofs claimed, each by one of them.
ASSUME ReservedAssumption ==
    \A p, q \in Payments : p # q => ProofsOf[p] \cap ProofsOf[q] = {}

VARIABLES
    now,             \* Unix seconds
    disp,            \* the local state of each dispatcher
    rec,             \* the local state of each recoverer
    posted,          \* melt requests ever handed to the network, per payment
    wire,            \* those of them the mint has not seen yet
    mintQuote,       \* the mint's state of the quote
    mintProofs       \* the mint's state of each proof of the payment

dbVars   == vars
mintVars == <<posted, wire, mintQuote, mintProofs>>
allVars  == <<dbVars, now, disp, rec, mintVars>>

\* The local state of a call: what it waits for, and what it has read so far.
IdleDispatcher == [pc |-> "idle", p |-> NoPayment, seen |-> "none",
                   at |-> Never, recordedAt |-> Never]
IdleRecoverer  == [pc |-> "idle", p |-> NoPayment, known |-> [at |-> Never, state |-> "none"],
                   seen |-> "none", at |-> Never,
                   states |-> <<>>, pat |-> Never, recordedAt |-> Never]
Done == [pc |-> "done"]

Prepared ==
    /\ reservedAt   = [p \in Payments |-> 0]
    /\ custodyAt    = [p \in Payments |-> 0]
    /\ attemptAt    = [p \in Payments |-> 0]
    /\ ambiguous    = {}
    /\ quotes       = [p \in Payments |-> {[at |-> 0, state |-> "UNPAID"]}]
    /\ snapshots    = [p \in Payments |-> {}]
    /\ startedAt    = [p \in Payments |-> Never]
    /\ events       = [p \in Payments |-> <<>>]
    /\ proofClaim   = [f \in Proofs |->
                          IF \E p \in Payments : f \in ProofsOf[p]
                          THEN CHOOSE p \in Payments : f \in ProofsOf[p] ELSE NoPayment]
    /\ invoiceClaim = [i \in Invoices |-> NoPayment]
    /\ paidAt       = [i \in Invoices |-> Never]
    /\ journal      = [i \in Invoices |-> NoPayment]

InitAll ==
    /\ Prepared
    /\ now = 0
    /\ disp = [d \in Dispatchers |-> IdleDispatcher]
    /\ rec  = [r \in Recoverers |-> IdleRecoverer]
    /\ posted = [p \in Payments |-> 0]
    /\ wire   = [p \in Payments |-> 0]
    /\ mintQuote  = [p \in Payments |-> "UNPAID"]
    /\ mintProofs = [p \in Payments |-> [f \in ProofsOf[p] |-> "UNSPENT"]]

-----------------------------------------------------------------------------
(* The mint, as the coordinators rely on it                                *)

\* A melt is started at most once at a time, never after the quote's expiry,
\* and takes every proof of the payment together.
MintHandle(p) ==
    /\ wire[p] > 0
    /\ wire' = [wire EXCEPT ![p] = @ - 1]
    /\ IF mintQuote[p] = "UNPAID" /\ now < QuoteExpiry[p]
       THEN /\ mintQuote'  = [mintQuote EXCEPT ![p] = "PENDING"]
            /\ mintProofs' = [mintProofs EXCEPT ![p] = [f \in ProofsOf[p] |-> "PENDING"]]
       ELSE UNCHANGED <<mintQuote, mintProofs>>
    /\ UNCHANGED <<dbVars, now, disp, rec, posted>>

\* The Stellar payment succeeded: the quote is PAID and the proofs become
\* SPENT one by one.
MintPay(p) ==
    /\ mintQuote[p] = "PENDING"
    /\ mintQuote' = [mintQuote EXCEPT ![p] = "PAID"]
    /\ UNCHANGED <<dbVars, now, disp, rec, posted, wire, mintProofs>>

MintSpend(p, f) ==
    /\ mintQuote[p] = "PAID" /\ mintProofs[p][f] = "PENDING"
    /\ mintProofs' = [mintProofs EXCEPT ![p][f] = "SPENT"]
    /\ UNCHANGED <<dbVars, now, disp, rec, posted, wire, mintQuote>>

\* The Stellar payment failed: quote and proofs are given back.
MintFail(p) ==
    /\ mintQuote[p] = "PENDING"
    /\ mintQuote'  = [mintQuote EXCEPT ![p] = "UNPAID"]
    /\ mintProofs' = [mintProofs EXCEPT ![p] = [f \in ProofsOf[p] |-> "UNSPENT"]]
    /\ UNCHANGED <<dbVars, now, disp, rec, posted, wire>>

Mint(p) == MintHandle(p) \/ MintPay(p) \/ MintFail(p) \/ \E f \in ProofsOf[p] : MintSpend(p, f)

Tick ==
    /\ now < MaxTime
    /\ now' = now + 1
    /\ UNCHANGED <<dbVars, disp, rec, mintVars>>

-----------------------------------------------------------------------------
(* A dispatch: CashuStellarMeltCoordinator.dispatch and the execution      *)
(* client it calls                                                         *)

\* The local state of d moves on; the other coordinators and the clock stay.
DispStep(d, r) == disp' = [disp EXCEPT ![d] = r] /\ UNCHANGED <<now, rec>>

\* Only a reserved payment with a dispatchable quote and custody goes on.
DispatchLoad(d, p) ==
    /\ disp[d].pc = "idle"
    /\ PreDispatch(p) /\ QuoteDispatchable(p, now)
    /\ DispStep(d, [IdleDispatcher EXCEPT !.pc = "loaded", !.p = p])
    /\ UNCHANGED <<dbVars, mintVars>>

AuthorizeReplay(d) ==
    LET p == disp[d].p IN
    /\ disp[d].pc = "loaded"
    /\ StartEffect(p, Id(p, "start"), now) \/ (HasEffect(p) /\ UNCHANGED dbVars)
    /\ DispStep(d, [disp[d] EXCEPT !.pc = "authorized"])
    /\ UNCHANGED mintVars

\* The authorize callback: only a newly inserted effect permits the request.
Authorize(d) ==
    LET p == disp[d].p IN
    /\ disp[d].pc = "loaded"
    /\ StartEffect(p, Id(p, "start"), now)
    /\ DispStep(d, [disp[d] EXCEPT !.pc = "authorized"])
    /\ UNCHANGED mintVars

\* A replayed, refused or failed start, or missing custody, ends the call.
Refused(d) ==
    /\ disp[d].pc = "loaded"
    /\ DispStep(d, Done)
    /\ UNCHANGED <<dbVars, mintVars>>

\* The clock is read once more before the request leaves; after the expiry,
\* or when the caller aborts, it does not leave.
OfferedOnce(p)  == TRUE
StillOffered(p) == ~Expired(p, now)

LastCheck(d) ==
    /\ disp[d].pc = "authorized"
    /\ StillOffered(disp[d].p)
    /\ DispStep(d, [disp[d] EXCEPT !.pc = "sending"])
    /\ UNCHANGED <<dbVars, mintVars>>

\* The process may be suspended between that check and its request.
Post(d) ==
    LET p == disp[d].p IN
    /\ disp[d].pc = "sending"
    /\ posted' = [posted EXCEPT ![p] = @ + 1]
    /\ wire'   = [wire EXCEPT ![p] = @ + 1]
    /\ DispStep(d, [disp[d] EXCEPT !.pc = "posted"])
    /\ UNCHANGED <<dbVars, mintQuote, mintProofs>>

\* The mint answers a request it has seen.
Answer(d) ==
    LET p == disp[d].p IN
    /\ disp[d].pc = "posted" /\ wire[p] = 0
    /\ DispStep(d, [disp[d] EXCEPT !.pc = "answered", !.seen = mintQuote[p]])
    /\ UNCHANGED <<dbVars, mintVars>>

\* The answer arrives and is stamped with the local clock.
Receive(d) ==
    /\ disp[d].pc = "answered"
    /\ DispStep(d, [disp[d] EXCEPT !.pc = "received", !.at = now])
    /\ UNCHANGED <<dbVars, mintVars>>

\* What observing o leaves in the record: o is new, or already there.
StoreQuote(p, o) == ObserveQuote(p, o) \/ (o \in quotes[p] /\ UNCHANGED dbVars)

PersistAnswer(d) ==
    LET l == disp[d]
        o == [at |-> l.at, state |-> l.seen] IN
    /\ l.pc = "received"
    /\ StoreQuote(l.p, o)
    /\ DispStep(d, IF l.seen = "PENDING"
                   THEN [l EXCEPT !.pc = "pending", !.recordedAt = now] ELSE Done)
    /\ UNCHANGED mintVars

DispatchPending(d) ==
    LET l == disp[d] IN
    /\ l.pc = "pending"
    /\ RecordPending(l.p, Id(l.p, "pending"), l.at, l.recordedAt)
    /\ DispStep(d, Done)
    /\ UNCHANGED mintVars

\* Any failure after the authorization: an expired quote, an abort, a lost or
\* invalid answer, a refused or failed write.
DispatchFails(d) ==
    /\ disp[d].pc \in {"authorized", "sending", "posted", "answered", "received", "pending"}
    /\ DispStep(d, [IdleDispatcher EXCEPT !.pc = "attention", !.p = disp[d].p])
    /\ UNCHANGED <<dbVars, mintVars>>

DispatchAttention(d) ==
    LET p == disp[d].p IN
    /\ disp[d].pc = "attention"
    /\ \E why \in AttentionReasons :
          RequireAttention(p, Id(p, why), why, now, now)
    /\ DispStep(d, Done)
    /\ UNCHANGED mintVars

Dispatch(d) ==
    \/ \E p \in Payments : DispatchLoad(d, p)
    \/ Authorize(d) \/ Refused(d) \/ LastCheck(d) \/ Post(d) \/ Answer(d)
    \/ Receive(d) \/ PersistAnswer(d) \/ DispatchPending(d) \/ DispatchFails(d)
    \/ DispatchAttention(d)

-----------------------------------------------------------------------------
(* A recovery: CashuStellarMeltRecoveryCoordinator.recover                 *)

RecStep(r, l) == rec' = [rec EXCEPT ![r] = l] /\ UNCHANGED <<now, disp, mintVars>>

AttentionAt(l, at, recordedAt) ==
    [IdleRecoverer EXCEPT !.pc = "attention", !.p = l.p, !.at = at,
                          !.recordedAt = recordedAt]

\* The lifecycle and the quote history are read once, before any await.
RecoverLoad(r, p) ==
    /\ rec[r].pc = "idle"
    /\ HasEffect(p) /\ ~IsTerminal(p) /\ Readable(p)
    /\ \E o \in quotes[p] :
          /\ IsLatest(o, quotes[p])
          /\ RecStep(r, [IdleRecoverer EXCEPT !.pc = "checking", !.p = p, !.known = o])
    /\ UNCHANGED dbVars

SampleQuote(r) ==
    /\ rec[r].pc = "checking"
    /\ RecStep(r, [rec[r] EXCEPT !.pc = "checked", !.seen = mintQuote[rec[r].p]])
    /\ UNCHANGED dbVars

\* The answer is refused when it regresses from the PAID the caller knew of or
\* contradicts the known observation of the same second.
QuoteCredible(known, o) ==
    /\ known.state = "PAID" => o.state = "PAID"
    /\ known.at <= o.at /\ (known.at = o.at => known = o)

ReceiveQuote(r) ==
    LET l == rec[r] IN
    /\ l.pc = "checked"
    /\ IF QuoteCredible(l.known, [at |-> now, state |-> l.seen])
       THEN RecStep(r, [l EXCEPT !.pc = "gotQuote", !.at = now])
       ELSE RecStep(r, AttentionAt(l, now, now))
    /\ UNCHANGED dbVars

\* The stored observation must come back as the latest one.
PersistQuote(r) ==
    LET l == rec[r]
        o == [at |-> l.at, state |-> l.seen] IN
    /\ l.pc = "gotQuote"
    /\ ObserveQuote(l.p, o) \/ (IsLatest(o, quotes[l.p]) /\ UNCHANGED dbVars)
    /\ RecStep(r, [l EXCEPT !.pc = "observing"])

SampleProofs(r) ==
    /\ rec[r].pc = "observing"
    /\ RecStep(r, [rec[r] EXCEPT !.pc = "observed", !.states = mintProofs[rec[r].p]])
    /\ UNCHANGED dbVars

ReceiveProofs(r) ==
    /\ rec[r].pc = "observed"
    /\ RecStep(r, [rec[r] EXCEPT !.pc = "gotProofs", !.pat = now])
    /\ UNCHANGED dbVars

Seen(l) == [at |-> l.pat, states |-> l.states]

PersistProofs(r) ==
    LET l == rec[r] IN
    /\ l.pc = "gotProofs"
    /\ ObserveProofs(l.p, Seen(l)) \/ (Seen(l) \in snapshots[l.p] /\ UNCHANGED dbVars)
    /\ RecStep(r, [l EXCEPT !.pc = "deciding"])

Accepts(l)  == l.seen = "PAID" /\ Uniform(l.p, Seen(l), "SPENT")
Releases(l) == l.seen = "UNPAID" /\ Expired(l.p, l.at) /\ Uniform(l.p, Seen(l), "UNSPENT")
Waits(l) ==
    \/ /\ l.seen = "PENDING"
       /\ Uniform(l.p, Seen(l), "PENDING") \/ Uniform(l.p, Seen(l), "UNSPENT")
    \/ l.seen = "UNPAID" /\ ~Expired(l.p, l.at) /\ Uniform(l.p, Seen(l), "UNSPENT")

\* recordedAt is read before the decision is written.  It is never before the
\* loaded lifecycle's last event, since the clocks agree and do not go back.
Decide(r) ==
    LET l == rec[r] IN
    /\ l.pc = "deciding"
    /\ \/ /\ Accepts(l)
          /\ AcceptPayment(l.p, Id(l.p, "accepted"), l.at, l.pat, now)
       \/ /\ Releases(l)
          /\ ReleaseAfterFailure(l.p, Id(l.p, "released"), l.at, l.pat, now)
       \/ /\ Waits(l) /\ l.seen = "PENDING"
          /\ RecordPending(l.p, IdAt(l.p, "pending", l.at), l.at, now)
       \/ Waits(l) /\ l.seen = "UNPAID" /\ UNCHANGED dbVars
    /\ RecStep(r, Done)

\* A decision the record refuses, or evidence that supports none, is noted
\* with the proofs' time; a refused pending event ends the call.
DecideFails(r) ==
    LET l == rec[r] IN
    /\ l.pc = "deciding"
    /\ RecStep(r, IF Waits(l) THEN Done ELSE AttentionAt(l, l.pat, now))
    /\ UNCHANGED dbVars

\* A failed observation, or a failed write of one, is noted with the time of
\* the last thing that was observed.
RecoverFails(r) ==
    LET l == rec[r] IN
    /\ l.pc \in {"checking", "checked", "gotQuote", "observing", "observed", "gotProofs"}
    /\ RecStep(r, AttentionAt(l, CASE l.pat # Never -> l.pat
                                   [] l.pat = Never /\ l.at # Never -> l.at
                                   [] OTHER -> now,
                              Never))
    /\ UNCHANGED dbVars

RecoverAttention(r) ==
    LET l == rec[r]
        t == IF l.recordedAt = Never THEN now ELSE l.recordedAt IN
    /\ l.pc = "attention"
    /\ \E why \in AttentionReasons :
          RequireAttention(l.p, IdAt(l.p, why, l.at), why, l.at, t)
    /\ RecStep(r, Done)

Recover(r) ==
    \/ \E p \in Payments : RecoverLoad(r, p)
    \/ SampleQuote(r) \/ ReceiveQuote(r) \/ PersistQuote(r)
    \/ SampleProofs(r) \/ ReceiveProofs(r) \/ PersistProofs(r)
    \/ Decide(r) \/ DecideFails(r) \/ RecoverFails(r) \/ RecoverAttention(r)

\* A caller of the repository may give up a payment that was not dispatched.
Abandon(p) ==
    /\ ReleasePreDispatch(p, Id(p, "abandoned"), now)
    /\ UNCHANGED <<now, disp, rec, mintVars>>

NextAll ==
    \/ Tick
    \/ \E p \in Payments : Abandon(p) \/ Mint(p)
    \/ \E d \in Dispatchers : Dispatch(d)
    \/ \E r \in Recoverers : Recover(r)

SpecAll == InitAll /\ [][NextAll]_allVars

-----------------------------------------------------------------------------
(* Properties                                                              *)

\* Over all dispatchers, crashes and restarts a payment's bearer proofs are
\* handed to the network at most once, and never before the effect that
\* authorizes it is in the record.
OneAuthorizedPost ==
    \A p \in Payments : posted[p] <= 1 /\ (posted[p] = 1 => HasEffect(p))

SendsFor(d, p) == disp[d].pc = "sending" /\ disp[d].p = p

\* A payment whose proofs were given back was not melted and will never be:
\* the mint holds neither its quote nor its proofs, and a request that is still
\* on the wire or about to be sent comes too late.  A release decided from stale
\* answers, or raced by a slow dispatcher, would let the proofs be spent twice.
ReleaseIsSafe ==
    \A p \in Payments :
        State(p) = "released" =>
            /\ mintQuote[p] = "UNPAID"
            /\ \A f \in ProofsOf[p] : mintProofs[p][f] = "UNSPENT"
            /\ wire[p] > 0 \/ (\E d \in Dispatchers : SendsFor(d, p)) => QuoteExpiry[p] <= now

\* The merchant is credited only for a payment the mint really made, with
\* every proof of it spent.
CreditIsReal ==
    \A p \in Payments :
        State(p) = "consumed" =>
            /\ mintQuote[p] = "PAID"
            /\ \A f \in ProofsOf[p] : mintProofs[p][f] = "SPENT"

\* A dispatcher passes its last check only while its payment is in dispatch:
\* one that was paused since its authorization gives up when a recovery ended
\* the payment meanwhile.
NoSendAfterEnd ==
    [][\A d \in Dispatchers, p \in Payments :
          SendsFor(d, p)' /\ ~SendsFor(d, p) => State(p) \in InDispatch]_allVars

\* A mint that paid is never contradicted by the record: the payment keeps its
\* claims, so no other payment of the invoice or of the proofs goes ahead.
PaidKeepsClaims ==
    \A p \in Payments :
        mintQuote[p] \in {"PENDING", "PAID"} =>
            /\ invoiceClaim[InvoiceOf[p]] = p
            /\ \A f \in ProofsOf[p] : proofClaim[f] = p

=============================================================================
