------------------------- MODULE StellarSettlement -------------------------
(***************************************************************************)
(* One Stellar payout of the mint's payment processor: the settlement in   *)
(* the state journal, concurrent make_payment and check_outgoing_payment   *)
(* calls, the payout rail and the Stellar network.                         *)
(*                                                                         *)
(* A journal update is one step: it is computed on a copy, written to disk *)
(* and only then becomes the state in memory.  It may fail before the      *)
(* rename, or after it when the directory cannot be synced: the disk is    *)
(* then ahead of the memory.  Awaits (prepare, observe, submit) separate   *)
(* the steps of a call, a call may be dropped at any of them, and a crash  *)
(* drops every call and reloads the journal.                               *)
(*                                                                         *)
(* Transaction hashes are the envelopes' identities, and the rail answers  *)
(* about the hash it was asked about.  Payments of other quotes appear as  *)
(* the writes of the journal they share.                                   *)
(*                                                                         *)
(* A definition that stands directly before the one it resembles and is    *)
(* used nowhere is a defect of it; the runs show that a property sees it.  *)
(***************************************************************************)
CONSTANTS
    Calls,        \* concurrent calls of the processor, each made at any time
    Envelopes,    \* the signed transactions the rail can prepare
    NoEnvelope    \* "no prepared transaction"

ASSUME EnvelopesAssumption == NoEnvelope \notin Envelopes

VARIABLES
    mem,          \* the settlement in memory, StateStore::state
    disk,         \* the settlement in the journal file
    call,         \* the local state of each call
    sent,         \* envelopes ever handed to the network (history)
    network,      \* what became of each envelope on Stellar
    answers       \* final melt states ever answered to the mint (history)

vars == <<mem, disk, call, sent, network, answers>>

States == {"absent", "unpaid", "proofs_reserved", "submitted", "paid", "failed",
           "needs_attention"}
Final  == {"paid", "failed"}
Fates  == {"unsent", "in_flight", "applied", "dead"}

Absent  == [state |-> "absent", prepared |-> NoEnvelope, started |-> FALSE]
Refused == [state |-> "refused", prepared |-> NoEnvelope, started |-> FALSE]
Idle    == [pc |-> "idle", e |-> NoEnvelope, seen |-> "none"]

Init ==
    /\ mem = Absent /\ disk = Absent
    /\ call = [c \in Calls |-> Idle]
    /\ sent = {}
    /\ network = [e \in Envelopes |-> "unsent"]
    /\ answers = {}

-----------------------------------------------------------------------------
(* The operations of a Settlement: the new settlement, or Refused          *)

To(s, state) == [s EXCEPT !.state = state]

ReserveProofs(s) ==
    IF s.state \in {"unpaid", "proofs_reserved"} THEN To(s, "proofs_reserved") ELSE Refused

\* The first prepared transaction is the only one.
RecordLatestPrepared(s, e) ==
    IF s.state = "proofs_reserved" THEN [s EXCEPT !.prepared = e] ELSE Refused
RecordPrepared(s, e) ==
    IF s.state = "proofs_reserved" /\ s.prepared \in {NoEnvelope, e}
    THEN [s EXCEPT !.prepared = e] ELSE Refused

RecordDispatchStarted(s) ==
    IF s.state = "proofs_reserved" /\ s.prepared # NoEnvelope
    THEN [s EXCEPT !.started = TRUE] ELSE Refused

RecordSubmission(s) ==
    IF (s.state = "proofs_reserved" /\ s.started) \/ s.state = "needs_attention"
    THEN To(s, "submitted")
    ELSE IF s.state \in {"submitted", "paid"} THEN s ELSE Refused

ConfirmPaid(s) ==
    IF s.state \in {"submitted", "paid"} \/ (s.state = "needs_attention" /\ s.prepared # NoEnvelope)
    THEN To(s, "paid") ELSE Refused

\* A failed preparation proves that nothing was paid only before the dispatch.
FailWhileReserved(s) ==
    IF s.state = "proofs_reserved" THEN To(s, "failed") ELSE Refused
RecordProvableFailure(s) ==
    IF s.state = "proofs_reserved" /\ ~s.started THEN To(s, "failed") ELSE Refused

RecordDispatchRejected(s) ==
    IF s.state = "proofs_reserved" /\ s.started THEN To(s, "failed") ELSE Refused

RecordObservedFailure(s) ==
    IF s.prepared # NoEnvelope
       /\ s.state \in {"proofs_reserved", "submitted", "needs_attention", "failed"}
    THEN To(s, "failed") ELSE Refused

RequireAttention(s) ==
    IF s.state \in {"submitted", "needs_attention"} \/ (s.state = "proofs_reserved" /\ s.started)
    THEN To(s, "needs_attention") ELSE Refused

\* What an observation of the prepared transaction makes of the settlement.
ConfirmDirectly(s, seen) ==
    CASE seen = "pending"   -> RecordSubmission(s)
      [] seen = "confirmed" -> ConfirmPaid(s)
      [] seen = "failed"    -> RecordObservedFailure(s)
ApplyObservation(s, seen) ==
    LET started == IF s.state = "proofs_reserved" THEN RecordDispatchStarted(s) ELSE s IN
    CASE seen = "pending"   -> RecordSubmission(started)
      [] seen = "confirmed" -> ConfirmPaid(IF s.state \in {"proofs_reserved", "needs_attention"}
                                           THEN RecordSubmission(started) ELSE s)
      [] seen = "failed"    -> RecordObservedFailure(s)

\* What the answer to a submission makes of it.
PaidWhenAccepted(s, seen) ==
    CASE seen \in {"accepted", "confirmed"} -> ConfirmPaid(RecordSubmission(s))
      [] seen = "rejected" -> RecordDispatchRejected(s)
      [] seen = "unknown"  -> RequireAttention(s)
ApplyResult(s, seen) ==
    CASE seen = "accepted"  -> RecordSubmission(s)
      [] seen = "confirmed" -> ConfirmPaid(RecordSubmission(s))
      [] seen = "rejected"  -> RecordDispatchRejected(s)
      [] seen = "unknown"   -> RequireAttention(s)

-----------------------------------------------------------------------------
(* Calls                                                                   *)

Goto(c, l) == call' = [call EXCEPT ![c] = l]

\* A refused operation leaves the journal as it is.
StoreAnyway(c, s, l) == mem' = s /\ disk' = s /\ Goto(c, IF s = Refused THEN Idle ELSE l)

\* StateStore::update: either the disk and the memory move together and the
\* call goes on to l, or the memory stays and the call fails.
MemoryFirst(c, s, l) ==
    \/ s # Refused /\ mem' = s /\ disk' \in {disk, s} /\ Goto(c, l)
    \/ s = Refused /\ UNCHANGED <<mem, disk>> /\ Goto(c, Idle)
Update(c, s, l) ==
    \/ s # Refused /\ mem' = s /\ disk' = s /\ Goto(c, l)
    \/ /\ mem' = mem
       /\ disk' = disk \/ (s # Refused /\ disk' = s)
       /\ Goto(c, Idle)

Quiet == UNCHANGED <<sent, network, answers>>
Local == UNCHANGED <<mem, disk>> /\ Quiet

\* get_payment_quote: an existing quote is kept, and its state is answered.
GetPaymentQuote(c) ==
    /\ call[c].pc = "idle"
    /\ Update(c, IF mem.state = "absent" THEN To(mem, "unpaid") ELSE mem,
              [Idle EXCEPT !.pc = "answering"])
    /\ Quiet

MakePayment(c) ==
    /\ call[c].pc = "idle" /\ mem.state # "absent"
    /\ Goto(c, [Idle EXCEPT !.pc = IF mem.state = "unpaid" THEN "reserving" ELSE "driving"])
    /\ Local

Reserve(c) ==
    /\ call[c].pc = "reserving"
    /\ Update(c, ReserveProofs(mem), [call[c] EXCEPT !.pc = "driving"])
    /\ Quiet

\* The state read here decides how the call goes on.
Drive(c) ==
    /\ call[c].pc = "driving"
    /\ Goto(c, [Idle EXCEPT !.pc =
                   CASE mem.state \in Final                              -> "answering"
                     [] mem.state \in {"submitted", "needs_attention"}   -> "reconciling"
                     [] mem.state = "proofs_reserved" /\ mem.prepared = NoEnvelope -> "preparing"
                     [] mem.state = "proofs_reserved" /\ mem.prepared # NoEnvelope -> "reloading"
                     [] OTHER -> "idle"])
    /\ Local

\* The rail signs a transaction, or it does not.
Prepare(c) ==
    /\ call[c].pc = "preparing"
    /\ \E e \in Envelopes \cup {NoEnvelope} :
          Goto(c, [call[c] EXCEPT !.pc = "prepared", !.e = e])
    /\ Local

StorePrepared(c) ==
    /\ call[c].pc = "prepared"
    /\ Update(c, IF call[c].e = NoEnvelope THEN RecordProvableFailure(mem)
                                          ELSE RecordPrepared(mem, call[c].e),
              [Idle EXCEPT !.pc = "reloading"])
    /\ Quiet

Reload(c) ==
    /\ call[c].pc = "reloading"
    /\ Goto(c, IF mem.state = "failed" THEN [Idle EXCEPT !.pc = "answering"]
               ELSE IF mem.prepared = NoEnvelope THEN Idle
               ELSE [Idle EXCEPT !.pc = "looking", !.e = mem.prepared])
    /\ Local

\* The rail may always have seen nothing yet; anything else it says is so.
Sees(e, seen) ==
    \/ seen = "not_found"
    \/ seen = "pending"   /\ network[e] \in {"in_flight", "applied"}
    \/ seen = "confirmed" /\ network[e] = "applied"
    \/ seen = "failed"    /\ network[e] = "dead"

Observations == {"not_found", "pending", "confirmed", "failed"}

Look(c) ==
    /\ call[c].pc = "looking"
    /\ \E seen \in Observations :
          /\ Sees(call[c].e, seen)
          /\ Goto(c, IF seen = "not_found" THEN [call[c] EXCEPT !.pc = "dispatching"]
                     ELSE [call[c] EXCEPT !.pc = "observed", !.seen = seen])
    /\ Local

StoreObservation(c) ==
    /\ call[c].pc = "observed"
    /\ Update(c, ApplyObservation(mem, call[c].seen), [Idle EXCEPT !.pc = "answering"])
    /\ Quiet

StartDispatch(c) ==
    /\ call[c].pc = "dispatching"
    /\ Update(c, RecordDispatchStarted(mem), [call[c] EXCEPT !.pc = "submitting"])
    /\ Quiet

\* The envelope reaches the network, or is lost before it.
Submit(c) ==
    LET e == call[c].e IN
    /\ call[c].pc = "submitting"
    /\ \/ /\ sent' = sent \cup {e}
          /\ network' = [network EXCEPT ![e] = IF @ = "unsent" THEN "in_flight" ELSE @]
       \/ UNCHANGED <<sent, network>>
    /\ Goto(c, [call[c] EXCEPT !.pc = "submitted"])
    /\ UNCHANGED <<mem, disk, answers>>

\* A rejection is authoritative, and an error says nothing.
SubmitAnswer(c) ==
    LET e == call[c].e IN
    /\ call[c].pc = "submitted"
    /\ \E seen \in {"accepted", "confirmed", "rejected", "unknown"} :
          /\ seen = "accepted"  => e \in sent
          /\ seen = "confirmed" => network[e] = "applied"
          /\ seen = "rejected"  => network[e] = "dead"
          /\ Goto(c, [call[c] EXCEPT !.pc = "resulted", !.seen = seen])
    /\ Local

\* An ambiguous answer is answered to the mint, an error ends the call.
StoreResult(c) ==
    /\ call[c].pc = "resulted"
    /\ \E l \in {[Idle EXCEPT !.pc = "answering"], Idle} :
          /\ l = Idle => call[c].seen = "unknown"
          /\ Update(c, ApplyResult(mem, call[c].seen), l)
    /\ Quiet

\* check_outgoing_payment asks the rail only about a prepared transaction.
CheckOutgoingPayment(c) ==
    /\ call[c].pc = "idle" /\ mem.state # "absent"
    /\ Goto(c, [Idle EXCEPT !.pc =
                   IF mem.state \in {"proofs_reserved", "submitted", "needs_attention"}
                      /\ mem.prepared # NoEnvelope
                   THEN "reconciling" ELSE "answering"])
    /\ Local

Reconcile(c) ==
    /\ call[c].pc = "reconciling" /\ mem.prepared # NoEnvelope
    /\ \E seen \in Observations :
          /\ Sees(mem.prepared, seen)
          /\ Goto(c, IF seen = "not_found" THEN [Idle EXCEPT !.pc = "answering"]
                     ELSE [call[c] EXCEPT !.pc = "observed", !.seen = seen])
    /\ Local

\* make_response: the state in memory.
Answer(c) ==
    /\ call[c].pc = "answering"
    /\ answers' = answers \cup ({mem.state} \cap Final)
    /\ Goto(c, Idle)
    /\ UNCHANGED <<mem, disk, sent, network>>

\* The caller goes away, or an await fails.
Drop(c) == call[c].pc # "idle" /\ Goto(c, Idle) /\ Local

Advance(c) ==
    \/ GetPaymentQuote(c) \/ MakePayment(c) \/ Reserve(c) \/ Drive(c) \/ Prepare(c)
    \/ StorePrepared(c) \/ Reload(c) \/ Look(c) \/ StoreObservation(c) \/ StartDispatch(c)
    \/ Submit(c) \/ SubmitAnswer(c) \/ StoreResult(c) \/ CheckOutgoingPayment(c)
    \/ Reconcile(c) \/ Answer(c)

-----------------------------------------------------------------------------
(* The surroundings                                                        *)

\* Stellar includes a submitted transaction once; one that is not included yet
\* can become invalid for ever (its time bounds, its sequence number).
Include(e) ==
    /\ network[e] = "in_flight"
    /\ network' = [network EXCEPT ![e] = "applied"]
    /\ UNCHANGED <<mem, disk, call, sent, answers>>

Expire(e) ==
    /\ network[e] \in {"unsent", "in_flight"}
    /\ network' = [network EXCEPT ![e] = "dead"]
    /\ UNCHANGED <<mem, disk, call, sent, answers>>

\* The journal is written for another quote.
OtherWrite == disk' = mem /\ UNCHANGED <<mem, call>> /\ Quiet

Crash ==
    /\ mem' = disk
    /\ call' = [c \in Calls |-> Idle]
    /\ UNCHANGED disk /\ Quiet

Next ==
    \/ \E c \in Calls : Advance(c) \/ Drop(c)
    \/ \E e \in Envelopes : Include(e) \/ Expire(e)
    \/ OtherWrite \/ Crash

Spec == Init /\ [][Next]_vars

\* The mint polls, the rail sees an included transaction some time, and what
\* can be written again and again is written once, by one call or another.  Calls may still be dropped,
\* and the processor may crash, again and again.
SeesConfirmed(c)   == (Look(c) \/ Reconcile(c)) /\ call'[c].seen = "confirmed"
StoresConfirmed(c) == StoreObservation(c) /\ call[c].seen = "confirmed" /\ mem'.state = "paid"

Fairness ==
    /\ \A c \in Calls : WF_vars(Advance(c) \/ Drop(c))
    /\ SF_vars(\E c \in Calls : CheckOutgoingPayment(c))
    /\ SF_vars(\E c \in Calls : SeesConfirmed(c))
    /\ SF_vars(\E c \in Calls : StoresConfirmed(c))
    /\ SF_vars(\E c \in Calls : Answer(c))

FairSpec == Spec /\ Fairness

-----------------------------------------------------------------------------
(* Properties                                                              *)

Settlement == [state : States, prepared : Envelopes \cup {NoEnvelope}, started : BOOLEAN]

Pcs == {"idle", "reserving", "driving", "preparing", "prepared", "reloading", "looking",
        "observed", "dispatching", "submitting", "submitted", "resulted", "reconciling",
        "answering"}

\* Every variable holds a value of its type; no refused update is ever stored.
TypeOK ==
    /\ {mem, disk} \subseteq Settlement
    /\ call \in [Calls -> [pc : Pcs, e : Envelopes \cup {NoEnvelope},
                           seen : Observations \cup {"none", "accepted", "rejected", "unknown"}]]
    /\ sent \subseteq Envelopes
    /\ network \in [Envelopes -> Fates]
    /\ answers \subseteq Final

\* Whatever was handed to the network is what the journal says was dispatched,
\* so a restart asks about that transaction and signs no other: one payout per
\* quote, over concurrent calls, failed writes and crashes.
SentIsDurable ==
    \A e \in sent :
        /\ disk.prepared = e /\ disk.started
        /\ mem.prepared = e /\ mem.started

CanSettle(e) ==
    \/ network[e] \in {"in_flight", "applied"}
    \/ /\ network[e] = "unsent"
       /\ \E c \in Calls : call[c].pc = "submitting" /\ call[c].e = e

\* docs/adr/0004-stock-cdk-stellar-processor.md asks never to report FAILED
\* unless no payout can still settle: the mint gives the proofs back then.
FailedIsSafe ==
    (mem.state = "failed" \/ "failed" \in answers) => \A e \in Envelopes : ~CanSettle(e)

\* A payout is reported as paid only when Stellar included its transaction.
PaidIsReal ==
    (mem.state = "paid" \/ "paid" \in answers) =>
        \E e \in sent : network[e] = "applied"

\* A final answer stands through every crash and failed write: memory and
\* journal both keep saying what the mint was told.
AnswersStand == \A state \in answers : mem.state = state /\ disk.state = state

\* A payout that Stellar included is eventually answered as paid, from every
\* state the journal can be in: after a lost answer, an ambiguous one, a crash
\* before the submission was recorded.
PaidIsLearned ==
    (\E e \in Envelopes : network[e] = "applied") ~> "paid" \in answers

=============================================================================
