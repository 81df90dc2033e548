---------------------- MODULE StellarSettlementProofs ----------------------
(***************************************************************************)
(* The safety of a Stellar payout, for any number of concurrent calls and  *)
(* any envelopes: the invariants of the run one_payout and the strength-   *)
(* ening they rest on.                                                     *)
(***************************************************************************)
EXTENDS StellarSettlement, TLAPS

\* The journal is at most one update ahead of the memory, and an update takes
\* nothing back: a prepared transaction, its dispatch and a final state stay.
Follows(s, m) ==
    /\ m.prepared # NoEnvelope => s.prepared = m.prepared
    /\ m.started => s.started
    /\ m.state \in Final => s.state = m.state

\* What the state of a settlement says of its two marks.
InOrder(s) ==
    /\ s.state \in {"absent", "unpaid"} => ~s.started
    /\ s.state \in {"submitted", "paid", "needs_attention"} => s.started
    /\ s.started => s.prepared # NoEnvelope

\* A final settlement is true of the network.  One that failed before its
\* dispatch did so while the memory knew of no dispatch.
Founded(s) ==
    /\ s.state = "paid" => network[s.prepared] = "applied"
    /\ s.state = "failed" => \/ ~mem.started /\ ~s.started
                             \/ s.prepared # NoEnvelope /\ network[s.prepared] = "dead"

\* What a call holds is still so of the memory it goes on to update.
AtHand == {"looking", "dispatching", "submitting", "submitted", "resulted"}

Fits(l, m) ==
    /\ l.pc \in AtHand => l.e = m.prepared /\ m.prepared # NoEnvelope
    /\ l.pc \in {"submitting", "submitted", "resulted"} => m.started
    /\ l.pc = "resulted" =>
          /\ l.seen \in {"accepted", "confirmed", "rejected", "unknown"}
          /\ l.seen = "confirmed" => network[m.prepared] = "applied"
          /\ l.seen = "rejected" => network[m.prepared] = "dead"
    /\ l.pc = "observed" =>
          /\ m.prepared # NoEnvelope
          /\ l.seen \in {"pending", "confirmed", "failed"}
          /\ l.seen = "confirmed" => network[m.prepared] = "applied"
          /\ l.seen = "failed" => network[m.prepared] = "dead"

OnlySent == \A e \in Envelopes : network[e] \in {"in_flight", "applied"} => e \in sent

IInv ==
    /\ TypeOK
    /\ Follows(disk, mem)
    /\ InOrder(mem) /\ InOrder(disk)
    /\ Founded(mem) /\ Founded(disk)
    /\ \A c \in Calls : Fits(call[c], mem)
    /\ OnlySent
    /\ SentIsDurable
    /\ AnswersStand

-----------------------------------------------------------------------------
(* The operations of a settlement                                          *)

\* What an update may store.
Good(s) == s \in Settlement /\ Follows(s, mem) /\ InOrder(s) /\ Founded(s)

CallState == [pc : Pcs, e : Envelopes \cup {NoEnvelope},
              seen : Observations \cup {"none", "accepted", "rejected", "unknown"}]

\* A settlement of the right type is none of the refused ones.
LEMMA RefusedIsNone == Refused \notin Settlement
BY DEF Refused, Settlement, States

\* The operations of a call that prepares and dispatches: each refuses, or
\* stores something good.
LEMMA DispatchOperations ==
    ASSUME IInv
    PROVE  /\ ReserveProofs(mem) # Refused => Good(ReserveProofs(mem))
           /\ RecordProvableFailure(mem) # Refused => Good(RecordProvableFailure(mem))
           /\ \A e \in Envelopes :
                 RecordPrepared(mem, e) # Refused =>
                     Good(RecordPrepared(mem, e)) /\ RecordPrepared(mem, e).prepared = e
           /\ RecordDispatchStarted(mem) # Refused =>
                     Good(RecordDispatchStarted(mem)) /\ RecordDispatchStarted(mem).started
<1> USE DEF IInv, TypeOK, Settlement, States, Follows, InOrder, Founded, Final, Good, To
<1>1. ReserveProofs(mem) # Refused => Good(ReserveProofs(mem))
  BY DEF ReserveProofs
<1>2. RecordProvableFailure(mem) # Refused => Good(RecordProvableFailure(mem))
  BY DEF RecordProvableFailure
<1>3. ASSUME NEW e \in Envelopes, RecordPrepared(mem, e) # Refused
      PROVE  Good(RecordPrepared(mem, e)) /\ RecordPrepared(mem, e).prepared = e
  BY <1>3, EnvelopesAssumption DEF RecordPrepared
<1>4. RecordDispatchStarted(mem) # Refused =>
          Good(RecordDispatchStarted(mem)) /\ RecordDispatchStarted(mem).started
  BY DEF RecordDispatchStarted
<1>5. QED
  BY <1>1, <1>2, <1>3, <1>4

\* What a call makes of an observation that is so.
LEMMA ObservationOperations ==
    ASSUME IInv, mem.prepared # NoEnvelope,
           NEW seen \in {"pending", "confirmed", "failed"},
           seen = "confirmed" => network[mem.prepared] = "applied",
           seen = "failed" => network[mem.prepared] = "dead",
           ApplyObservation(mem, seen) # Refused
    PROVE  Good(ApplyObservation(mem, seen))
<1> USE DEF IInv, TypeOK, Settlement, States, Follows, InOrder, Founded, Final, Good, To, Refused,
            RecordDispatchStarted, RecordSubmission, ConfirmPaid, RecordObservedFailure
<1>1. CASE seen = "pending" /\ mem.state = "proofs_reserved"
  <2>1. ApplyObservation(mem, seen) = [[mem EXCEPT !.started = TRUE] EXCEPT !.state = "submitted"]
    BY <1>1 DEF ApplyObservation
  <2>2. QED
    BY <1>1, <2>1
<1>2. CASE seen = "pending" /\ mem.state # "proofs_reserved"
  <2>1. ApplyObservation(mem, seen) = RecordSubmission(mem)
    BY <1>2 DEF ApplyObservation
  <2>2. QED
    BY <1>2, <2>1
<1>3. CASE seen = "confirmed"
  <2>1. CASE mem.state = "proofs_reserved"
    <3>1. RecordSubmission(RecordDispatchStarted(mem)) = [mem EXCEPT !.started = TRUE, !.state = "submitted"]
      BY <2>1
    <3>2. ApplyObservation(mem, seen) = [mem EXCEPT !.started = TRUE, !.state = "paid"]
      BY <1>3, <2>1, <3>1 DEF ApplyObservation
    <3>3. QED
      BY <1>3, <2>1, <3>2
  <2>2. CASE mem.state = "needs_attention"
    <3>1. ApplyObservation(mem, seen) = ConfirmPaid(RecordSubmission(mem))
      BY <1>3, <2>2 DEF ApplyObservation
    <3>2. QED
      BY <1>3, <2>2, <3>1
  <2>3. CASE mem.state \notin {"proofs_reserved", "needs_attention"}
    <3>1. ApplyObservation(mem, seen) = ConfirmPaid(mem)
      BY <1>3, <2>3 DEF ApplyObservation
    <3>2. QED
      BY <1>3, <2>3, <3>1
  <2>4. QED
    BY <2>1, <2>2, <2>3
<1>4. CASE seen = "failed"
  BY <1>4 DEF ApplyObservation
<1>5. QED
  BY <1>1, <1>2, <1>3, <1>4

\* What a call makes of the answer to its submission.
LEMMA ResultOperations ==
    ASSUME IInv, mem.prepared # NoEnvelope, mem.started,
           NEW seen \in {"accepted", "confirmed", "rejected", "unknown"},
           seen = "confirmed" => network[mem.prepared] = "applied",
           seen = "rejected" => network[mem.prepared] = "dead",
           ApplyResult(mem, seen) # Refused
    PROVE  Good(ApplyResult(mem, seen))
<1> USE DEF IInv, TypeOK, Settlement, States, Follows, InOrder, Founded, Final, Good, To, Refused,
            RecordSubmission, ConfirmPaid, RecordDispatchRejected, RequireAttention
<1>1. CASE seen = "accepted"
  BY <1>1 DEF ApplyResult
<1>2. CASE seen = "confirmed"
  BY <1>2 DEF ApplyResult
<1>3. CASE seen = "rejected"
  BY <1>3 DEF ApplyResult
<1>4. CASE seen = "unknown"
  BY <1>4 DEF ApplyResult
<1>5. QED
  BY <1>1, <1>2, <1>3, <1>4

-----------------------------------------------------------------------------
(* The inductive step                                                      *)

\* An idle call holds nothing, and a call keeps what it holds when the memory
\* only moves on.
LEMMA HeldStays ==
    ASSUME IInv, NEW d \in Calls, NEW s, Follows(s, mem)
    PROVE  Fits(call[d], s) /\ Fits(Idle, s) /\ Idle \in CallState
BY DEF IInv, Fits, Follows, AtHand, Idle, CallState, Pcs

\* A journal update that stores something good, or fails, keeps the invariant:
\* the memory moves with the journal or not at all.
LEMMA UpdateKeeps ==
    ASSUME IInv, NEW c \in Calls, NEW s, NEW l, Update(c, s, l), Quiet,
           s # Refused => Good(s) /\ l \in CallState /\ Fits(l, s)
    PROVE  IInv'
<1> USE DEF Quiet
<1>1. CASE s # Refused /\ mem' = s /\ disk' = s /\ Goto(c, l)
  <2>1. Good(s) /\ l \in CallState /\ Fits(l, s)
    BY <1>1
  <2>2. TypeOK'
    BY <1>1, <2>1 DEF IInv, TypeOK, Good, Goto, CallState
  <2>3. (Follows(disk, mem) /\ InOrder(mem) /\ InOrder(disk) /\ Founded(mem) /\ Founded(disk))'
    BY <1>1, <2>1 DEF Good, Follows, InOrder, Founded
  <2>4. ASSUME NEW d \in Calls
        PROVE  Fits(call[d], mem)'
    <3>1. call'[d] = IF d = c THEN l ELSE call[d]
      BY <1>1 DEF Goto, IInv, TypeOK
    <3>2. Fits(call'[d], s)
      BY <3>1, <2>1, HeldStays DEF Good
    <3>3. QED
      BY <3>2, <1>1 DEF Fits, AtHand
  <2>5. (OnlySent /\ SentIsDurable)'
    BY <1>1, <2>1, EnvelopesAssumption DEF IInv, TypeOK, OnlySent, SentIsDurable, Good, Follows
  <2>6. AnswersStand'
    BY <1>1, <2>1 DEF IInv, TypeOK, AnswersStand, Good, Follows
  <2>7. QED
    BY <2>2, <2>3, <2>4, <2>5, <2>6 DEF IInv
<1>2. CASE /\ mem' = mem /\ Goto(c, Idle)
           /\ disk' = disk \/ (s # Refused /\ disk' = s)
  <2>1. disk' = disk \/ (Good(s) /\ disk' = s)
    BY <1>2
  <2>2. TypeOK'
    BY <1>2, <2>1, HeldStays DEF IInv, TypeOK, Good, Goto, CallState
  <2>3. (Follows(disk, mem) /\ InOrder(mem) /\ InOrder(disk) /\ Founded(mem) /\ Founded(disk))'
    BY <1>2, <2>1 DEF IInv, Good, Follows, InOrder, Founded
  <2>4. ASSUME NEW d \in Calls
        PROVE  Fits(call[d], mem)'
    <3>1. call'[d] = Idle \/ call'[d] = call[d]
      BY <1>2 DEF Goto, IInv, TypeOK
    <3>2. Fits(call'[d], mem)
      BY <3>1, HeldStays DEF IInv, Follows
    <3>3. QED
      BY <3>2, <1>2 DEF Fits, AtHand
  <2>5. (OnlySent /\ SentIsDurable)'
    BY <1>2, <2>1, EnvelopesAssumption DEF IInv, TypeOK, OnlySent, SentIsDurable, Good, Follows
  <2>6. AnswersStand'
    BY <1>2, <2>1 DEF IInv, TypeOK, AnswersStand, Good, Follows
  <2>7. QED
    BY <2>2, <2>3, <2>4, <2>5, <2>6 DEF IInv
<1>3. QED
  BY <1>1, <1>2 DEF Update

\* So does a step of a call that only reads, and leaves with what it read.
LEMMA ReadKeeps ==
    ASSUME IInv, NEW c \in Calls, NEW l, Goto(c, l), Local, l \in CallState, Fits(l, mem)
    PROVE  IInv'
<1>1. TypeOK'
  BY DEF IInv, TypeOK, Goto, CallState, Local, Quiet
<1>2. ASSUME NEW d \in Calls
      PROVE  Fits(call[d], mem)'
  <2>1. call'[d] = l \/ call'[d] = call[d]
    BY DEF Goto, IInv, TypeOK
  <2>2. QED
    BY <2>1 DEF IInv, Fits, AtHand, Local, Quiet
<1>3. QED
  BY <1>1, <1>2 DEF IInv, Local, Quiet, Follows, InOrder, Founded, OnlySent, SentIsDurable, AnswersStand

\* A call that asks the network or the mint's answers moves one envelope, or
\* tells the mint the state in memory.
LEMMA SubmitKeeps ==
    ASSUME IInv, NEW c \in Calls, Submit(c)
    PROVE  IInv'
<1> DEFINE e == call[c].e
<1>1. e = mem.prepared /\ e \in Envelopes /\ mem.started
  BY EnvelopesAssumption DEF IInv, TypeOK, Fits, AtHand, Submit, Settlement
<1>2. disk.prepared = e /\ disk.started
  BY <1>1, EnvelopesAssumption DEF IInv, Follows
<1>3. /\ mem' = mem /\ disk' = disk /\ answers' = answers
      /\ sent \subseteq sent' /\ sent' \subseteq sent \cup {e}
      /\ \A x \in Envelopes : network'[x] # network[x] =>
            x = e /\ network[x] = "unsent" /\ network'[x] = "in_flight" /\ e \in sent'
      /\ network' \in [Envelopes -> Fates]
  BY <1>1 DEF Submit, IInv, TypeOK, Fates
<1>4. TypeOK'
  BY <1>1, <1>3 DEF IInv, TypeOK, Submit, Goto, Pcs
<1>5. (Founded(mem) /\ Founded(disk))'
  BY <1>1, <1>2, <1>3 DEF IInv, TypeOK, Founded, Settlement, InOrder
<1>6. ASSUME NEW d \in Calls
      PROVE  Fits(call[d], mem)'
  <2>1. CASE d = c
    <3>1. call'[d].pc = "submitted" /\ call'[d].e = e
      BY <2>1 DEF Submit, Goto, IInv, TypeOK
    <3>2. QED
      BY <3>1, <1>1, <1>3, EnvelopesAssumption DEF Fits, AtHand
  <2>2. CASE d # c
    <3>1. call'[d] = call[d] /\ Fits(call[d], mem)
      BY <2>2 DEF Submit, Goto, IInv, TypeOK
    <3>2. mem.prepared = e
      BY <1>1
    <3>3. QED
      BY <3>1, <3>2, <1>1, <1>3 DEF Fits, AtHand
  <2>3. QED
    BY <2>1, <2>2
<1>7. (OnlySent /\ SentIsDurable)'
  BY <1>1, <1>2, <1>3 DEF IInv, TypeOK, OnlySent, SentIsDurable
<1>8. QED
  BY <1>3, <1>4, <1>5, <1>6, <1>7 DEF IInv, Follows, InOrder, AnswersStand

LEMMA AnswerKeeps ==
    ASSUME IInv, NEW c \in Calls, Answer(c)
    PROVE  IInv'
<1>1. TypeOK'
  BY DEF IInv, TypeOK, Answer, Goto, Idle, Pcs
<1>2. ASSUME NEW d \in Calls
      PROVE  Fits(call[d], mem)'
  <2>1. call'[d] = Idle \/ call'[d] = call[d]
    BY DEF Answer, Goto, IInv, TypeOK
  <2>2. Fits(call'[d], mem)
    BY <2>1, HeldStays DEF IInv, Follows
  <2>3. QED
    BY <2>2 DEF Fits, AtHand, Answer
<1>3. AnswersStand'
  BY DEF IInv, Follows, AnswersStand, Answer
<1>4. QED
  BY <1>1, <1>2, <1>3 DEF IInv, Answer, Follows, InOrder, Founded, OnlySent, SentIsDurable

\* What the network does to an envelope that was sent, or never will be.
LEMMA NetworkKeeps ==
    ASSUME IInv, NEW e \in Envelopes, Include(e) \/ Expire(e)
    PROVE  IInv'
<1>1. /\ UNCHANGED <<mem, disk, call, sent, answers>>
      /\ network' \in [Envelopes -> Fates]
      /\ \A x \in Envelopes : network'[x] # network[x] =>
            /\ network[x] \notin {"applied", "dead"}
            /\ network'[x] = "dead" \/ (network[x] = "in_flight" /\ network'[x] = "applied")
  BY DEF Include, Expire, IInv, TypeOK, Fates
<1>2. TypeOK'
  BY <1>1 DEF IInv, TypeOK
<1>3. (Founded(mem) /\ Founded(disk))'
  BY <1>1 DEF IInv, TypeOK, Founded, Settlement, InOrder
<1>4. ASSUME NEW d \in Calls
      PROVE  Fits(call[d], mem)'
  BY <1>1 DEF IInv, TypeOK, Settlement, Fits, AtHand
<1>5. OnlySent'
  BY <1>1 DEF IInv, OnlySent
<1>6. QED
  BY <1>1, <1>2, <1>3, <1>4, <1>5 DEF IInv, Follows, InOrder, SentIsDurable, AnswersStand

\* A restart finds the journal, and a write for another quote brings it back.
LEMMA RestartKeeps ==
    ASSUME IInv, Crash \/ OtherWrite
    PROVE  IInv'
<1>1. CASE Crash
  <2>1. \A d \in Calls : Fits(call[d], mem)'
    BY <1>1 DEF Crash, Idle, Fits, AtHand
  <2>2. TypeOK'
    BY <1>1 DEF Crash, Quiet, IInv, TypeOK, Idle, Pcs
  <2>3. QED
    BY <1>1, <2>1, <2>2 DEF Crash, Quiet, IInv, Follows, InOrder, Founded, OnlySent, SentIsDurable,
                            AnswersStand
<1>2. CASE OtherWrite
  <2>1. \A d \in Calls : Fits(call[d], mem)'
    BY <1>2 DEF OtherWrite, Quiet, IInv, Fits, AtHand
  <2>2. TypeOK'
    BY <1>2 DEF OtherWrite, Quiet, IInv, TypeOK
  <2>3. QED
    BY <1>2, <2>1, <2>2 DEF OtherWrite, Quiet, IInv, Follows, InOrder, Founded, OnlySent,
                            SentIsDurable, AnswersStand
<1>3. QED
  BY <1>1, <1>2

\* Every step of a call is a read, an update with a good result, a submission
\* or an answer.
LEMMA CallKeeps ==
    ASSUME IInv, NEW c \in Calls, Advance(c) \/ Drop(c)
    PROVE  IInv'
<1> DEFINE l == call[c]
<1>0. l \in CallState /\ Fits(l, mem) /\ mem \in Settlement
  BY DEF IInv, TypeOK, CallState
<1> USE DEF CallState, Pcs, Observations, Idle, Fits, AtHand
<1>1. CASE GetPaymentQuote(c)
  <2> DEFINE s == IF mem.state = "absent" THEN To(mem, "unpaid") ELSE mem
  <2>1. Good(s)
    BY DEF IInv, TypeOK, Good, Settlement, States, Follows, InOrder, Founded, Final, To
  <2>2. QED
    BY <1>1, <2>1, UpdateKeeps DEF GetPaymentQuote
<1>2. CASE MakePayment(c)
  BY <1>2, ReadKeeps DEF MakePayment
<1>3. CASE Reserve(c)
  BY <1>0, <1>3, UpdateKeeps, DispatchOperations DEF Reserve
<1>4. CASE Drive(c)
  <2>1. PICK pc \in {"answering", "reconciling", "preparing", "reloading", "idle"} :
            Goto(c, [Idle EXCEPT !.pc = pc])
    BY <1>0, <1>4 DEF Drive, Settlement, States, Final
  <2>2. QED
    BY <1>4, <2>1, ReadKeeps DEF Drive
<1>5. CASE Prepare(c)
  <2>1. PICK e \in Envelopes \cup {NoEnvelope} : Goto(c, [l EXCEPT !.pc = "prepared", !.e = e])
    BY <1>5 DEF Prepare
  <2>2. QED
    BY <1>0, <1>5, <2>1, ReadKeeps DEF Prepare
<1>6. CASE StorePrepared(c)
  <2>1. CASE l.e = NoEnvelope
    BY <1>6, <2>1, UpdateKeeps, DispatchOperations DEF StorePrepared
  <2>2. CASE l.e # NoEnvelope
    BY <1>0, <1>6, <2>2, UpdateKeeps, DispatchOperations DEF StorePrepared
  <2>3. QED
    BY <2>1, <2>2
<1>7. CASE Reload(c)
  BY <1>0, <1>7, ReadKeeps DEF Reload, Settlement
<1>8. CASE Look(c)
  <2>1. PICK seen \in Observations :
            /\ Sees(l.e, seen)
            /\ Goto(c, IF seen = "not_found" THEN [l EXCEPT !.pc = "dispatching"]
                       ELSE [l EXCEPT !.pc = "observed", !.seen = seen])
    BY <1>8 DEF Look
  <2>2. QED
    BY <1>0, <1>8, <2>1, ReadKeeps DEF Look, Sees
<1>9. CASE StoreObservation(c)
  <2>1. ApplyObservation(mem, l.seen) # Refused => Good(ApplyObservation(mem, l.seen))
    BY <1>0, <1>9, ObservationOperations DEF StoreObservation
  <2>2. QED
    BY <1>9, <2>1, UpdateKeeps DEF StoreObservation
<1>10. CASE StartDispatch(c)
  <2> DEFINE s == RecordDispatchStarted(mem)
             n == [l EXCEPT !.pc = "submitting"]
  <2>1. s # Refused => Good(s) /\ Fits(n, s)
    BY <1>0, <1>10, DispatchOperations DEF StartDispatch, Good, Follows
  <2>2. n \in CallState
    BY <1>0
  <2>3. Update(c, s, n) /\ Quiet
    BY <1>10 DEF StartDispatch
  <2>4. QED
    BY <2>1, <2>2, <2>3, UpdateKeeps
<1>11. CASE Submit(c)
  BY <1>11, SubmitKeeps
<1>12. CASE SubmitAnswer(c)
  <2>1. PICK seen \in {"accepted", "confirmed", "rejected", "unknown"} :
            /\ seen = "confirmed" => network[l.e] = "applied"
            /\ seen = "rejected"  => network[l.e] = "dead"
            /\ Goto(c, [l EXCEPT !.pc = "resulted", !.seen = seen])
    BY <1>12 DEF SubmitAnswer
  <2>2. QED
    BY <1>0, <1>12, <2>1, ReadKeeps DEF SubmitAnswer
<1>13. CASE StoreResult(c)
  <2>1. PICK n \in {[Idle EXCEPT !.pc = "answering"], Idle} :
            Update(c, ApplyResult(mem, l.seen), n)
    BY <1>13 DEF StoreResult
  <2>2. ApplyResult(mem, l.seen) # Refused => Good(ApplyResult(mem, l.seen))
    BY <1>0, <1>13, ResultOperations DEF StoreResult
  <2>3. QED
    BY <1>13, <2>1, <2>2, UpdateKeeps DEF StoreResult
<1>14. CASE CheckOutgoingPayment(c)
  BY <1>14, ReadKeeps DEF CheckOutgoingPayment
<1>15. CASE Reconcile(c)
  <2>1. PICK seen \in Observations :
            /\ Sees(mem.prepared, seen)
            /\ Goto(c, IF seen = "not_found" THEN [Idle EXCEPT !.pc = "answering"]
                       ELSE [l EXCEPT !.pc = "observed", !.seen = seen])
    BY <1>15 DEF Reconcile
  <2>2. QED
    BY <1>0, <1>15, <2>1, ReadKeeps DEF Reconcile, Sees
<1>16. CASE Answer(c)
  BY <1>16, AnswerKeeps
<1>17. CASE Drop(c)
  BY <1>17, ReadKeeps DEF Drop
<1>18. QED
  BY <1>1, <1>2, <1>3, <1>4, <1>5, <1>6, <1>7, <1>8, <1>9, <1>10, <1>11, <1>12, <1>13, <1>14,
     <1>15, <1>16, <1>17 DEF Advance

-----------------------------------------------------------------------------
(* The theorems                                                            *)

\* The strengthening is an invariant: memory, journal, calls and network agree
\* in every state, over concurrent calls, failed writes and crashes.
THEOREM Inductive == Spec => []IInv
<1>1. Init => IInv
  BY DEF Init, Absent, Idle, IInv, TypeOK, Settlement, States, Pcs, Fates, Follows, InOrder,
         Founded, Fits, AtHand, OnlySent, SentIsDurable, AnswersStand, Final
<1>2. IInv /\ [Next]_vars => IInv'
  <2> SUFFICES ASSUME IInv, [Next]_vars
               PROVE  IInv'
    OBVIOUS
  <2>1. CASE UNCHANGED vars
    BY <2>1 DEF vars, IInv, TypeOK, Follows, InOrder, Founded, Fits, OnlySent, SentIsDurable,
                AnswersStand
  <2>2. CASE Next
    BY <2>2, CallKeeps, NetworkKeeps, RestartKeeps DEF Next
  <2>3. QED
    BY <2>1, <2>2
<1>3. QED
  BY <1>1, <1>2, PTL DEF Spec

\* Every variable of a payout holds a value of its type, and no refused update
\* is ever stored (StateStore::update).
THEOREM TypeCorrect == Spec => []TypeOK
<1>1. IInv => TypeOK
  BY DEF IInv
<1>2. QED
  BY <1>1, Inductive, PTL

\* What was handed to the network is what the journal says was dispatched, so
\* a restart signs no second payout (record_dispatch_started before submit).
THEOREM SentStaysDurable == Spec => []SentIsDurable
<1>1. IInv => SentIsDurable
  BY DEF IInv
<1>2. QED
  BY <1>1, Inductive, PTL

\* A payout is failed, or was answered as failed, only when no envelope can
\* settle it any more: it is dead, or none was dispatched and none will be.
THEOREM FailuresAreSafe == Spec => []FailedIsSafe
<1>1. IInv => FailedIsSafe
  <2> SUFFICES ASSUME IInv, mem.state = "failed", NEW e \in Envelopes, CanSettle(e)
               PROVE  FALSE
    BY DEF IInv, AnswersStand, FailedIsSafe
  <2>1. mem.started /\ mem.prepared = e
    BY DEF CanSettle, IInv, OnlySent, SentIsDurable, Fits, AtHand
  <2>2. network[e] = "dead"
    BY <2>1 DEF IInv, Founded
  <2>3. QED
    BY <2>2 DEF CanSettle
<1>2. QED
  BY <1>1, Inductive, PTL

\* A payout is paid, or was answered as paid, only when Stellar included the
\* transaction that was sent for it (confirm_paid).
THEOREM PaymentsAreReal == Spec => []PaidIsReal
<1>1. IInv => PaidIsReal
  <2> SUFFICES ASSUME IInv, mem.state = "paid"
               PROVE  \E e \in sent : network[e] = "applied"
    BY DEF IInv, AnswersStand, PaidIsReal
  <2>1. network[mem.prepared] = "applied" /\ mem.prepared \in Envelopes
    BY DEF IInv, TypeOK, Settlement, Founded, InOrder
  <2>2. QED
    BY <2>1 DEF IInv, OnlySent
<1>2. QED
  BY <1>1, Inductive, PTL

\* Memory and journal keep saying what the mint was told (make_response).
THEOREM AnswersLast == Spec => []AnswersStand
<1>1. IInv => AnswersStand
  BY DEF IInv
<1>2. QED
  BY <1>1, Inductive, PTL

=============================================================================
