------------------------ MODULE MeltLifecycleProofs ------------------------
(***************************************************************************)
(* Proofs about MeltLifecycle for any payments, proofs, invoices and       *)
(* times.  The claim tables, the lifecycle and the ledger constrain one    *)
(* another: IInv says exactly how, is inductive, and implies the safety    *)
(* invariants and the refinement of PaymentEscrow.                         *)
(***************************************************************************)
EXTENDS MeltLifecycle, TLAPS

\* A proof is claimed by a payment exactly while that payment holds it.
ProofsClaimed ==
    \A p \in Payments, f \in Proofs :
        proofClaim[f] = p <=> Holds(p) /\ f \in ProofsOf[p]

\* An invoice is claimed by a payment of it exactly from its dispatch on, and
\* unless it is released.
InvoiceClaimed ==
    \A p \in Payments, i \in Invoices :
        invoiceClaim[i] = p <=>
            InvoiceOf[p] = i /\ HasEffect(p) /\ State(p) # "released"

\* The rows of a payment come into being in order: a reservation before
\* everything, a quote before an effect, an event with it.  Custody lasts from
\* before the first quote to the terminal event.
RowsInOrder ==
    \A p \in Payments :
        /\ ~Exists(p) => events[p] = <<>> /\ ~HasEffect(p)
        /\ HasEffect(p) => events[p] # <<>> /\ quotes[p] # {}
        /\ State(p) = "consumed" => HasEffect(p)
        /\ IsTerminal(p) => custodyAt[p] = Never
        /\ quotes[p] # {} /\ ~IsTerminal(p) => custodyAt[p] # Never

IInv == TypeOK /\ ProofsClaimed /\ InvoiceClaimed /\ BookedOnce /\ RowsInOrder

-----------------------------------------------------------------------------
(* Appending an event                                                      *)

\* insertEvent adds one row at the next sequence number: the sequence grows by
\* one and ends in the new event.
LEMMA AppendFacts ==
  ASSUME NEW S, NEW s \in Seq(S), NEW e \in S
  PROVE  /\ Append(s, e) \in Seq(S) /\ Len(Append(s, e)) = Len(s) + 1
         /\ Append(s, e) # <<>>
         /\ Append(s, e)[Len(Append(s, e))] = e
  OBVIOUS

\* An appended event is the state of its payment, and of no other.
LEMMA AppendedState ==
  ASSUME TypeOK, NEW p \in Payments, NEW e \in Event, Append1(p, e)
  PROVE  /\ events' \in [Payments -> Seq(Event)]
         /\ events'[p] # <<>> /\ State(p)' = e.state
         /\ Len(events'[p]) = Len(events[p]) + 1
         /\ \A q \in Payments \ {p} : events'[q] = events[q] /\ State(q)' = State(q)
  <1>1. events \in [Payments -> Seq(Event)] /\ events' = [events EXCEPT ![p] = Append(events[p], e)]
    BY DEF TypeOK, Append1
  <1>2. events[p] \in Seq(Event)
    BY <1>1
  <1>3. events'[p] = Append(events[p], e) /\ \A q \in Payments \ {p} : events'[q] = events[q]
    BY <1>1
  <1>4. events'[p] # <<>> /\ events'[p][Len(events'[p])] = e /\ Len(events'[p]) = Len(events[p]) + 1
    BY <1>2, <1>3, AppendFacts
  <1>5. events' \in [Payments -> Seq(Event)]
    BY <1>1, <1>2, AppendFacts
  <1> QED
    BY <1>3, <1>4, <1>5 DEF State, LastEvent

\* An event that still fits keeps the sequences well typed.
LEMMA AppendedType ==
  ASSUME TypeOK, NEW p \in Payments, NEW e \in Event, Append1(p, e), Len(events[p]) < MaxEvents
  PROVE  events' \in [Payments -> Seq(Event)] /\ \A q \in Payments : Len(events'[q]) <= MaxEvents
  <1>1. MaxEvents \in Nat /\ events[p] \in Seq(Event)
    BY ConstantsAssumption DEF ConstantsAssumption, TypeOK
  <1>2. Len(events[p]) \in Nat
    BY <1>1
  <1>3. Len(events'[p]) <= MaxEvents
    BY <1>1, <1>2, AppendedState
  <1>4. ASSUME NEW q \in Payments \ {p} PROVE Len(events'[q]) <= MaxEvents
    BY AppendedState DEF TypeOK
  <1> QED
    BY <1>3, <1>4, AppendedState

-----------------------------------------------------------------------------
(* Type correctness                                                        *)

\* The initial record is well typed.
LEMMA InitTypeOK == Init => TypeOK
  BY ConstantsAssumption DEF ConstantsAssumption, Init, TypeOK, When, Maybe, Never

\* Every transaction keeps the record well typed; the event sequence stays
\* within its limit because Fits asks for a free sequence number.
LEMMA NextTypeOK == TypeOK /\ [Next]_vars => TypeOK'
  <1> SUFFICES ASSUME TypeOK, [Next]_vars PROVE TypeOK'
    OBVIOUS
  <1> USE ConstantsAssumption DEF ConstantsAssumption, TypeOK, When, Maybe, Never
  <1>1. ASSUME NEW p \in Payments, RecordAmbiguous(p) PROVE TypeOK'
    BY <1>1 DEF RecordAmbiguous, evidenceVars, claimVars, ledgerVars
  <1>2. ASSUME NEW p \in Payments, NEW t \in Times, Reserve(p, t) PROVE TypeOK'
    BY <1>2 DEF Reserve, evidenceVars, ledgerVars
  <1>3. ASSUME NEW p \in Payments, NEW t \in Times, StoreCustody(p, t) PROVE TypeOK'
    BY <1>3 DEF StoreCustody, evidenceVars, claimVars, ledgerVars
  <1>4. ASSUME NEW p \in Payments, NEW t \in Times, BeginQuote(p, t) PROVE TypeOK'
    BY <1>4 DEF BeginQuote, evidenceVars, claimVars, ledgerVars
  <1>5. ASSUME NEW p \in Payments, NEW t \in Times, RecordQuote(p, t) PROVE TypeOK'
    BY <1>5 DEF RecordQuote, setupVars, claimVars, ledgerVars, QuoteObservation, QuoteStates
  <1>6. ASSUME NEW p \in Payments, NEW o \in QuoteObservation, ObserveQuote(p, o)
        PROVE TypeOK'
    BY <1>6 DEF ObserveQuote, setupVars, claimVars, ledgerVars
  <1>7. ASSUME NEW p \in Payments, NEW s \in Snapshot(p), ObserveProofs(p, s)
        PROVE TypeOK'
    BY <1>7 DEF ObserveProofs, setupVars, claimVars, ledgerVars
  <1>8. ASSUME NEW p \in Payments, NEW id \in EventIds, NEW now \in Times,
               StartEffect(p, id, now)
        PROVE TypeOK'
    <2> DEFINE e == [id |-> id, state |-> "dispatch_started", evidence |-> "none",
                     recordedAt |-> now, evidenceAt |-> Never, proofsAt |-> Never]
    <2>1. e \in Event
      BY DEF Event, InDispatch, When
    <2>2. Append1(p, e) /\ Len(events[p]) < MaxEvents
      BY <1>8 DEF StartEffect, CanStartEffect, PreDispatch
    <2> QED
      BY <1>8, <2>1, <2>2, AppendedType DEF StartEffect, setupVars, evidenceVars, ledgerVars
  <1>9. ASSUME NEW p \in Payments, NEW id \in EventIds, NEW now \in Times,
               ReleasePreDispatch(p, id, now)
        PROVE TypeOK'
    <2> DEFINE e == [id |-> id, state |-> "released", evidence |-> "pre_dispatch",
                     recordedAt |-> now, evidenceAt |-> Never, proofsAt |-> Never]
    <2>1. e \in Event
      BY DEF Event, Terminal, When
    <2>2. Append1(p, e) /\ Len(events[p]) < MaxEvents
      BY <1>9 DEF ReleasePreDispatch, PreDispatch
    <2> QED
      BY <1>9, <2>1, <2>2, AppendedType
      DEF ReleasePreDispatch, DropClaims, evidenceVars, ledgerVars
  <1>10. ASSUME NEW p \in Payments, NEW e \in Event, Note(p, e) PROVE TypeOK'
    BY <1>10, AppendedType
    DEF Note, CanTransition, Fits, setupVars, evidenceVars, claimVars, ledgerVars
  <1>11. ASSUME NEW p \in Payments, NEW id \in EventIds, NEW at \in Times, NEW now \in Times,
                RecordPending(p, id, at, now)
         PROVE TypeOK'
    <2>1. PendingEvent(id, at, now) \in Event
      BY DEF PendingEvent, Event, InDispatch, When
    <2> QED
      BY <1>11, <1>10, <2>1 DEF RecordPending
  <1>12. ASSUME NEW p \in Payments, NEW id \in EventIds, NEW why \in AttentionReasons,
                NEW at \in Times, NEW now \in Times, RequireAttention(p, id, why, at, now)
         PROVE TypeOK'
    <2>1. AttentionEvent(id, why, at, now) \in Event
      BY DEF AttentionEvent, Event, InDispatch, When
    <2> QED
      BY <1>12, <1>10, <2>1 DEF RequireAttention
  <1>13. ASSUME NEW p \in Payments, NEW id \in EventIds, NEW at \in Times, NEW pat \in Times,
                NEW now \in Times, AcceptPayment(p, id, at, pat, now)
         PROVE TypeOK'
    <2> DEFINE e == ConsumedEvent(id, at, pat, now)
    <2>1. e \in Event
      BY DEF ConsumedEvent, Event, Terminal, When
    <2>2. Append1(p, e) /\ Len(events[p]) < MaxEvents
      BY <1>13 DEF AcceptPayment, CanAccept, CanTransition, Fits
    <2> QED
      BY <1>13, <2>1, <2>2, AppendedType DEF AcceptPayment, evidenceVars, claimVars
  <1>14. ASSUME NEW p \in Payments, NEW id \in EventIds, NEW at \in Times, NEW pat \in Times,
                NEW now \in Times, ReleaseAfterFailure(p, id, at, pat, now)
         PROVE TypeOK'
    <2> DEFINE e == FailureEvent(id, at, pat, now)
    <2>1. e \in Event
      BY DEF FailureEvent, Event, Terminal, When
    <2>2. Append1(p, e) /\ Len(events[p]) < MaxEvents
      BY <1>14 DEF ReleaseAfterFailure, CanReleaseAfterFailure, CanTransition, Fits
    <2> QED
      BY <1>14, <2>1, <2>2, AppendedType
      DEF ReleaseAfterFailure, DropClaims, evidenceVars, ledgerVars
  <1>15. CASE UNCHANGED vars
    BY <1>15 DEF vars, setupVars, evidenceVars, claimVars, ledgerVars
  <1>16. ASSUME NEW p \in Payments, Setup(p) \/ Observe(p) PROVE TypeOK'
    <2> HIDE DEF TypeOK
    <2> QED
      BY <1>1, <1>2, <1>3, <1>4, <1>5, <1>6, <1>7, <1>16 DEF Setup, Observe
  <1>17. ASSUME NEW p \in Payments, NEW id \in EventIds, Transition(p, id) PROVE TypeOK'
    <2> HIDE DEF TypeOK
    <2> QED
      BY <1>8, <1>9, <1>11, <1>12, <1>13, <1>14, <1>17 DEF Transition
  <1>18. QED
    BY <1>15, <1>16, <1>17 DEF Next

\* Type correctness of the record, for any constants.
THEOREM TypeCorrect == Spec => []TypeOK
  BY InitTypeOK, NextTypeOK, PTL DEF Spec

-----------------------------------------------------------------------------
(* The forms of a step.  The invariants below see of the actions only what *)
(* they do to reservations, effects, events, claims, custody, quotes and   *)
(* the ledger; by that the actions fall into six forms.                    *)

\* Before dispatch, or an observation: no claim and no event changes.
Recorded(p) ==
    /\ Exists(p)
    /\ UNCHANGED <<reservedAt, startedAt, events, proofClaim, invoiceClaim, paidAt, journal>>
    /\ \/ UNCHANGED <<custodyAt, quotes>>
       \/ /\ ~IsTerminal(p) /\ UNCHANGED quotes
          /\ \E t \in Times : custodyAt' = [custodyAt EXCEPT ![p] = t]
       \/ /\ quotes[p] # {} \/ custodyAt[p] # Never
          /\ \E Q \in SUBSET QuoteObservation : Q # {} /\ quotes' = [quotes EXCEPT ![p] = Q]
          /\ UNCHANGED custodyAt

Reserved(p) ==
    /\ ~Exists(p) /\ ProofsFree(p) /\ Open(InvoiceOf[p])
    /\ \E t \in Times : reservedAt' = [reservedAt EXCEPT ![p] = t]
    /\ proofClaim' = [f \in Proofs |-> IF f \in ProofsOf[p] THEN p ELSE proofClaim[f]]
    /\ UNCHANGED <<custodyAt, quotes, startedAt, events, invoiceClaim, paidAt, journal>>

Started(p) ==
    /\ PreDispatch(p) /\ quotes[p] # {} /\ InvoiceFree(p)
    /\ \E t \in Times : startedAt' = [startedAt EXCEPT ![p] = t]
    /\ \E e \in Event : e.state = "dispatch_started" /\ Append1(p, e)
    /\ invoiceClaim' = [invoiceClaim EXCEPT ![InvoiceOf[p]] = p]
    /\ UNCHANGED <<reservedAt, custodyAt, quotes, proofClaim, paidAt, journal>>

Noted(p) ==
    /\ HasEffect(p) /\ State(p) \in InDispatch
    /\ \E e \in Event : e.state \in InDispatch /\ Append1(p, e)
    /\ UNCHANGED <<reservedAt, custodyAt, quotes, startedAt, proofClaim, invoiceClaim,
                   paidAt, journal>>

Accepted(p) ==
    /\ HasEffect(p) /\ State(p) \in InDispatch /\ Open(InvoiceOf[p])
    /\ \E e \in Event : e.state = "consumed" /\ Append1(p, e)
    /\ \E t \in Times : paidAt' = [paidAt EXCEPT ![InvoiceOf[p]] = t]
    /\ journal'   = [journal EXCEPT ![InvoiceOf[p]] = p]
    /\ custodyAt' = [custodyAt EXCEPT ![p] = Never]
    /\ UNCHANGED <<reservedAt, quotes, startedAt, proofClaim, invoiceClaim>>

Released(p) ==
    /\ PreDispatch(p) \/ (HasEffect(p) /\ State(p) \in InDispatch)
    /\ \E e \in Event : e.state = "released" /\ Append1(p, e)
    /\ DropClaims(p)
    /\ UNCHANGED <<reservedAt, quotes, startedAt, paidAt, journal>>

Form(p) == Recorded(p) \/ Reserved(p) \/ Started(p) \/ Noted(p) \/ Accepted(p) \/ Released(p)

\* Every transaction of the repositories that changes the record has one of
\* the six forms above; the lemmas that follow reason about forms only.
LEMMA EveryStepHasAForm == TypeOK /\ Next => \E p \in Payments : Form(p)
  <1> SUFFICES ASSUME TypeOK, NEW p \in Payments,
                      Setup(p) \/ Observe(p) \/ \E id \in EventIds : Transition(p, id)
               PROVE  Form(p)
    BY DEF Next
  <1> USE DEF Form, setupVars, evidenceVars, claimVars, ledgerVars
  <1>1. ASSUME RecordAmbiguous(p) PROVE Form(p)
    BY <1>1 DEF RecordAmbiguous, OutcomeWritable, PreDispatch, Recorded
  <1>2. ASSUME NEW t \in Times, Reserve(p, t) PROVE Form(p)
    BY <1>2 DEF Reserve, InWindow, Reserved
  <1>3. ASSUME NEW t \in Times, StoreCustody(p, t) PROVE Form(p)
    <2>1. ~IsTerminal(p)
      BY <1>3 DEF StoreCustody, PreDispatch, IsTerminal, State, Terminal
    <2> QED
      BY <1>3, <2>1 DEF StoreCustody, PreDispatch, Recorded
  <1>4. ASSUME NEW t \in Times, BeginQuote(p, t) PROVE Form(p)
    BY <1>4 DEF BeginQuote, PreDispatch, Recorded
  <1>5. ASSUME NEW t \in Times, RecordQuote(p, t) PROVE Form(p)
    <2>1. [at |-> t, state |-> "UNPAID"] \in QuoteObservation
      BY DEF QuoteObservation, QuoteStates
    <2> QED
      BY <1>5, <2>1 DEF RecordQuote, OutcomeWritable, PreDispatch, Recorded
  <1>6. ASSUME NEW o \in QuoteObservation, ObserveQuote(p, o) PROVE Form(p)
    <2>1. quotes[p] \cup {o} \in SUBSET QuoteObservation /\ quotes[p] \cup {o} # {}
      BY DEF TypeOK
    <2> QED
      BY <1>6, <2>1 DEF ObserveQuote, ObservationWritable, Recorded
  <1>7. ASSUME NEW s \in Snapshot(p), ObserveProofs(p, s) PROVE Form(p)
    BY <1>7 DEF ObserveProofs, ObservationWritable, Recorded
  <1>8. ASSUME NEW id \in EventIds, NEW now \in Times, StartEffect(p, id, now) PROVE Form(p)
    <2> DEFINE e == [id |-> id, state |-> "dispatch_started", evidence |-> "none",
                     recordedAt |-> now, evidenceAt |-> Never, proofsAt |-> Never]
    <2>1. e \in Event /\ e.state = "dispatch_started"
      BY DEF Event, InDispatch, When
    <2>2. Append1(p, e)
      BY <1>8 DEF StartEffect
    <2>3. quotes[p] # {}
      BY <1>8 DEF StartEffect, CanStartEffect, QuoteDispatchable
    <2>4. Started(p)
      BY <1>8, <2>1, <2>2, <2>3 DEF StartEffect, CanStartEffect, Started
    <2> QED
      BY <2>4
  <1>9. ASSUME NEW id \in EventIds, NEW now \in Times, ReleasePreDispatch(p, id, now)
        PROVE Form(p)
    <2> DEFINE e == [id |-> id, state |-> "released", evidence |-> "pre_dispatch",
                     recordedAt |-> now, evidenceAt |-> Never, proofsAt |-> Never]
    <2>1. e \in Event /\ e.state = "released"
      BY DEF Event, Terminal, When
    <2>2. Append1(p, e)
      BY <1>9 DEF ReleasePreDispatch
    <2>3. Released(p)
      BY <1>9, <2>1, <2>2 DEF ReleasePreDispatch, Released
    <2> QED
      BY <2>3
  <1>10. ASSUME NEW id \in EventIds, NEW at \in Times, NEW now \in Times,
                RecordPending(p, id, at, now)
         PROVE Form(p)
    <2>1. PendingEvent(id, at, now) \in Event /\ PendingEvent(id, at, now).state \in InDispatch
      BY DEF PendingEvent, Event, InDispatch, When
    <2> QED
      BY <1>10, <2>1 DEF RecordPending, Note, CanTransition, Dispatched, Noted
  <1>11. ASSUME NEW id \in EventIds, NEW why \in AttentionReasons, NEW at \in Times,
                NEW now \in Times, RequireAttention(p, id, why, at, now)
         PROVE Form(p)
    <2>1. /\ AttentionEvent(id, why, at, now) \in Event
          /\ AttentionEvent(id, why, at, now).state \in InDispatch
      BY DEF AttentionEvent, Event, InDispatch, When
    <2> QED
      BY <1>11, <2>1 DEF RequireAttention, Note, CanTransition, Dispatched, Noted
  <1>12. ASSUME NEW id \in EventIds, NEW at \in Times, NEW pat \in Times, NEW now \in Times,
                AcceptPayment(p, id, at, pat, now)
         PROVE Form(p)
    <2>1. /\ ConsumedEvent(id, at, pat, now) \in Event
          /\ ConsumedEvent(id, at, pat, now).state = "consumed"
      BY DEF ConsumedEvent, Event, Terminal, When
    <2>2. HasEffect(p) /\ State(p) \in InDispatch /\ Open(InvoiceOf[p])
      BY <1>12 DEF AcceptPayment, CanAccept, CanTransition, Dispatched, InWindow
    <2> QED
      BY <1>12, <2>1, <2>2 DEF AcceptPayment, Accepted
  <1>13. ASSUME NEW id \in EventIds, NEW at \in Times, NEW pat \in Times, NEW now \in Times,
                ReleaseAfterFailure(p, id, at, pat, now)
         PROVE Form(p)
    <2>1. /\ FailureEvent(id, at, pat, now) \in Event
          /\ FailureEvent(id, at, pat, now).state = "released"
      BY DEF FailureEvent, Event, Terminal, When
    <2>2. HasEffect(p) /\ State(p) \in InDispatch
      BY <1>13 DEF ReleaseAfterFailure, CanReleaseAfterFailure, CanTransition, Dispatched
    <2> QED
      BY <1>13, <2>1, <2>2 DEF ReleaseAfterFailure, Released
  <1> QED
    BY <1>1, <1>2, <1>3, <1>4, <1>5, <1>6, <1>7, <1>8, <1>9, <1>10, <1>11, <1>12, <1>13
    DEF Setup, Observe, Transition

-----------------------------------------------------------------------------
(* The inductive invariant                                                 *)

\* The empty database satisfies the inductive invariant.
LEMMA InitIInv == Init => IInv
  <1> SUFFICES ASSUME Init PROVE IInv
    OBVIOUS
  <1>1. TypeOK
    BY InitTypeOK
  <1>2. \A p \in Payments : ~Exists(p) /\ ~HasEffect(p) /\ State(p) = "reserved" /\ quotes[p] = {}
    BY DEF Init, Exists, HasEffect, State
  <1>3. \A p \in Payments : p # NoPayment
    BY ConstantsAssumption DEF ConstantsAssumption
  <1> QED
    BY <1>1, <1>2, <1>3
    DEF IInv, Init, ProofsClaimed, InvoiceClaimed, BookedOnce, RowsInOrder, Holds, IsTerminal,
        Terminal

\* Without a new event the state of a payment is what it was.
LEMMA SameState ==
  ASSUME events' = events
  PROVE  \A p \in Payments : State(p)' = State(p) /\ (IsTerminal(p)' <=> IsTerminal(p))
  BY DEF State, LastEvent, IsTerminal

\* Dispatch writes an event, the first quote asks for custody, and only a
\* terminal event removes custody.
LEMMA KeepsRowsInOrder ==
  ASSUME TypeOK, RowsInOrder, NEW p \in Payments, Form(p)
  PROVE  RowsInOrder'
  <1> USE DEF Exists, HasEffect
  <1>0. {reservedAt, custodyAt, startedAt} \subseteq [Payments -> When]
        /\ quotes \in [Payments -> SUBSET QuoteObservation]
        /\ Never \notin Times
    BY ConstantsAssumption DEF ConstantsAssumption, TypeOK, Never
  <1>1. CASE Recorded(p)
    BY <1>0, <1>1, SameState DEF Recorded, RowsInOrder
  <1>2. CASE Reserved(p)
    BY <1>0, <1>2, SameState DEF Reserved, RowsInOrder
  <1>3. CASE Started(p)
    <2>1. PICK t \in Times, e \in Event :
             startedAt' = [startedAt EXCEPT ![p] = t] /\ e.state = "dispatch_started" /\ Append1(p, e)
      BY <1>3 DEF Started
    <2> QED
      BY <1>0, <1>3, <2>1, AppendedState DEF Started, PreDispatch, RowsInOrder, IsTerminal, Terminal, State
  <1>4. CASE Noted(p)
    <2>1. PICK e \in Event : e.state \in InDispatch /\ Append1(p, e)
      BY <1>4 DEF Noted
    <2> QED
      BY <1>0, <1>4, <2>1, AppendedState DEF Noted, RowsInOrder, IsTerminal, Terminal, InDispatch
  <1>5. CASE Accepted(p)
    <2>1. PICK e \in Event : e.state = "consumed" /\ Append1(p, e)
      BY <1>5 DEF Accepted
    <2>2. /\ State(p)' = "consumed" /\ events'[p] # <<>>
          /\ \A q \in Payments \ {p} : events'[q] = events[q] /\ State(q)' = State(q)
      BY <2>1, AppendedState
    <2>3. custodyAt' = [custodyAt EXCEPT ![p] = Never] /\ UNCHANGED <<reservedAt, quotes, startedAt>>
      BY <1>5 DEF Accepted
    <2>4. Exists(p) /\ HasEffect(p)
      BY <1>5 DEF Accepted, RowsInOrder
    <2> QED
      BY <1>0, <2>2, <2>3, <2>4 DEF RowsInOrder, IsTerminal, Terminal
  <1>6. CASE Released(p)
    <2>1. PICK e \in Event : e.state = "released" /\ Append1(p, e)
      BY <1>6 DEF Released
    <2>2. /\ State(p)' = "released" /\ events'[p] # <<>>
          /\ \A q \in Payments \ {p} : events'[q] = events[q] /\ State(q)' = State(q)
      BY <2>1, AppendedState
    <2>3. custodyAt' = [custodyAt EXCEPT ![p] = Never] /\ UNCHANGED <<reservedAt, quotes, startedAt>>
      BY <1>6 DEF Released, DropClaims
    <2>4. Exists(p)
      BY <1>6 DEF Released, PreDispatch, RowsInOrder
    <2> QED
      BY <1>0, <2>2, <2>3, <2>4 DEF RowsInOrder, IsTerminal, Terminal
  <1> QED
    BY <1>1, <1>2, <1>3, <1>4, <1>5, <1>6 DEF Form

\* Reserving takes only free proofs, and only the released payment drops its
\* claims.
LEMMA KeepsProofsClaimed ==
  ASSUME TypeOK, RowsInOrder, ProofsClaimed, NEW p \in Payments, Form(p)
  PROVE  ProofsClaimed'
  <1>0. /\ reservedAt \in [Payments -> When] /\ proofClaim \in [Proofs -> Maybe]
        /\ Never \notin Times /\ NoPayment \notin Payments /\ ProofsOf[p] \subseteq Proofs
    BY ConstantsAssumption DEF ConstantsAssumption, TypeOK, Never
  <1> USE DEF Holds, Exists
  <1>1. CASE Recorded(p)
    BY <1>1, SameState DEF Recorded, ProofsClaimed
  <1>2. CASE Reserved(p)
    <2>1. PICK t \in Times : reservedAt' = [reservedAt EXCEPT ![p] = t]
      BY <1>2 DEF Reserved
    <2>2. State(p) = "reserved" /\ \A q \in Payments : State(q)' = State(q)
      BY <1>2, SameState DEF Reserved, RowsInOrder, State
    <2>3. \A f \in Proofs : proofClaim'[f] = IF f \in ProofsOf[p] THEN p ELSE proofClaim[f]
      BY <1>2 DEF Reserved
    <2>4. \A f \in ProofsOf[p] : proofClaim[f] = NoPayment
      BY <1>2 DEF Reserved, ProofsFree
    <2> QED
      BY <1>0, <2>1, <2>2, <2>3, <2>4 DEF ProofsClaimed
  <1>3. CASE Started(p)
    <2>1. PICK e \in Event : e.state = "dispatch_started" /\ Append1(p, e)
      BY <1>3 DEF Started
    <2>2. State(p) = "reserved"
      BY <1>3 DEF Started, PreDispatch, State
    <2> QED
      BY <1>3, <2>1, <2>2, AppendedState DEF Started, ProofsClaimed
  <1>4. CASE Noted(p)
    <2>1. PICK e \in Event : e.state \in InDispatch /\ Append1(p, e)
      BY <1>4 DEF Noted
    <2> QED
      BY <1>4, <2>1, AppendedState DEF Noted, ProofsClaimed, InDispatch
  <1>5. CASE Accepted(p)
    <2>1. PICK e \in Event : e.state = "consumed" /\ Append1(p, e)
      BY <1>5 DEF Accepted
    <2> QED
      BY <1>5, <2>1, AppendedState DEF Accepted, ProofsClaimed, InDispatch
  <1>6. CASE Released(p)
    <2>1. PICK e \in Event : e.state = "released" /\ Append1(p, e)
      BY <1>6 DEF Released
    <2>2. State(p)' = "released" /\ \A q \in Payments \ {p} : State(q)' = State(q)
      BY <2>1, AppendedState
    <2>3. \A f \in Proofs : proofClaim'[f] = IF proofClaim[f] = p THEN NoPayment ELSE proofClaim[f]
      BY <1>6 DEF Released, DropClaims
    <2> QED
      BY <1>0, <1>6, <2>2, <2>3 DEF Released, ProofsClaimed
  <1> QED
    BY <1>1, <1>2, <1>3, <1>4, <1>5, <1>6 DEF Form

\* Dispatch takes only a free invoice.
LEMMA KeepsInvoiceClaimed ==
  ASSUME TypeOK, RowsInOrder, InvoiceClaimed, NEW p \in Payments, Form(p)
  PROVE  InvoiceClaimed'
  <1>0. /\ startedAt \in [Payments -> When] /\ invoiceClaim \in [Invoices -> Maybe]
        /\ Never \notin Times /\ NoPayment \notin Payments /\ InvoiceOf[p] \in Invoices
    BY ConstantsAssumption DEF ConstantsAssumption, TypeOK, Never
  <1> USE DEF HasEffect
  <1>1. CASE Recorded(p) \/ Reserved(p)
    BY <1>1, SameState DEF Recorded, Reserved, InvoiceClaimed
  <1>2. CASE Started(p)
    <2>1. PICK t \in Times, e \in Event :
             startedAt' = [startedAt EXCEPT ![p] = t] /\ e.state = "dispatch_started" /\ Append1(p, e)
      BY <1>2 DEF Started
    <2>2. State(p)' = "dispatch_started" /\ \A q \in Payments \ {p} : State(q)' = State(q)
      BY <2>1, AppendedState
    <2>3. invoiceClaim[InvoiceOf[p]] = NoPayment /\ ~HasEffect(p)
          /\ invoiceClaim' = [invoiceClaim EXCEPT ![InvoiceOf[p]] = p]
      BY <1>2 DEF Started, InvoiceFree, PreDispatch
    <2> QED
      BY <1>0, <2>1, <2>2, <2>3 DEF InvoiceClaimed
  <1>3. CASE Noted(p)
    <2>1. PICK e \in Event : e.state \in InDispatch /\ Append1(p, e)
      BY <1>3 DEF Noted
    <2> QED
      BY <1>3, <2>1, AppendedState DEF Noted, InvoiceClaimed, InDispatch
  <1>4. CASE Accepted(p)
    <2>1. PICK e \in Event : e.state = "consumed" /\ Append1(p, e)
      BY <1>4 DEF Accepted
    <2> QED
      BY <1>4, <2>1, AppendedState DEF Accepted, InvoiceClaimed, InDispatch
  <1>5. CASE Released(p)
    <2>1. PICK e \in Event : e.state = "released" /\ Append1(p, e)
      BY <1>5 DEF Released
    <2>2. State(p)' = "released" /\ \A q \in Payments \ {p} : State(q)' = State(q)
      BY <2>1, AppendedState
    <2>3. \A i \in Invoices :
             invoiceClaim'[i] = IF invoiceClaim[i] = p THEN NoPayment ELSE invoiceClaim[i]
      BY <1>5 DEF Released, DropClaims
    <2> QED
      BY <1>0, <1>5, <2>2, <2>3 DEF Released, InvoiceClaimed
  <1> QED
    BY <1>1, <1>2, <1>3, <1>4, <1>5 DEF Form

\* Only an open invoice is booked, together with the consumed event.
LEMMA KeepsBookedOnce ==
  ASSUME TypeOK, BookedOnce, NEW p \in Payments, Form(p)
  PROVE  BookedOnce'
  <1>0. /\ paidAt \in [Invoices -> When] /\ journal \in [Invoices -> Maybe]
        /\ Never \notin Times /\ NoPayment \notin Payments /\ InvoiceOf[p] \in Invoices
    BY ConstantsAssumption DEF ConstantsAssumption, TypeOK, Never
  <1>1. CASE Recorded(p) \/ Reserved(p)
    BY <1>1, SameState DEF Recorded, Reserved, BookedOnce
  <1>2. CASE Started(p)
    <2>1. PICK e \in Event : e.state = "dispatch_started" /\ Append1(p, e)
      BY <1>2 DEF Started
    <2>2. State(p) = "reserved"
      BY <1>2 DEF Started, PreDispatch, State
    <2> QED
      BY <1>2, <2>1, <2>2, AppendedState DEF Started, BookedOnce
  <1>3. CASE Noted(p)
    <2>1. PICK e \in Event : e.state \in InDispatch /\ Append1(p, e)
      BY <1>3 DEF Noted
    <2> QED
      BY <1>3, <2>1, AppendedState DEF Noted, BookedOnce, InDispatch
  <1>4. CASE Accepted(p)
    <2>1. PICK e \in Event, t \in Times :
             /\ e.state = "consumed" /\ Append1(p, e)
             /\ paidAt' = [paidAt EXCEPT ![InvoiceOf[p]] = t]
      BY <1>4 DEF Accepted
    <2>2. State(p)' = "consumed" /\ \A q \in Payments \ {p} : State(q)' = State(q)
      BY <2>1, AppendedState
    <2>3. /\ paidAt[InvoiceOf[p]] = Never /\ State(p) # "consumed"
          /\ journal' = [journal EXCEPT ![InvoiceOf[p]] = p]
      BY <1>4 DEF Accepted, Open, InDispatch
    <2> QED
      BY <1>0, <2>1, <2>2, <2>3 DEF BookedOnce
  <1>5. CASE Released(p)
    <2>1. PICK e \in Event : e.state = "released" /\ Append1(p, e)
      BY <1>5 DEF Released
    <2>2. State(p)' = "released" /\ \A q \in Payments \ {p} : State(q)' = State(q)
      BY <2>1, AppendedState
    <2>3. State(p) # "consumed"
      BY <1>5 DEF Released, PreDispatch, State, InDispatch
    <2> QED
      BY <1>5, <2>2, <2>3 DEF Released, BookedOnce
  <1> QED
    BY <1>1, <1>2, <1>3, <1>4, <1>5 DEF Form

\* Every committed transaction keeps the inductive invariant: one lemma above
\* for each of its parts.
LEMMA NextIInv == IInv /\ [Next]_vars => IInv'
  <1> SUFFICES ASSUME IInv, [Next]_vars PROVE IInv'
    OBVIOUS
  <1>1. TypeOK'
    BY NextTypeOK DEF IInv
  <1>2. CASE UNCHANGED vars
    <2>1. UNCHANGED <<reservedAt, custodyAt, quotes, startedAt, events, proofClaim, invoiceClaim,
                      paidAt, journal>>
      BY <1>2 DEF vars, setupVars, evidenceVars, claimVars, ledgerVars
    <2> QED
      BY <1>1, <2>1, SameState
      DEF IInv, ProofsClaimed, InvoiceClaimed, BookedOnce, RowsInOrder, Holds, Exists, HasEffect
  <1>3. CASE Next
    <2>1. PICK p \in Payments : Form(p)
      BY <1>3, EveryStepHasAForm DEF IInv
    <2> QED
      BY <1>1, <2>1, KeepsRowsInOrder, KeepsProofsClaimed, KeepsInvoiceClaimed, KeepsBookedOnce
      DEF IInv
  <1> QED
    BY <1>2, <1>3

\* Claims, lifecycle, custody and ledger agree in every reachable record,
\* whatever the callers of the repositories do.
THEOREM Inductive == Spec => []IInv
  BY InitIInv, NextIInv, PTL DEF Spec

-----------------------------------------------------------------------------
(* What follows                                                            *)

\* No two payments hold one proof: each would have the proof's only claim.
THEOREM ProofsNotShared == Spec => []NoSharedProof
  <1>1. IInv => NoSharedProof
    <2> SUFFICES ASSUME IInv, NEW p \in Payments, NEW q \in Payments, p # q, Holds(p), Holds(q),
                        NEW f \in ProofsOf[p] \cap ProofsOf[q]
                 PROVE  FALSE
      BY DEF NoSharedProof
    <2>1. f \in Proofs
      BY ConstantsAssumption DEF ConstantsAssumption
    <2>2. proofClaim[f] = p /\ proofClaim[f] = q
      BY <2>1 DEF IInv, ProofsClaimed
    <2> QED
      BY <2>2
  <1> QED
    BY <1>1, Inductive, PTL

\* No invoice is melted for twice: both payments would have its only claim.
THEOREM InvoicesMeltedOnce == Spec => []OneMeltPerInvoice
  <1>1. IInv => OneMeltPerInvoice
    <2> SUFFICES ASSUME IInv, NEW p \in Payments, NEW q \in Payments, p # q,
                        InvoiceOf[p] = InvoiceOf[q], HasEffect(p), HasEffect(q),
                        State(p) # "released", State(q) # "released"
                 PROVE  FALSE
      BY DEF OneMeltPerInvoice
    <2>1. InvoiceOf[p] \in Invoices
      BY ConstantsAssumption DEF ConstantsAssumption
    <2>2. invoiceClaim[InvoiceOf[p]] = p /\ invoiceClaim[InvoiceOf[p]] = q
      BY <2>1 DEF IInv, InvoiceClaimed
    <2> QED
      BY <2>2
  <1> QED
    BY <1>1, Inductive, PTL

\* An invoice is paid once, for the one payment of it that was consumed.
THEOREM InvoicesBookedOnce == Spec => []BookedOnce
  <1>1. IInv => BookedOnce
    BY DEF IInv
  <1> QED
    BY <1>1, Inductive, PTL

\* Bearer custody lasts exactly until the payment is terminal.
THEOREM CustodyLasts == Spec => []CustodyUntilTerminal
  <1>1. IInv => CustodyUntilTerminal
    BY DEF IInv, RowsInOrder, CustodyUntilTerminal
  <1> QED
    BY <1>1, Inductive, PTL

-----------------------------------------------------------------------------
(* The record implements the escrow                                        *)

\* The empty database is an escrow in which nothing is held or credited.
LEMMA InitImplements == Init => Escrow!Init
  <1> SUFFICES ASSUME Init PROVE Escrow!Init
    OBVIOUS
  <1>1. \A p \in Payments : Phase(p) = "idle"
    BY DEF Init, Phase, Exists
  <1> QED
    BY <1>1 DEF Init, Escrow!Init

\* Every committed transaction is one step of the escrow or none: a reservation
\* holds, startEffect commits, acceptPayment spends, a release returns, and the
\* other transactions leave phase and credit alone.
LEMMA StepImplements ==
  ASSUME IInv, NEW p \in Payments, Form(p)
  PROVE  Escrow!Next \/ UNCHANGED <<[q \in Payments |-> Phase(q)], journal>>
  <1>0. /\ {reservedAt, startedAt} \subseteq [Payments -> When]
        /\ Never \notin Times /\ NoPayment \notin Payments
        /\ InvoiceOf \in [Payments -> Invoices]
        /\ journal \in [Invoices -> Maybe] /\ paidAt \in [Invoices -> When]
    BY ConstantsAssumption DEF ConstantsAssumption, IInv, TypeOK, Never
  <1>1. CASE Recorded(p)
    <2>1. \A q \in Payments : Phase(q)' = Phase(q)
      BY <1>1, SameState DEF Recorded, Phase, Exists, HasEffect
    <2> QED
      BY <1>1, <2>1 DEF Recorded
  <1>2. CASE Reserved(p)
    <2>1. PICK t \in Times : reservedAt' = [reservedAt EXCEPT ![p] = t]
      BY <1>2 DEF Reserved
    <2>2. Phase(p) = "idle" /\ Phase(p)' = "held"
      BY <1>0, <1>2, <2>1, SameState DEF Reserved, Phase, Exists, IInv, RowsInOrder, State, HasEffect
    <2>3. \A q \in Payments \ {p} : Phase(q)' = Phase(q)
      BY <1>0, <1>2, <2>1, SameState DEF Reserved, Phase, Exists, HasEffect
    <2>4. journal[InvoiceOf[p]] = NoPayment
      BY <1>0, <1>2 DEF Reserved, Open, IInv, BookedOnce
    <2>5. \A q \in Payments :
             Phase(q) \in {"held", "committed", "spent"} => ProofsOf[q] \cap ProofsOf[p] = {}
      <3> SUFFICES ASSUME NEW q \in Payments, Phase(q) \in {"held", "committed", "spent"},
                          NEW f \in ProofsOf[q] \cap ProofsOf[p]
                   PROVE  FALSE
        OBVIOUS
      <3>1. f \in Proofs
        BY ConstantsAssumption DEF ConstantsAssumption
      <3>2. Holds(q)
        BY DEF Phase, Holds
      <3>3. proofClaim[f] = q
        BY <3>1, <3>2 DEF IInv, ProofsClaimed
      <3> QED
        BY <1>0, <1>2, <3>3 DEF Reserved, ProofsFree
    <2> QED
      BY <1>2, <2>2, <2>3, <2>4, <2>5 DEF Reserved, Escrow!Next, Escrow!Hold, Escrow!Live
  <1>3. CASE Started(p)
    <2>1. PICK t \in Times, e \in Event :
             startedAt' = [startedAt EXCEPT ![p] = t] /\ e.state = "dispatch_started" /\ Append1(p, e)
      BY <1>3 DEF Started
    <2>2. State(p)' = "dispatch_started" /\ \A q \in Payments \ {p} : State(q)' = State(q)
      BY <2>1, AppendedState DEF IInv
    <2>3. State(p) = "reserved" /\ Exists(p) /\ ~HasEffect(p) /\ UNCHANGED <<reservedAt, journal>>
      BY <1>3 DEF Started, PreDispatch, State
    <2>4. Phase(p) = "held" /\ Phase(p)' = "committed"
      BY <1>0, <2>1, <2>2, <2>3 DEF Phase, Exists, HasEffect
    <2>5. \A q \in Payments \ {p} : Phase(q)' = Phase(q)
      BY <1>0, <2>1, <2>2, <2>3 DEF Phase, Exists, HasEffect
    <2>6. \A q \in Payments :
             InvoiceOf[q] = InvoiceOf[p] => Phase(q) \notin {"committed", "spent"}
      <3> SUFFICES ASSUME NEW q \in Payments, InvoiceOf[q] = InvoiceOf[p],
                          Phase(q) \in {"committed", "spent"}
                   PROVE  FALSE
        OBVIOUS
      <3>1. HasEffect(q) /\ State(q) # "released"
        BY DEF Phase, IInv, RowsInOrder
      <3>2. invoiceClaim[InvoiceOf[p]] = q
        BY <1>0, <3>1 DEF IInv, InvoiceClaimed
      <3> QED
        BY <1>0, <1>3, <3>2 DEF Started, InvoiceFree
    <2> QED
      BY <2>3, <2>4, <2>5, <2>6 DEF Escrow!Next, Escrow!Commit, Escrow!Committed
  <1>4. CASE Noted(p)
    <2>1. PICK e \in Event : e.state \in InDispatch /\ Append1(p, e)
      BY <1>4 DEF Noted
    <2>2. State(p)' \in InDispatch /\ \A q \in Payments \ {p} : State(q)' = State(q)
      BY <2>1, AppendedState DEF IInv
    <2>3. \A q \in Payments : Phase(q)' = Phase(q)
      BY <1>4, <2>2 DEF Noted, Phase, Exists, HasEffect, InDispatch
    <2> QED
      BY <1>4, <2>3 DEF Noted
  <1>5. CASE Accepted(p)
    <2>1. PICK e \in Event : e.state = "consumed" /\ Append1(p, e)
      BY <1>5 DEF Accepted
    <2>2. State(p)' = "consumed" /\ \A q \in Payments \ {p} : State(q)' = State(q)
      BY <2>1, AppendedState DEF IInv
    <2>3. Exists(p) /\ HasEffect(p) /\ State(p) \in InDispatch
      BY <1>5 DEF Accepted, IInv, RowsInOrder
    <2>4. Phase(p) = "committed" /\ Phase(p)' = "spent"
      BY <1>5, <2>2, <2>3 DEF Accepted, Phase, Exists, InDispatch
    <2>5. \A q \in Payments \ {p} : Phase(q)' = Phase(q)
      BY <1>5, <2>2 DEF Accepted, Phase, Exists, HasEffect
    <2>6. journal[InvoiceOf[p]] = NoPayment
      BY <1>0, <1>5 DEF Accepted, Open, IInv, BookedOnce
    <2>7. journal' = [journal EXCEPT ![InvoiceOf[p]] = p]
      BY <1>5 DEF Accepted
    <2> QED
      BY <2>4, <2>5, <2>6, <2>7 DEF Escrow!Next, Escrow!Spend
  <1>6. CASE Released(p)
    <2>1. PICK e \in Event : e.state = "released" /\ Append1(p, e)
      BY <1>6 DEF Released
    <2>2. State(p)' = "released" /\ \A q \in Payments \ {p} : State(q)' = State(q)
      BY <2>1, AppendedState DEF IInv
    <2>3. Exists(p) /\ State(p) \notin Terminal
      BY <1>6 DEF Released, PreDispatch, State, InDispatch, Terminal, IInv, RowsInOrder
    <2>4. Phase(p) \in {"held", "committed"} /\ Phase(p)' = "returned"
      BY <1>6, <2>2, <2>3 DEF Released, Phase, Exists, Terminal
    <2>5. \A q \in Payments \ {p} : Phase(q)' = Phase(q)
      BY <1>6, <2>2 DEF Released, Phase, Exists, HasEffect
    <2> QED
      BY <1>6, <2>4, <2>5 DEF Released, Escrow!Next, Escrow!Return
  <1> QED
    BY <1>1, <1>2, <1>3, <1>4, <1>5, <1>6 DEF Form

\* The record, its claims and its evidence rules implement the escrow: every
\* transaction is a step of PaymentEscrow or leaves phases and credit alone.
THEOREM RecordImplementsEscrow == Spec => ImplementsEscrow
  <1>1. IInv /\ [Next]_vars => [Escrow!Next]_(Escrow!vars)
    <2> SUFFICES ASSUME IInv, [Next]_vars
                 PROVE  Escrow!Next \/ UNCHANGED <<[q \in Payments |-> Phase(q)], journal>>
      BY DEF Escrow!vars
    <2>1. CASE UNCHANGED vars
      <3>1. UNCHANGED <<reservedAt, startedAt, events, journal>>
        BY <2>1 DEF vars, setupVars, ledgerVars
      <3> QED
        BY <3>1, SameState DEF Phase, Exists, HasEffect
    <2>2. CASE Next
      <3>1. PICK p \in Payments : Form(p)
        BY <2>2, EveryStepHasAForm DEF IInv
      <3> QED
        BY <3>1, StepImplements
    <2> QED
      BY <2>1, <2>2
  <1> QED
    BY <1>1, InitImplements, Inductive, PTL DEF Spec, ImplementsEscrow, Escrow!Spec

-----------------------------------------------------------------------------
(* The evidence of a terminal payment                                      *)

\* The rows that belong to one payment.
Rows(p) == <<reservedAt[p], custodyAt[p], quotes[p], snapshots[p], startedAt[p], events[p]>>

\* Observations in time order never take back PAID, nor SPENT of a proof.
QuotesAdvance(p) ==
    \A x, y \in quotes[p] : x.at <= y.at /\ x.state = "PAID" => y.state = "PAID"
SnapshotsAdvance(p) ==
    \A x, y \in snapshots[p], f \in ProofsOf[p] :
        x.at <= y.at /\ x.states[f] = "SPENT" => y.states[f] = "SPENT"

\* ReleaseIsProven and ConsumedIsProven for one payment.
ReleaseProven(p) ==
    HasEffect(p) /\ State(p) = "released" =>
        \E o \in quotes[p], s \in snapshots[p] :
            /\ IsLatest(o, quotes[p]) /\ o.state = "UNPAID" /\ Expired(p, o.at)
            /\ IsLatest(s, snapshots[p]) /\ Uniform(p, s, "UNSPENT") /\ o.at <= s.at
ConsumedProven(p) ==
    State(p) = "consumed" =>
        \E o \in quotes[p], s \in snapshots[p] :
            /\ o.state = "PAID" /\ Uniform(p, s, "SPENT") /\ o.at <= s.at
            /\ s.at < InvoiceExpiry[InvoiceOf[p]]
            /\ \A x \in quotes[p] : o.at <= x.at => x.state = "PAID"
            /\ \A x \in snapshots[p] : s.at <= x.at => Uniform(p, x, "SPENT")

EvidenceOf(p) ==
    QuotesAdvance(p) /\ SnapshotsAdvance(p) /\ ReleaseProven(p) /\ ConsumedProven(p)

\* The terminal transitions are justified when they are made, and no
\* observation is taken after them.
EInv == IInv /\ \A p \in Payments : EvidenceOf(p)

StepOf(p) == Setup(p) \/ Observe(p) \/ \E id \in EventIds : Transition(p, id)

\* Each transaction touches the rows of one payment, which is not terminal.
LEMMA OnlyOpenPaymentsMove ==
  ASSUME TypeOK, RowsInOrder, NEW p \in Payments, StepOf(p)
  PROVE  ~IsTerminal(p) /\ \A q \in Payments \ {p} : UNCHANGED Rows(q)
  <1> USE DEF TypeOK, Rows, evidenceVars, setupVars, claimVars, ledgerVars
  <1>0. /\ PreDispatch(p) => ~IsTerminal(p)
        /\ State(p) \in InDispatch => ~IsTerminal(p)
    BY DEF PreDispatch, IsTerminal, State, Terminal, InDispatch
  <1>1. CASE Setup(p)
    <2>1. ASSUME NEW t \in Times, Reserve(p, t)
          PROVE  ~IsTerminal(p) /\ \A q \in Payments \ {p} : UNCHANGED Rows(q)
      <3>1. events[p] = <<>>
        BY <2>1 DEF Reserve, RowsInOrder
      <3> QED
        BY <2>1, <3>1 DEF Reserve, IsTerminal, State, Terminal
    <2>2. ASSUME NEW t \in Times, StoreCustody(p, t) \/ BeginQuote(p, t) \/ RecordQuote(p, t)
          PROVE  ~IsTerminal(p) /\ \A q \in Payments \ {p} : UNCHANGED Rows(q)
      BY <1>0, <2>2 DEF StoreCustody, BeginQuote, RecordQuote, OutcomeWritable
    <2>3. CASE RecordAmbiguous(p)
      BY <1>0, <2>3 DEF RecordAmbiguous, OutcomeWritable
    <2> QED
      BY <1>1, <2>1, <2>2, <2>3 DEF Setup
  <1>2. CASE Observe(p)
    BY <1>2 DEF Observe, ObserveQuote, ObserveProofs, ObservationWritable
  <1>3. ASSUME NEW id \in EventIds, Transition(p, id)
        PROVE  ~IsTerminal(p) /\ \A q \in Payments \ {p} : UNCHANGED Rows(q)
    <2>1. ASSUME NEW now \in Times, StartEffect(p, id, now) \/ ReleasePreDispatch(p, id, now)
          PROVE  ~IsTerminal(p) /\ \A q \in Payments \ {p} : UNCHANGED Rows(q)
      BY <1>0, <2>1 DEF StartEffect, CanStartEffect, ReleasePreDispatch, DropClaims, Append1
    <2>2. ASSUME NEW e, Note(p, e)
          PROVE  ~IsTerminal(p) /\ \A q \in Payments \ {p} : UNCHANGED Rows(q)
      BY <1>0, <2>2 DEF Note, CanTransition, Dispatched, Append1
    <2>3. ASSUME NEW at \in Times, NEW pat \in Times, NEW now \in Times,
                 AcceptPayment(p, id, at, pat, now) \/ ReleaseAfterFailure(p, id, at, pat, now)
          PROVE  ~IsTerminal(p) /\ \A q \in Payments \ {p} : UNCHANGED Rows(q)
      BY <1>0, <2>3
      DEF AcceptPayment, CanAccept, ReleaseAfterFailure, CanReleaseAfterFailure, CanTransition,
          Dispatched, DropClaims, Append1
    <2> QED
      BY <1>3, <2>1, <2>2, <2>3 DEF Transition, RecordPending, RequireAttention
  <1> QED
    BY <1>1, <1>2, <1>3 DEF StepOf

\* The evidence of a payment is in its rows alone.
LEMMA EvidenceStays ==
  ASSUME NEW p \in Payments, EvidenceOf(p), UNCHANGED Rows(p)
  PROVE  EvidenceOf(p)'
  <1>1. /\ quotes'[p] = quotes[p] /\ snapshots'[p] = snapshots[p]
        /\ startedAt'[p] = startedAt[p] /\ events'[p] = events[p]
    BY DEF Rows
  <1>2. State(p)' = State(p) /\ HasEffect(p)' = HasEffect(p)
    BY <1>1 DEF State, LastEvent, HasEffect
  <1>3. QuotesAdvance(p)' /\ SnapshotsAdvance(p)'
    BY <1>1 DEF EvidenceOf, QuotesAdvance, SnapshotsAdvance
  <1>4. ReleaseProven(p)'
    BY <1>1, <1>2 DEF EvidenceOf, ReleaseProven, IsLatest, Uniform, Expired
  <1>5. ConsumedProven(p)'
    BY <1>1, <1>2 DEF EvidenceOf, ConsumedProven, Uniform
  <1> QED
    BY <1>3, <1>4, <1>5 DEF EvidenceOf

\* A quote observation is later than all others, and PAID stays PAID.
LEMMA QuoteKeepsEvidence ==
  ASSUME EInv, NEW p \in Payments, NEW o \in QuoteObservation, ObserveQuote(p, o)
  PROVE  EvidenceOf(p)'
  <1>1. /\ quotes'[p] = quotes[p] \cup {o} /\ UNCHANGED <<snapshots, startedAt, events>>
        /\ quotes[p] \subseteq QuoteObservation /\ ~IsTerminal(p)
    BY DEF ObserveQuote, ObservationWritable, EInv, IInv, TypeOK, setupVars
  <1>2. o.at \in Nat /\ \A x \in quotes[p] : x.at \in Nat
    BY <1>1, ConstantsAssumption DEF ConstantsAssumption, QuoteObservation
  <1>3. QuotesAdvance(p)'
    BY <1>1, <1>2 DEF EInv, EvidenceOf, QuotesAdvance, ObserveQuote, QuoteAdvances
  <1>4. SnapshotsAdvance(p)' /\ ~IsTerminal(p)'
    BY <1>1 DEF EInv, EvidenceOf, SnapshotsAdvance, IsTerminal, State, LastEvent
  <1> QED
    BY <1>3, <1>4 DEF EvidenceOf, ReleaseProven, ConsumedProven, IsTerminal, Terminal

\* A snapshot fits between those before and those after it.
LEMMA SnapshotKeepsEvidence ==
  ASSUME EInv, NEW p \in Payments, NEW s \in Snapshot(p), ObserveProofs(p, s)
  PROVE  EvidenceOf(p)'
  <1>1. /\ snapshots'[p] = snapshots[p] \cup {s} /\ UNCHANGED <<quotes, startedAt, events>>
        /\ snapshots[p] \subseteq Snapshot(p) /\ ~IsTerminal(p)
    BY DEF ObserveProofs, ObservationWritable, EInv, IInv, TypeOK, setupVars
  <1>2. s.at \in Nat /\ \A x \in snapshots[p] : x.at \in Nat
    BY <1>1, ConstantsAssumption DEF ConstantsAssumption, Snapshot
  <1>3. SnapshotsAdvance(p)'
    <2> SUFFICES ASSUME NEW x \in snapshots[p] \cup {s}, NEW y \in snapshots[p] \cup {s},
                        NEW f \in ProofsOf[p], x.at <= y.at, x.states[f] = "SPENT"
                 PROVE  y.states[f] = "SPENT"
      BY <1>1 DEF SnapshotsAdvance
    <2>1. CASE x \in snapshots[p] /\ y \in snapshots[p]
      BY <2>1 DEF EInv, EvidenceOf, SnapshotsAdvance
    <2>2. CASE x = s /\ y \in snapshots[p]
      BY <1>2, <2>2 DEF ObserveProofs, SnapshotFits
    <2>3. CASE x \in snapshots[p] /\ y = s
      BY <1>2, <2>3 DEF ObserveProofs, SnapshotFits
    <2> QED
      BY <2>1, <2>2, <2>3
  <1>4. QuotesAdvance(p)' /\ ~IsTerminal(p)'
    BY <1>1 DEF EInv, EvidenceOf, QuotesAdvance, IsTerminal, State, LastEvent
  <1> QED
    BY <1>3, <1>4 DEF EvidenceOf, ReleaseProven, ConsumedProven, IsTerminal, Terminal

\* acceptPayment asks for the evidence ConsumedIsProven speaks of, and what
\* comes after it in time can only agree.
LEMMA AcceptKeepsEvidence ==
  ASSUME EInv, NEW p \in Payments, NEW id \in EventIds, NEW at \in Times, NEW pat \in Times,
         NEW now \in Times, AcceptPayment(p, id, at, pat, now)
  PROVE  EvidenceOf(p)'
  <1>1. UNCHANGED <<quotes, snapshots, startedAt>> /\ CanAccept(p, id, at, pat, now)
    BY DEF AcceptPayment, evidenceVars
  <1>2. ConsumedEvent(id, at, pat, now) \in Event
    BY DEF ConsumedEvent, Event, Terminal, When
  <1>3. State(p)' = "consumed"
    BY <1>2, AppendedState DEF AcceptPayment, ConsumedEvent, EInv, IInv
  <1>4. QuotesAdvance(p)' /\ SnapshotsAdvance(p)'
    BY <1>1 DEF EInv, EvidenceOf, QuotesAdvance, SnapshotsAdvance
  <1>5. PICK o \in quotes[p], s \in snapshots[p] :
           o.at = at /\ o.state = "PAID" /\ s.at = pat /\ Uniform(p, s, "SPENT")
    BY <1>1 DEF CanAccept, PaymentProven
  <1>6. at <= pat /\ pat < InvoiceExpiry[InvoiceOf[p]]
    <2>1. pat # Never
      BY ConstantsAssumption DEF ConstantsAssumption, Never
    <2> QED
      BY <1>1, <2>1 DEF CanAccept, CanTransition, ConsumedEvent, InWindow
  <1>7. \A x \in quotes[p] : o.at <= x.at => x.state = "PAID"
    BY <1>5 DEF EInv, EvidenceOf, QuotesAdvance
  <1>8. \A x \in snapshots[p] : s.at <= x.at => Uniform(p, x, "SPENT")
    BY <1>5 DEF EInv, EvidenceOf, SnapshotsAdvance, Uniform
  <1>9. ConsumedProven(p)'
    BY <1>1, <1>5, <1>6, <1>7, <1>8 DEF ConsumedProven, Uniform
  <1> QED
    BY <1>3, <1>4, <1>9 DEF EvidenceOf, ReleaseProven

\* releaseAfterFailure asks for the latest pair of observations.
LEMMA FailureKeepsEvidence ==
  ASSUME EInv, NEW p \in Payments, NEW id \in EventIds, NEW at \in Times, NEW pat \in Times,
         NEW now \in Times, ReleaseAfterFailure(p, id, at, pat, now)
  PROVE  EvidenceOf(p)'
  <1>1. UNCHANGED <<quotes, snapshots, startedAt>> /\ CanReleaseAfterFailure(p, id, at, pat, now)
    BY DEF ReleaseAfterFailure, evidenceVars
  <1>2. FailureEvent(id, at, pat, now) \in Event
    BY DEF FailureEvent, Event, Terminal, When
  <1>3. State(p)' = "released"
    BY <1>2, AppendedState DEF ReleaseAfterFailure, FailureEvent, EInv, IInv
  <1>4. QuotesAdvance(p)' /\ SnapshotsAdvance(p)'
    BY <1>1 DEF EInv, EvidenceOf, QuotesAdvance, SnapshotsAdvance
  <1>5. PICK o \in quotes[p], s \in snapshots[p] :
           /\ o.at = at /\ o.state = "UNPAID" /\ IsLatest(o, quotes[p])
           /\ s.at = pat /\ Uniform(p, s, "UNSPENT") /\ IsLatest(s, snapshots[p])
    BY <1>1 DEF CanReleaseAfterFailure, FailureProven
  <1>6. at <= pat /\ Expired(p, at)
    <2>1. pat # Never
      BY ConstantsAssumption DEF ConstantsAssumption, Never
    <2> QED
      BY <1>1, <2>1 DEF CanReleaseAfterFailure, CanTransition, FailureEvent
  <1>7. ReleaseProven(p)'
    BY <1>1, <1>5, <1>6 DEF ReleaseProven, IsLatest, Uniform, Expired
  <1> QED
    BY <1>3, <1>4, <1>7 DEF EvidenceOf, ConsumedProven

\* Every transaction keeps the evidence of its payment in order.
LEMMA StepKeepsEvidence ==
  ASSUME EInv, NEW p \in Payments, StepOf(p)
  PROVE  EvidenceOf(p)'
  <1>0. ~IsTerminal(p) /\ TypeOK /\ QuotesAdvance(p) /\ SnapshotsAdvance(p)
    BY OnlyOpenPaymentsMove DEF EInv, IInv, EvidenceOf
  <1> USE DEF evidenceVars, setupVars, claimVars, ledgerVars
  <1>1. ASSUME UNCHANGED <<quotes, snapshots>>, ~IsTerminal(p)'
        PROVE  EvidenceOf(p)'
    <2>1. QuotesAdvance(p)' /\ SnapshotsAdvance(p)'
      BY <1>0, <1>1 DEF QuotesAdvance, SnapshotsAdvance
    <2> QED
      BY <1>1, <2>1 DEF EvidenceOf, ReleaseProven, ConsumedProven, IsTerminal, Terminal
  <1>2. events' = events => ~IsTerminal(p)'
    BY <1>0 DEF IsTerminal, State, LastEvent
  <1>3. ASSUME NEW t \in Times, RecordQuote(p, t) PROVE EvidenceOf(p)'
    <2>1. /\ quotes'[p] = {[at |-> t, state |-> "UNPAID"]} /\ UNCHANGED <<snapshots, events>>
      BY <1>0, <1>3 DEF RecordQuote, TypeOK
    <2>2. QuotesAdvance(p)' /\ SnapshotsAdvance(p)'
      BY <1>0, <2>1 DEF QuotesAdvance, SnapshotsAdvance
    <2> QED
      BY <1>2, <2>1, <2>2 DEF EvidenceOf, ReleaseProven, ConsumedProven, IsTerminal, Terminal
  <1>4. CASE \/ RecordAmbiguous(p)
             \/ \E t \in Times : Reserve(p, t) \/ StoreCustody(p, t) \/ BeginQuote(p, t)
    <2>1. UNCHANGED <<quotes, snapshots, events>>
      BY <1>4 DEF RecordAmbiguous, Reserve, StoreCustody, BeginQuote
    <2> QED
      BY <1>1, <1>2, <2>1
  <1>5. CASE Observe(p)
    BY <1>5, QuoteKeepsEvidence, SnapshotKeepsEvidence DEF Observe
  <1>6. ASSUME NEW id \in EventIds, NEW now \in Times, StartEffect(p, id, now)
        PROVE  EvidenceOf(p)'
    <2> DEFINE e == [id |-> id, state |-> "dispatch_started", evidence |-> "none",
                     recordedAt |-> now, evidenceAt |-> Never, proofsAt |-> Never]
    <2>1. e \in Event /\ e.state = "dispatch_started"
      BY DEF Event, InDispatch, When
    <2>2. Append1(p, e) /\ UNCHANGED <<quotes, snapshots>>
      BY <1>6 DEF StartEffect
    <2> HIDE DEF e
    <2>3. ~IsTerminal(p)'
      BY <1>0, <2>1, <2>2, AppendedState DEF IsTerminal, Terminal
    <2> QED
      BY <1>1, <2>2, <2>3
  <1>7. ASSUME NEW id \in EventIds, NEW now \in Times, ReleasePreDispatch(p, id, now)
        PROVE  EvidenceOf(p)'
    <2> DEFINE e == [id |-> id, state |-> "released", evidence |-> "pre_dispatch",
                     recordedAt |-> now, evidenceAt |-> Never, proofsAt |-> Never]
    <2>1. e \in Event /\ e.state = "released"
      BY DEF Event, Terminal, When
    <2>2. Append1(p, e) /\ UNCHANGED <<quotes, snapshots, startedAt>> /\ ~HasEffect(p)
      BY <1>7 DEF ReleasePreDispatch, PreDispatch
    <2> HIDE DEF e
    <2>3. State(p)' = "released" /\ ~HasEffect(p)'
      BY <1>0, <2>1, <2>2, AppendedState DEF HasEffect
    <2>4. QuotesAdvance(p)' /\ SnapshotsAdvance(p)'
      BY <1>0, <2>2 DEF QuotesAdvance, SnapshotsAdvance
    <2> QED
      BY <2>3, <2>4 DEF EvidenceOf, ReleaseProven, ConsumedProven
  <1>8. ASSUME NEW e \in Event, e.state \in InDispatch, Note(p, e)
        PROVE  EvidenceOf(p)'
    <2>1. Append1(p, e) /\ UNCHANGED <<quotes, snapshots>>
      BY <1>8 DEF Note
    <2>2. ~IsTerminal(p)'
      BY <1>0, <1>8, <2>1, AppendedState DEF IsTerminal, Terminal, InDispatch
    <2> QED
      BY <1>1, <2>1, <2>2
  <1>9. ASSUME NEW id \in EventIds, NEW at \in Times, NEW now \in Times,
               \/ RecordPending(p, id, at, now)
               \/ \E why \in AttentionReasons : RequireAttention(p, id, why, at, now)
        PROVE  EvidenceOf(p)'
    <2>1. /\ PendingEvent(id, at, now) \in Event /\ PendingEvent(id, at, now).state \in InDispatch
          /\ \A why \in AttentionReasons :
                /\ AttentionEvent(id, why, at, now) \in Event
                /\ AttentionEvent(id, why, at, now).state \in InDispatch
      BY DEF PendingEvent, AttentionEvent, Event, InDispatch, When
    <2> QED
      BY <1>8, <1>9, <2>1 DEF RecordPending, RequireAttention
  <1>10. ASSUME NEW id \in EventIds, NEW at \in Times, NEW pat \in Times, NEW now \in Times,
                AcceptPayment(p, id, at, pat, now) \/ ReleaseAfterFailure(p, id, at, pat, now)
         PROVE  EvidenceOf(p)'
    BY <1>10, AcceptKeepsEvidence, FailureKeepsEvidence
  <1> QED
    BY <1>3, <1>4, <1>5, <1>6, <1>7, <1>9, <1>10 DEF StepOf, Setup, Transition

\* The evidence of every payment, of the one that moves and of the others.
LEMMA NextEInv == EInv /\ [Next]_vars => EInv'
  <1> SUFFICES ASSUME EInv, [Next]_vars PROVE EInv'
    OBVIOUS
  <1>1. IInv'
    BY NextIInv DEF EInv
  <1>2. CASE UNCHANGED vars
    <2>1. \A p \in Payments : UNCHANGED Rows(p)
      BY <1>2 DEF vars, setupVars, evidenceVars, Rows
    <2> QED
      BY <1>1, <2>1, EvidenceStays DEF EInv
  <1>3. CASE Next
    <2>1. PICK p \in Payments : StepOf(p)
      BY <1>3 DEF Next, StepOf
    <2>2. \A q \in Payments \ {p} : EvidenceOf(q)'
      BY <2>1, OnlyOpenPaymentsMove, EvidenceStays DEF EInv, IInv
    <2> QED
      BY <1>1, <2>1, <2>2, StepKeepsEvidence DEF EInv
  <1> QED
    BY <1>2, <1>3

\* The record with its evidence.
LEMMA EvidenceInductive == Spec => []EInv
  <1>1. Init => EInv
    <2>1. Init => \A p \in Payments : EvidenceOf(p)
      BY DEF Init, EvidenceOf, QuotesAdvance, SnapshotsAdvance, ReleaseProven, ConsumedProven,
             State, HasEffect
    <2> QED
      BY <2>1, InitIInv DEF EInv
  <1> QED
    BY <1>1, NextEInv, PTL DEF Spec

\* ReleaseIsProven: after dispatch, a payment is released only on evidence that
\* nothing in its record contradicts.
THEOREM ReleasesAreProven == Spec => []ReleaseIsProven
  <1>1. EInv => ReleaseIsProven
    BY DEF EInv, EvidenceOf, ReleaseProven, ReleaseIsProven
  <1> QED
    BY <1>1, EvidenceInductive, PTL

\* ConsumedIsProven: a payment is consumed only when it is proven paid, in time,
\* and no observation takes that back.
THEOREM ConsumptionsAreProven == Spec => []ConsumedIsProven
  <1>1. EInv => ConsumedIsProven
    BY DEF EInv, EvidenceOf, ConsumedProven, ConsumedIsProven
  <1> QED
    BY <1>1, EvidenceInductive, PTL

\* TerminalIsFrozen: a terminal payment's rows are never touched again, and a
\* consumed one keeps its invoice, which no other payment can claim or book.
THEOREM TerminalStaysFrozen == Spec => TerminalIsFrozen
  <1> DEFINE Frozen ==
         \A p \in Payments : IsTerminal(p) =>
            /\ UNCHANGED <<events[p], quotes[p], snapshots[p], startedAt[p], custodyAt[p]>>
            /\ State(p) = "consumed" =>
                  UNCHANGED <<invoiceClaim[InvoiceOf[p]], paidAt[InvoiceOf[p]],
                              journal[InvoiceOf[p]]>>
  <1>1. IInv /\ [Next]_vars => [Frozen]_vars
    <2> SUFFICES ASSUME IInv, Next PROVE Frozen
      OBVIOUS
    <2>1. PICK q \in Payments : StepOf(q)
      BY DEF Next, StepOf
    <2>2. ~IsTerminal(q) /\ \A p \in Payments \ {q} : UNCHANGED Rows(p)
      BY <2>1, OnlyOpenPaymentsMove DEF IInv
    <2>3. PICK r \in Payments : Form(r)
      BY EveryStepHasAForm DEF IInv
    <2>4. ASSUME NEW p \in Payments, State(p) = "consumed"
          PROVE  UNCHANGED <<invoiceClaim[InvoiceOf[p]], paidAt[InvoiceOf[p]],
                             journal[InvoiceOf[p]]>>
      <3> DEFINE i == InvoiceOf[p]
      <3>1. /\ i \in Invoices /\ InvoiceOf[r] \in Invoices /\ NoPayment \notin Payments
            /\ invoiceClaim \in [Invoices -> Maybe]
            /\ paidAt \in [Invoices -> When] /\ journal \in [Invoices -> Maybe]
        BY ConstantsAssumption DEF ConstantsAssumption, IInv, TypeOK
      <3>2. /\ invoiceClaim[i] = p /\ journal[i] = p /\ paidAt[i] # Never
        BY <2>4, <3>1 DEF IInv, InvoiceClaimed, RowsInOrder, BookedOnce
      <3>3. CASE Recorded(r) \/ Reserved(r) \/ Noted(r)
        BY <3>3 DEF Recorded, Reserved, Noted
      <3>4. CASE Started(r)
        BY <3>1, <3>2, <3>4 DEF Started, InvoiceFree
      <3>5. CASE Accepted(r)
        BY <3>1, <3>2, <3>5 DEF Accepted, Open
      <3>6. CASE Released(r)
        <4>1. r # p
          BY <2>4, <3>6 DEF Released, PreDispatch, State, InDispatch
        <4> QED
          BY <3>1, <3>2, <3>6, <4>1 DEF Released, DropClaims
      <3> QED
        BY <2>3, <3>3, <3>4, <3>5, <3>6 DEF Form
    <2> QED
      BY <2>2, <2>4 DEF Rows
  <1> QED
    BY <1>1, Inductive, PTL DEF Spec, TerminalIsFrozen

=============================================================================
