------------------------- MODULE MeltPaymentProofs -------------------------
(***************************************************************************)
(* The safety of concurrent melt coordinators, for any number of           *)
(* dispatches, recoveries and payments, proofs and times, with the mint    *)
(* acting between any two of their steps.  What a coordinator has read and *)
(* not yet used is tied to what cannot change any more at the mint; the    *)
(* record itself is in order by MeltLifecycleProofs.                       *)
(***************************************************************************)
EXTENDS MeltPayment, MeltLifecycleProofs

Dispatching ==
    [pc : {"idle", "loaded", "authorized", "sending", "posted", "answered", "received",
           "pending", "attention"},
     p : Maybe, seen : QuoteStates \cup {"none"}, at : When, recordedAt : When]

StatesOfProofs == UNION {[ProofsOf[p] -> ProofStates] : p \in Payments}
SeenStates     == StatesOfProofs \cup {<<>>}
Recovering ==
    [pc : {"idle", "checking", "checked", "gotQuote", "observing", "observed", "gotProofs",
           "deciding", "attention"},
     p : Maybe, known : [at : When, state : QuoteStates \cup {"none"}],
     seen : QuoteStates \cup {"none"}, at : When,
     states : SeenStates,
     pat : When, recordedAt : When]

\* A dispatch has what its next step needs.
DispatchFits(l) ==
    l.pc # "done" =>
        /\ l \in Dispatching
        /\ l.pc # "idle" => l.p \in Payments
        /\ l.pc \in {"answered", "received", "pending"} => l.seen \in QuoteStates
        /\ l.pc \in {"received", "pending"} => l.at \in Times
        /\ l.pc = "pending" => l.recordedAt \in Times

\* Authorized, and its request not yet made.
Sender(d, p) == disp[d].pc \in {"authorized", "sending"} /\ disp[d].p = p

\* One request per effect: the authorization is used up by the request.
Requests(p) ==
    /\ posted[p] \in {0, 1} /\ wire[p] \in 0..posted[p]
    /\ posted[p] = 1 => HasEffect(p) /\ \A d \in Dispatchers : ~Sender(d, p)
    /\ \A d \in Dispatchers : Sender(d, p) => HasEffect(p)
    /\ \A d, e \in Dispatchers : Sender(d, p) /\ Sender(e, p) => d = e

\* The mint starts a melt on a request only, and holds quote and proofs
\* together.
MintFits(p) ==
    /\ mintQuote[p] \in QuoteStates /\ mintProofs[p] \in [ProofsOf[p] -> ProofStates]
    /\ mintQuote[p] # "UNPAID" => posted[p] = 1 /\ wire[p] = 0
    /\ \A f \in ProofsOf[p] :
          /\ mintProofs[p][f] = "UNSPENT" <=> mintQuote[p] = "UNPAID"
          /\ mintProofs[p][f] = "SPENT" => mintQuote[p] = "PAID"

\* A terminal payment: what it ended on is final at the mint.
Ended(p) ==
    /\ State(p) = "released" =>
          mintQuote[p] = "UNPAID" /\ (HasEffect(p) => QuoteExpiry[p] <= now)
    /\ State(p) = "consumed" =>
          mintQuote[p] = "PAID" /\ \A f \in ProofsOf[p] : mintProofs[p][f] = "SPENT"

AskedQuote  == {"checked", "gotQuote", "observing", "observed", "gotProofs", "deciding"}
HasQuote    == {"gotQuote", "observing", "observed", "gotProofs", "deciding"}
AskedProofs == {"observed", "gotProofs", "deciding"}
HasProofs   == {"gotProofs", "deciding"}

\* A recovery has what its next step needs, and what it saw that its decision
\* rests on is still so: PAID and SPENT are final, and so is a quote whose
\* proofs were free after its expiry.
RecoveryFits(l) ==
    l.pc # "done" =>
        /\ l \in Recovering
        /\ l.pc # "idle" => l.p \in Payments
        /\ l.pc \in AskedQuote =>
              l.seen \in QuoteStates /\ (l.seen = "PAID" => mintQuote[l.p] = "PAID")
        /\ l.pc \in HasQuote \cup {"attention"} => l.at \in Times
        /\ l.pc \in HasQuote => l.at <= now
        /\ l.pc \in AskedProofs =>
              /\ l.states \in [ProofsOf[l.p] -> ProofStates]
              /\ \A f \in ProofsOf[l.p] : l.states[f] = "SPENT" => mintProofs[l.p][f] = "SPENT"
              /\ Expired(l.p, l.at) /\ (\A f \in ProofsOf[l.p] : l.states[f] = "UNSPENT") =>
                    mintQuote[l.p] = "UNPAID"
        /\ l.pc \in HasProofs => l.pat \in Times

AllIInv ==
    /\ IInv /\ now \in Times
    /\ DOMAIN disp = Dispatchers /\ DOMAIN rec = Recoverers
    /\ DOMAIN posted = Payments /\ DOMAIN wire = Payments
    /\ DOMAIN mintQuote = Payments /\ DOMAIN mintProofs = Payments
    /\ \A d \in Dispatchers : DispatchFits(disp[d])
    /\ \A r \in Recoverers : RecoveryFits(rec[r])
    /\ \A p \in Payments : Requests(p) /\ MintFits(p) /\ Ended(p)

-----------------------------------------------------------------------------
(* The coordinators and the record                                         *)

\* The identifiers that the coordinators derive.
LEMMA DerivedIdentifiers ==
  ASSUME NEW p \in Payments,
         NEW k \in AttentionReasons \cup {"start", "pending", "accepted", "released", "abandoned"}
  PROVE  Id(p, k) \in EventIds /\ \A t \in When : IdAt(p, k, t) \in EventIds
  BY IdentifiersAssumption DEF IdentifiersAssumption, Identifiers, Id, IdAt, When

\* The events that the coordinators append.
LEMMA DerivedEvents ==
  ASSUME NEW id \in EventIds, NEW at \in Times, NEW t \in Times, NEW why \in AttentionReasons
  PROVE  /\ PendingEvent(id, at, t) \in Event /\ PendingEvent(id, at, t).state = "pending"
         /\ AttentionEvent(id, why, at, t) \in Event
         /\ AttentionEvent(id, why, at, t).state = "needs_attention"
  BY DEF PendingEvent, AttentionEvent, Event, InDispatch, When

\* The clock and the expiries are numbers, and no time is Never.
LEMMA TimesAreNumbers ==
  /\ Times \subseteq Nat /\ Times \subseteq When /\ Never \notin Times /\ 0 \in Times
  /\ MaxTime \in Nat /\ \A t \in 0..MaxTime : t \in Times
  /\ \A p \in Payments : QuoteExpiry[p] \in Nat /\ ProofsOf[p] # {} /\ ProofsOf[p] \subseteq Proofs
  BY ConstantsAssumption, ClockAssumption DEF ConstantsAssumption, ClockAssumption, When, Never

\* No effect is lost, and no payment comes to its end.
GoesOn ==
    \A q \in Payments :
        /\ HasEffect(q) => HasEffect(q)'
        /\ State(q)' \in Terminal => State(q)' = State(q) /\ (HasEffect(q)' => HasEffect(q))

\* Observations are not events.
LEMMA ObservingGoesOn ==
  ASSUME UNCHANGED <<startedAt, events>>
  PROVE  GoesOn
  BY DEF GoesOn, HasEffect, State, LastEvent

LEMMA NotingGoesOn ==
  ASSUME TypeOK, NEW p \in Payments, NEW e \in Event, e.state \in InDispatch, Note(p, e)
  PROVE  GoesOn
  <1>1. Append1(p, e) /\ UNCHANGED startedAt
    BY DEF Note
  <1>2. State(p)' = e.state /\ \A q \in Payments \ {p} : State(q)' = State(q)
    BY <1>1, AppendedState
  <1> QED
    BY <1>1, <1>2 DEF GoesOn, HasEffect, InDispatch, Terminal

LEMMA StartingGoesOn ==
  ASSUME TypeOK, NEW p \in Payments, NEW id \in EventIds, NEW t \in Times, StartEffect(p, id, t)
  PROVE  GoesOn /\ HasEffect(p)' /\ ~HasEffect(p)
  <1> DEFINE e == [id |-> id, state |-> "dispatch_started", evidence |-> "none",
                   recordedAt |-> t, evidenceAt |-> Never, proofsAt |-> Never]
  <1>1. e \in Event /\ e.state = "dispatch_started"
    BY DEF Event, InDispatch, When
  <1>2. Append1(p, e) /\ startedAt' = [startedAt EXCEPT ![p] = t] /\ ~HasEffect(p)
    BY DEF StartEffect, CanStartEffect, PreDispatch
  <1> HIDE DEF e
  <1>3. State(p)' = "dispatch_started" /\ \A q \in Payments \ {p} : State(q)' = State(q)
    BY <1>1, <1>2, AppendedState
  <1>4. startedAt'[p] # Never /\ \A q \in Payments \ {p} : startedAt'[q] = startedAt[q]
    BY <1>2, TimesAreNumbers DEF TypeOK
  <1> QED
    BY <1>2, <1>3, <1>4 DEF GoesOn, HasEffect, Terminal

\* A payment ends by one event; the effects stay as they are.
LEMMA EndingStep ==
  ASSUME TypeOK, NEW p \in Payments, NEW e \in Event, Append1(p, e), UNCHANGED startedAt
  PROVE  /\ State(p)' = e.state /\ \A q \in Payments \ {p} : State(q)' = State(q)
         /\ \A q \in Payments : HasEffect(q)' <=> HasEffect(q)
  BY AppendedState DEF HasEffect

\* A step that leaves the record alone or is a step of it keeps it in order.
LEMMA RecordKeeps ==
  ASSUME IInv, UNCHANGED dbVars \/ \E p \in Payments : StepOf(p)
  PROVE  IInv'
  BY NextIInv DEF dbVars, Next, StepOf

LEMMA UnchangedRecord ==
  ASSUME IInv, UNCHANGED dbVars
  PROVE  IInv' /\ GoesOn
  BY RecordKeeps, ObservingGoesOn DEF dbVars, vars

-----------------------------------------------------------------------------
(* The dispatches                                                          *)

\* A dispatch that is not authorized by this step, and sends nothing in it.
LEMMA DispatcherMovesOn ==
  ASSUME AllIInv, NEW d \in Dispatchers, NEW l, DispatchFits(l),
         DispStep(d, l), UNCHANGED mintVars, IInv', GoesOn,
         l.pc \in {"authorized", "sending"} => Sender(d, l.p)
  PROVE  AllIInv'
  <1>1. /\ disp' = [disp EXCEPT ![d] = l] /\ UNCHANGED <<now, rec>>
        /\ UNCHANGED <<posted, wire, mintQuote, mintProofs>>
    BY DEF DispStep, mintVars
  <1>2. \A e \in Dispatchers : disp'[e] = IF e = d THEN l ELSE disp[e]
    BY <1>1 DEF AllIInv
  <1>3. \A e \in Dispatchers, p \in Payments : Sender(e, p)' => Sender(e, p)
    BY <1>2 DEF Sender
  <1>4. \A e \in Dispatchers : DispatchFits(disp[e])'
    BY <1>2 DEF AllIInv, DispatchFits
  <1>5. \A r \in Recoverers : RecoveryFits(rec[r])'
    BY <1>1 DEF AllIInv, RecoveryFits
  <1>6. ASSUME NEW p \in Payments
        PROVE  Requests(p)' /\ MintFits(p)' /\ Ended(p)'
    <2>1. Requests(p)'
      BY <1>1, <1>3 DEF AllIInv, Requests, GoesOn
    <2>2. MintFits(p)'
      BY <1>1 DEF AllIInv, MintFits
    <2>3. Ended(p)'
      BY <1>1 DEF AllIInv, Ended, GoesOn, Terminal
    <2> QED
      BY <2>1, <2>2, <2>3
  <1>7. DOMAIN disp' = Dispatchers
    BY <1>1 DEF AllIInv
  <1> QED
    BY <1>1, <1>4, <1>5, <1>6, <1>7 DEF AllIInv

\* startEffect inserts the effect once: nothing was sent for it, and nobody
\* else is about to.
LEMMA AuthorizeKeeps ==
  ASSUME AllIInv, NEW d \in Dispatchers, Authorize(d)
  PROVE  AllIInv'
  <1> DEFINE l == disp[d]
             m == [l EXCEPT !.pc = "authorized"]
  <1>1. /\ l.pc = "loaded" /\ disp' = [disp EXCEPT ![d] = m]
        /\ UNCHANGED <<now, rec, posted, wire, mintQuote, mintProofs>>
    BY DEF Authorize, DispStep, mintVars
  <1>2. l \in Dispatching /\ l.p \in Payments /\ now \in Times
    BY <1>1 DEF AllIInv, DispatchFits
  <1>3. PICK q \in Payments : q = l.p
    BY <1>2
  <1>4. m \in Dispatching /\ m.pc = "authorized" /\ m.p = q
    BY <1>2, <1>3 DEF Dispatching
  <1>5. StartEffect(q, Id(q, "start"), now) /\ Id(q, "start") \in EventIds
    BY <1>3, DerivedIdentifiers DEF Authorize
  <1>6. GoesOn /\ HasEffect(q)' /\ ~HasEffect(q)
    BY <1>2, <1>5, StartingGoesOn DEF AllIInv, IInv
  <1>7. IInv'
    BY <1>2, <1>5, RecordKeeps DEF AllIInv, StepOf, Transition
  <1> HIDE DEF m
  <1>8. \A e \in Dispatchers : disp'[e] = IF e = d THEN m ELSE disp[e]
    BY <1>1 DEF AllIInv
  <1>9. \A e \in Dispatchers : DispatchFits(disp[e])'
    BY <1>3, <1>4, <1>8 DEF AllIInv, DispatchFits
  <1>10. \A x \in Recoverers : RecoveryFits(rec[x])'
    BY <1>1 DEF AllIInv, RecoveryFits
  <1>11. \A e \in Dispatchers, p \in Payments : Sender(e, p)' => Sender(e, p) \/ (e = d /\ p = q)
    BY <1>4, <1>8 DEF Sender
  <1>12. posted[q] = 0 /\ wire[q] = 0 /\ \A e \in Dispatchers : ~Sender(e, q)
    BY <1>6 DEF AllIInv, Requests
  <1>13. ASSUME NEW p \in Payments
         PROVE  Requests(p)' /\ MintFits(p)' /\ Ended(p)'
    <2>1. Requests(p)'
      <3>1. CASE p = q
        <4>1. posted'[p] = 0 /\ wire'[p] = 0
          BY <1>1, <1>12, <3>1
        <4>2. \A e \in Dispatchers : Sender(e, p)' => e = d
          BY <1>11, <1>12, <3>1
        <4> QED
          BY <1>6, <3>1, <4>1, <4>2 DEF Requests
      <3>2. CASE p # q
        BY <1>1, <1>6, <1>11, <3>2 DEF AllIInv, Requests, GoesOn
      <3> QED
        BY <3>1, <3>2
    <2>2. MintFits(p)'
      BY <1>1 DEF AllIInv, MintFits
    <2>3. Ended(p)'
      BY <1>1, <1>6 DEF AllIInv, Ended, GoesOn, Terminal
    <2> QED
      BY <2>1, <2>2, <2>3
  <1>14. DOMAIN disp' = Dispatchers
    BY <1>1 DEF AllIInv
  <1> QED
    BY <1>1, <1>7, <1>9, <1>10, <1>13, <1>14 DEF AllIInv

\* The request uses the authorization up.
LEMMA PostKeeps ==
  ASSUME AllIInv, NEW d \in Dispatchers, Post(d)
  PROVE  AllIInv'
  <1> DEFINE l == disp[d]
             m == [l EXCEPT !.pc = "posted"]
  <1>1. /\ l.pc = "sending" /\ disp' = [disp EXCEPT ![d] = m]
        /\ posted' = [posted EXCEPT ![l.p] = @ + 1] /\ wire' = [wire EXCEPT ![l.p] = @ + 1]
        /\ UNCHANGED <<now, rec, dbVars, mintQuote, mintProofs>>
    BY DEF Post, DispStep
  <1>2. l \in Dispatching /\ l.p \in Payments
    BY <1>1 DEF AllIInv, DispatchFits
  <1>3. m \in Dispatching /\ m.pc = "posted" /\ m.p = l.p
    BY <1>2 DEF Dispatching
  <1> HIDE DEF m
  <1>4. IInv' /\ GoesOn
    BY <1>1, UnchangedRecord DEF AllIInv
  <1>5. \A e \in Dispatchers : disp'[e] = IF e = d THEN m ELSE disp[e]
    BY <1>1 DEF AllIInv
  <1>6. \A e \in Dispatchers : DispatchFits(disp[e])'
    BY <1>2, <1>3, <1>5 DEF AllIInv, DispatchFits
  <1>7. \A r \in Recoverers : RecoveryFits(rec[r])'
    BY <1>1 DEF AllIInv, RecoveryFits
  <1>8. /\ \A e \in Dispatchers, p \in Payments : Sender(e, p)' => Sender(e, p) /\ e # d
        /\ Sender(d, l.p)
    BY <1>1, <1>3, <1>5 DEF Sender
  <1>9. /\ posted[l.p] = 0 /\ wire[l.p] = 0 /\ HasEffect(l.p)
        /\ \A e \in Dispatchers : Sender(e, l.p) => e = d
    BY <1>2, <1>8 DEF AllIInv, Requests
  <1>10. /\ posted'[l.p] = 1 /\ wire'[l.p] = 1
         /\ \A p \in Payments \ {l.p} : posted'[p] = posted[p] /\ wire'[p] = wire[p]
    BY <1>1, <1>2, <1>9 DEF AllIInv
  <1>11. ASSUME NEW p \in Payments
         PROVE  Requests(p)' /\ MintFits(p)' /\ Ended(p)'
    <2>1. Requests(p)'
      <3>1. CASE p = l.p
        BY <1>4, <1>8, <1>9, <1>10, <3>1 DEF Requests, GoesOn
      <3>2. CASE p # l.p
        BY <1>4, <1>8, <1>10, <3>2 DEF AllIInv, Requests, GoesOn
      <3> QED
        BY <3>1, <3>2
    <2>2. MintFits(p)'
      BY <1>1, <1>9, <1>10 DEF AllIInv, MintFits
    <2>3. Ended(p)'
      BY <1>1, <1>4 DEF AllIInv, Ended, GoesOn, Terminal
    <2> QED
      BY <2>1, <2>2, <2>3
  <1>12. DOMAIN disp' = Dispatchers /\ DOMAIN posted' = Payments /\ DOMAIN wire' = Payments
    BY <1>1 DEF AllIInv
  <1> QED
    BY <1>1, <1>4, <1>6, <1>7, <1>11, <1>12 DEF AllIInv

\* What an attention or a pending event does.
LEMMA NotesKeep ==
  ASSUME IInv, NEW p \in Payments, NEW id \in EventIds, NEW at \in Times, NEW t \in Times,
         \/ RecordPending(p, id, at, t)
         \/ \E why \in AttentionReasons : RequireAttention(p, id, why, at, t)
  PROVE  IInv' /\ GoesOn
  <1>1. StepOf(p)
    BY DEF StepOf, Transition
  <1>2. ASSUME RecordPending(p, id, at, t) PROVE GoesOn
    <2>1. PendingEvent(id, at, t) \in Event /\ PendingEvent(id, at, t).state = "pending"
      BY DEF PendingEvent, Event, InDispatch, When
    <2> QED
      BY <1>2, <2>1, NotingGoesOn DEF RecordPending, IInv, InDispatch
  <1>3. ASSUME NEW why \in AttentionReasons, RequireAttention(p, id, why, at, t) PROVE GoesOn
    BY <1>3, DerivedEvents, NotingGoesOn DEF RequireAttention, IInv, InDispatch
  <1> QED
    BY <1>1, <1>2, <1>3, RecordKeeps

\* What storing an observation of the quote does.
LEMMA QuoteObservationKeeps ==
  ASSUME IInv, NEW p \in Payments, NEW at \in Times, NEW state \in QuoteStates,
         ObserveQuote(p, [at |-> at, state |-> state])
  PROVE  IInv' /\ GoesOn
  <1>1. [at |-> at, state |-> state] \in QuoteObservation
    BY DEF QuoteObservation
  <1>2. IInv'
    BY <1>1, RecordKeeps DEF StepOf, Observe
  <1> QED
    BY <1>2, ObservingGoesOn DEF ObserveQuote

\* The steps of one dispatch.
LEMMA DispatchKeeps ==
  ASSUME AllIInv, NEW d \in Dispatchers, Dispatch(d)
  PROVE  AllIInv'
  <1> DEFINE l == disp[d]
  <1>0. IInv /\ now \in Times /\ DispatchFits(l) /\ DispatchFits(Done) /\ Done.pc = "done"
    BY DEF AllIInv, DispatchFits, Done
  <1>1. ASSUME NEW p \in Payments, DispatchLoad(d, p) PROVE AllIInv'
    <2> DEFINE m == [IdleDispatcher EXCEPT !.pc = "loaded", !.p = p]
    <2>1. DispatchFits(m) /\ m.pc = "loaded"
      BY DEF DispatchFits, Dispatching, IdleDispatcher, Maybe, When
    <2>2. DispStep(d, m) /\ UNCHANGED mintVars /\ IInv' /\ GoesOn
      BY <1>0, <1>1, UnchangedRecord DEF DispatchLoad
    <2> HIDE DEF m
    <2> QED
      BY <2>1, <2>2, DispatcherMovesOn
  <1>2. CASE Authorize(d)
    BY <1>2, AuthorizeKeeps
  <1>3. CASE Refused(d)
    BY <1>0, <1>3, UnchangedRecord, DispatcherMovesOn DEF Refused
  <1>4. CASE LastCheck(d)
    <2> DEFINE m == [l EXCEPT !.pc = "sending"]
    <2>1. l.pc = "authorized" /\ l \in Dispatching /\ l.p \in Payments
      BY <1>0, <1>4 DEF LastCheck, DispatchFits
    <2>2. m \in Dispatching /\ m.pc = "sending" /\ m.p = l.p
      BY <2>1 DEF Dispatching
    <2>3. DispStep(d, m) /\ UNCHANGED mintVars /\ IInv' /\ GoesOn
      BY <1>0, <1>4, UnchangedRecord DEF LastCheck
    <2> HIDE DEF m
    <2>4. DispatchFits(m) /\ Sender(d, m.p)
      BY <2>1, <2>2 DEF DispatchFits, Sender
    <2> QED
      BY <2>3, <2>4, DispatcherMovesOn
  <1>5. CASE Post(d)
    BY <1>5, PostKeeps
  <1>6. CASE Answer(d)
    <2> DEFINE m == [l EXCEPT !.pc = "answered", !.seen = mintQuote[l.p]]
    <2>1. l.pc = "posted" /\ l \in Dispatching /\ l.p \in Payments
      BY <1>0, <1>6 DEF Answer, DispatchFits
    <2>2. mintQuote[l.p] \in QuoteStates
      BY <2>1 DEF AllIInv, MintFits
    <2>3. m \in Dispatching /\ m.pc = "answered" /\ m.p = l.p /\ m.seen = mintQuote[l.p]
      BY <2>1, <2>2 DEF Dispatching
    <2>4. DispStep(d, m) /\ UNCHANGED mintVars /\ IInv' /\ GoesOn
      BY <1>0, <1>6, UnchangedRecord DEF Answer
    <2> HIDE DEF m
    <2>5. DispatchFits(m)
      BY <2>1, <2>2, <2>3 DEF DispatchFits
    <2> QED
      BY <2>3, <2>4, <2>5, DispatcherMovesOn
  <1>7. CASE Receive(d)
    <2> DEFINE m == [l EXCEPT !.pc = "received", !.at = now]
    <2>1. l.pc = "answered" /\ l \in Dispatching /\ l.p \in Payments /\ l.seen \in QuoteStates
      BY <1>0, <1>7 DEF Receive, DispatchFits
    <2>2. m \in Dispatching /\ m.pc = "received" /\ m.p = l.p /\ m.seen = l.seen /\ m.at = now
      BY <1>0, <2>1 DEF Dispatching, When
    <2>3. DispStep(d, m) /\ UNCHANGED mintVars /\ IInv' /\ GoesOn
      BY <1>0, <1>7, UnchangedRecord DEF Receive
    <2> HIDE DEF m
    <2>4. DispatchFits(m)
      BY <1>0, <2>1, <2>2 DEF DispatchFits
    <2> QED
      BY <2>2, <2>3, <2>4, DispatcherMovesOn
  <1>8. CASE PersistAnswer(d)
    <2> DEFINE m == IF l.seen = "PENDING"
                    THEN [l EXCEPT !.pc = "pending", !.recordedAt = now] ELSE Done
    <2>1. /\ l.pc = "received" /\ l \in Dispatching /\ l.p \in Payments
          /\ l.seen \in QuoteStates /\ l.at \in Times
      BY <1>0, <1>8 DEF PersistAnswer, DispatchFits
    <2>2. DispatchFits(m) /\ m.pc \in {"pending", "done"}
      <3> DEFINE k == [l EXCEPT !.pc = "pending", !.recordedAt = now]
      <3>1. /\ k \in Dispatching /\ k.pc = "pending" /\ k.p = l.p /\ k.seen = l.seen
            /\ k.at = l.at /\ k.recordedAt = now
        BY <1>0, <2>1 DEF Dispatching, When
      <3> HIDE DEF k
      <3>2. DispatchFits(k)
        BY <1>0, <2>1, <3>1 DEF DispatchFits
      <3> QED
        BY <1>0, <3>1, <3>2 DEF k
    <2>3. DispStep(d, m) /\ UNCHANGED mintVars /\ StoreQuote(l.p, [at |-> l.at, state |-> l.seen])
      BY <1>8 DEF PersistAnswer
    <2>4. IInv' /\ GoesOn
      BY <1>0, <2>1, <2>3, QuoteObservationKeeps, UnchangedRecord DEF StoreQuote
    <2> HIDE DEF m
    <2> QED
      BY <2>2, <2>3, <2>4, DispatcherMovesOn
  <1>9. CASE DispatchPending(d)
    <2>1. /\ l.pc = "pending" /\ l \in Dispatching /\ l.p \in Payments
          /\ l.at \in Times /\ l.recordedAt \in Times
      BY <1>0, <1>9 DEF DispatchPending, DispatchFits
    <2>2. Id(l.p, "pending") \in EventIds
      BY <2>1, DerivedIdentifiers
    <2>3. /\ RecordPending(l.p, Id(l.p, "pending"), l.at, l.recordedAt)
          /\ DispStep(d, Done) /\ UNCHANGED mintVars
      BY <1>9 DEF DispatchPending
    <2>4. IInv' /\ GoesOn
      BY <1>0, <2>1, <2>2, <2>3, NotesKeep
    <2> QED
      BY <1>0, <2>3, <2>4, DispatcherMovesOn
  <1>10. CASE DispatchFails(d)
    <2> DEFINE m == [IdleDispatcher EXCEPT !.pc = "attention", !.p = l.p]
    <2>1. l.p \in Payments
      BY <1>0, <1>10 DEF DispatchFails, DispatchFits
    <2>2. DispatchFits(m) /\ m.pc = "attention"
      BY <2>1 DEF DispatchFits, Dispatching, IdleDispatcher, Maybe, When
    <2>3. DispStep(d, m) /\ UNCHANGED mintVars /\ IInv' /\ GoesOn
      BY <1>0, <1>10, UnchangedRecord DEF DispatchFails
    <2> HIDE DEF m
    <2> QED
      BY <2>2, <2>3, DispatcherMovesOn
  <1>11. CASE DispatchAttention(d)
    <2>1. l.pc = "attention" /\ l.p \in Payments
      BY <1>0, <1>11 DEF DispatchAttention, DispatchFits
    <2>2. PICK why \in AttentionReasons : RequireAttention(l.p, Id(l.p, why), why, now, now)
      BY <1>11 DEF DispatchAttention
    <2>3. Id(l.p, why) \in EventIds
      BY <2>1, DerivedIdentifiers
    <2>4. IInv' /\ GoesOn
      BY <1>0, <2>1, <2>2, <2>3, NotesKeep
    <2> QED
      BY <1>0, <1>11, <2>4, DispatcherMovesOn DEF DispatchAttention
  <1> QED
    BY <1>1, <1>2, <1>3, <1>4, <1>5, <1>6, <1>7, <1>8, <1>9, <1>10, <1>11 DEF Dispatch

-----------------------------------------------------------------------------
(* The recoveries                                                          *)

\* A recovery writes to the record alone; the mint, the clock and the
\* dispatches do not see its step.
LEMMA RecovererMovesOn ==
  ASSUME AllIInv, NEW r \in Recoverers, NEW l, RecoveryFits(l), RecStep(r, l), IInv',
         \A p \in Payments : Ended(p)' /\ (HasEffect(p) => HasEffect(p)')
  PROVE  AllIInv'
  <1>1. /\ rec' = [rec EXCEPT ![r] = l] /\ UNCHANGED <<now, disp>>
        /\ UNCHANGED <<posted, wire, mintQuote, mintProofs>>
    BY DEF RecStep, mintVars
  <1>2. \A x \in Recoverers : rec'[x] = IF x = r THEN l ELSE rec[x]
    BY <1>1 DEF AllIInv
  <1>3. \A x \in Recoverers : RecoveryFits(rec[x])'
    BY <1>1, <1>2 DEF AllIInv, RecoveryFits
  <1>4. \A d \in Dispatchers : DispatchFits(disp[d])'
    BY <1>1 DEF AllIInv, DispatchFits
  <1>5. \A p \in Payments : Requests(p)' /\ MintFits(p)'
    BY <1>1 DEF AllIInv, Requests, MintFits, Sender
  <1>6. DOMAIN rec' = Recoverers
    BY <1>1 DEF AllIInv
  <1> QED
    BY <1>1, <1>3, <1>4, <1>5, <1>6 DEF AllIInv

\* A payment that goes on ends as it ended before.
LEMMA GoingOnIsEnough ==
  ASSUME AllIInv, GoesOn, UNCHANGED <<now, mintQuote, mintProofs>>
  PROVE  \A p \in Payments : Ended(p)' /\ (HasEffect(p) => HasEffect(p)')
  BY DEF AllIInv, Ended, GoesOn, Terminal

\* A recovery that only reads.
LEMMA ReaderMovesOn ==
  ASSUME AllIInv, NEW r \in Recoverers, NEW l, RecoveryFits(l), RecStep(r, l), UNCHANGED dbVars
  PROVE  AllIInv'
  BY UnchangedRecord, GoingOnIsEnough, RecovererMovesOn DEF AllIInv, RecStep, mintVars

\* A recovery that has read nothing.
LEMMA IdleIsTyped == IdleRecoverer \in Recovering
  <1>1. <<>> \in SeenStates
    BY DEF SeenStates
  <1>2. [at |-> Never, state |-> "none"] \in [at : When, state : QuoteStates \cup {"none"}]
    BY DEF When
  <1> QED
    BY <1>1, <1>2 DEF IdleRecoverer, Recovering, Maybe, When

\* A call that gives up its decision keeps its payment and a time.
LEMMA AttentionFits ==
  ASSUME AllIInv, NEW l, l \in Recovering, l.p \in Payments, NEW at \in Times, NEW t \in When
  PROVE  RecoveryFits(AttentionAt(l, at, t))
  <1> DEFINE m == AttentionAt(l, at, t)
  <1>1. m \in Recovering /\ m.pc = "attention" /\ m.p = l.p /\ m.at = at
    <2>1. at \in When /\ l.p \in Maybe
      BY DEF When, Maybe
    <2> QED
      BY <2>1, IdleIsTyped DEF AttentionAt, Recovering
  <1> HIDE DEF m
  <1>2. RecoveryFits(m)
    BY <1>1 DEF RecoveryFits, AskedQuote, HasQuote, AskedProofs, HasProofs
  <1> QED
    BY <1>2 DEF m

\* acceptPayment ends a payment that the mint has PAID with every proof SPENT.
LEMMA AcceptEnds ==
  ASSUME AllIInv, NEW p \in Payments, NEW id \in EventIds, NEW at \in Times, NEW pat \in Times,
         AcceptPayment(p, id, at, pat, now), UNCHANGED <<now, mintQuote, mintProofs>>,
         mintQuote[p] = "PAID", \A f \in ProofsOf[p] : mintProofs[p][f] = "SPENT"
  PROVE  IInv' /\ \A q \in Payments : Ended(q)' /\ (HasEffect(q) => HasEffect(q)')
  <1> DEFINE e == ConsumedEvent(id, at, pat, now)
  <1>1. e \in Event /\ e.state = "consumed"
    BY DEF AllIInv, ConsumedEvent, Event, Terminal, When
  <1>2. Append1(p, e) /\ UNCHANGED startedAt
    BY DEF AcceptPayment
  <1> HIDE DEF e
  <1>3. /\ State(p)' = "consumed" /\ \A q \in Payments \ {p} : State(q)' = State(q)
        /\ \A q \in Payments : HasEffect(q)' <=> HasEffect(q)
    BY <1>1, <1>2, EndingStep DEF AllIInv, IInv
  <1>4. \A q \in Payments : Ended(q)'
    BY <1>3 DEF AllIInv, Ended
  <1>5. IInv'
    BY RecordKeeps DEF AllIInv, StepOf, Transition
  <1> QED
    BY <1>3, <1>4, <1>5

\* releaseAfterFailure ends a payment whose quote is UNPAID after its expiry.
LEMMA ReleaseEnds ==
  ASSUME AllIInv, NEW p \in Payments, NEW id \in EventIds, NEW at \in Times, NEW pat \in Times,
         ReleaseAfterFailure(p, id, at, pat, now), UNCHANGED <<now, mintQuote, mintProofs>>,
         mintQuote[p] = "UNPAID", QuoteExpiry[p] <= now
  PROVE  IInv' /\ \A q \in Payments : Ended(q)' /\ (HasEffect(q) => HasEffect(q)')
  <1> DEFINE e == FailureEvent(id, at, pat, now)
  <1>1. e \in Event /\ e.state = "released"
    BY DEF AllIInv, FailureEvent, Event, Terminal, When
  <1>2. Append1(p, e) /\ UNCHANGED startedAt
    BY DEF ReleaseAfterFailure
  <1> HIDE DEF e
  <1>3. /\ State(p)' = "released" /\ \A q \in Payments \ {p} : State(q)' = State(q)
        /\ \A q \in Payments : HasEffect(q)' <=> HasEffect(q)
    BY <1>1, <1>2, EndingStep DEF AllIInv, IInv
  <1>4. \A q \in Payments : Ended(q)'
    BY <1>3 DEF AllIInv, Ended
  <1>5. IInv'
    BY RecordKeeps DEF AllIInv, StepOf, Transition
  <1> QED
    BY <1>3, <1>4, <1>5

\* The decision rests on what is final at the mint.
LEMMA DecideKeeps ==
  ASSUME AllIInv, NEW r \in Recoverers, Decide(r)
  PROVE  AllIInv'
  <1> DEFINE l == rec[r]
             p == l.p
  <1>1. l.pc = "deciding" /\ RecStep(r, Done) /\ UNCHANGED <<now, mintQuote, mintProofs>>
    BY DEF Decide, RecStep, mintVars
  <1>2. RecoveryFits(l) /\ now \in Times /\ IInv
    BY DEF AllIInv
  <1>3. /\ p \in Payments /\ l.at \in Times /\ l.at <= now /\ l.pat \in Times
        /\ l.seen = "PAID" => mintQuote[p] = "PAID"
        /\ \A f \in ProofsOf[p] : l.states[f] = "SPENT" => mintProofs[p][f] = "SPENT"
        /\ Expired(p, l.at) /\ (\A f \in ProofsOf[p] : l.states[f] = "UNSPENT") =>
              mintQuote[p] = "UNPAID"
    BY <1>1, <1>2 DEF RecoveryFits, AskedQuote, HasQuote, AskedProofs, HasProofs
  <1>4. RecoveryFits(Done)
    BY DEF RecoveryFits, Done
  <1>5. /\ Id(p, "accepted") \in EventIds /\ Id(p, "released") \in EventIds
        /\ IdAt(p, "pending", l.at) \in EventIds
    BY <1>3, DerivedIdentifiers, TimesAreNumbers
  <1>6. CASE Accepts(l) /\ AcceptPayment(p, Id(p, "accepted"), l.at, l.pat, now)
    <2>1. mintQuote[p] = "PAID" /\ \A f \in ProofsOf[p] : mintProofs[p][f] = "SPENT"
      BY <1>3, <1>6 DEF Accepts, Uniform, Seen
    <2> QED
      BY <1>1, <1>3, <1>4, <1>5, <1>6, <2>1, AcceptEnds, RecovererMovesOn
  <1>7. CASE Releases(l) /\ ReleaseAfterFailure(p, Id(p, "released"), l.at, l.pat, now)
    <2>1. mintQuote[p] = "UNPAID"
      BY <1>3, <1>7 DEF Releases, Uniform, Seen
    <2>2. QuoteExpiry[p] <= now
      BY <1>2, <1>3, <1>7, TimesAreNumbers DEF Releases, Expired
    <2> QED
      BY <1>1, <1>3, <1>4, <1>5, <1>7, <2>1, <2>2, ReleaseEnds, RecovererMovesOn
  <1>8. CASE RecordPending(p, IdAt(p, "pending", l.at), l.at, now)
    BY <1>1, <1>2, <1>3, <1>4, <1>5, <1>8, NotesKeep, GoingOnIsEnough, RecovererMovesOn
  <1>9. CASE UNCHANGED dbVars
    BY <1>1, <1>4, <1>9, ReaderMovesOn
  <1> QED
    BY <1>6, <1>7, <1>8, <1>9 DEF Decide

\* The steps of one recovery.
LEMMA RecoverKeeps ==
  ASSUME AllIInv, NEW r \in Recoverers, Recover(r)
  PROVE  AllIInv'
  <1> DEFINE l == rec[r]
  <1>0. RecoveryFits(l) /\ now \in Times /\ now \in When /\ IInv
    BY TimesAreNumbers DEF AllIInv
  <1> USE DEF AskedQuote, HasQuote, AskedProofs, HasProofs
  <1>1. ASSUME NEW p \in Payments, RecoverLoad(r, p) PROVE AllIInv'
    <2>1. PICK o \in quotes[p] :
             RecStep(r, [IdleRecoverer EXCEPT !.pc = "checking", !.p = p, !.known = o])
      BY <1>1 DEF RecoverLoad
    <2> DEFINE m == [IdleRecoverer EXCEPT !.pc = "checking", !.p = p, !.known = o]
    <2>2. o.at \in When /\ o.state \in QuoteStates /\ o = [at |-> o.at, state |-> o.state]
      BY <1>0, TimesAreNumbers DEF IInv, TypeOK, QuoteObservation
    <2>3. m \in Recovering /\ m.pc = "checking" /\ m.p = p
      <3>1. o \in [at : When, state : QuoteStates \cup {"none"}] /\ p \in Maybe
        BY <2>2 DEF Maybe
      <3> QED
        BY <3>1, IdleIsTyped DEF Recovering
    <2> HIDE DEF m
    <2>4. RecoveryFits(m)
      BY <2>3 DEF RecoveryFits
    <2> QED
      BY <1>1, <2>1, <2>4, ReaderMovesOn DEF RecoverLoad, m
  <1>2. CASE SampleQuote(r)
    <2> DEFINE m == [l EXCEPT !.pc = "checked", !.seen = mintQuote[l.p]]
    <2>1. l \in Recovering /\ l.p \in Payments
      BY <1>0, <1>2 DEF SampleQuote, RecoveryFits
    <2>2. mintQuote[l.p] \in QuoteStates
      BY <2>1 DEF AllIInv, MintFits
    <2>3. m \in Recovering /\ m.pc = "checked" /\ m.p = l.p /\ m.seen = mintQuote[l.p]
      BY <2>1, <2>2 DEF Recovering
    <2>4. RecStep(r, m) /\ UNCHANGED dbVars
      BY <1>2 DEF SampleQuote
    <2> HIDE DEF m
    <2>5. RecoveryFits(m)
      BY <2>1, <2>2, <2>3 DEF RecoveryFits
    <2> QED
      BY <2>4, <2>5, ReaderMovesOn
  <1>3. CASE ReceiveQuote(r)
    <2> DEFINE m == [l EXCEPT !.pc = "gotQuote", !.at = now]
    <2>1. /\ l \in Recovering /\ l.p \in Payments /\ l.seen \in QuoteStates
          /\ l.seen = "PAID" => mintQuote[l.p] = "PAID"
      BY <1>0, <1>3 DEF ReceiveQuote, RecoveryFits
    <2>2. m \in Recovering /\ m.pc = "gotQuote" /\ m.p = l.p /\ m.seen = l.seen /\ m.at = now
      BY <1>0, <2>1 DEF Recovering
    <2>3. (RecStep(r, m) \/ RecStep(r, AttentionAt(l, now, now))) /\ UNCHANGED dbVars
      BY <1>3 DEF ReceiveQuote
    <2> HIDE DEF m
    <2>4. RecoveryFits(m)
      BY <1>0, <2>1, <2>2, TimesAreNumbers DEF RecoveryFits
    <2>5. RecoveryFits(AttentionAt(l, now, now))
      BY <1>0, <2>1, AttentionFits
    <2> QED
      BY <2>3, <2>4, <2>5, ReaderMovesOn
  <1>4. CASE PersistQuote(r)
    <2> DEFINE m == [l EXCEPT !.pc = "observing"]
    <2>1. /\ l \in Recovering /\ l.p \in Payments /\ l.seen \in QuoteStates
          /\ l.seen = "PAID" => mintQuote[l.p] = "PAID"
          /\ l.at \in Times /\ l.at <= now
      BY <1>0, <1>4 DEF PersistQuote, RecoveryFits
    <2>2. m \in Recovering /\ m.pc = "observing" /\ m.p = l.p /\ m.seen = l.seen /\ m.at = l.at
      BY <2>1 DEF Recovering
    <2>3. /\ RecStep(r, m)
          /\ ObserveQuote(l.p, [at |-> l.at, state |-> l.seen]) \/ UNCHANGED dbVars
      BY <1>4 DEF PersistQuote
    <2>4. IInv' /\ GoesOn
      BY <1>0, <2>1, <2>3, QuoteObservationKeeps, UnchangedRecord
    <2> HIDE DEF m
    <2>5. RecoveryFits(m)
      BY <2>1, <2>2 DEF RecoveryFits
    <2> QED
      BY <2>3, <2>4, <2>5, GoingOnIsEnough, RecovererMovesOn DEF RecStep, mintVars
  <1>5. CASE SampleProofs(r)
    <2> DEFINE m == [l EXCEPT !.pc = "observed", !.states = mintProofs[l.p]]
    <2>1. /\ l \in Recovering /\ l.p \in Payments /\ l.seen \in QuoteStates
          /\ l.seen = "PAID" => mintQuote[l.p] = "PAID"
          /\ l.at \in Times /\ l.at <= now
      BY <1>0, <1>5 DEF SampleProofs, RecoveryFits
    <2>2. MintFits(l.p) /\ mintProofs[l.p] \in [ProofsOf[l.p] -> ProofStates]
      BY <2>1 DEF AllIInv, MintFits
    <2>3. /\ m \in Recovering /\ m.pc = "observed" /\ m.p = l.p /\ m.seen = l.seen
          /\ m.at = l.at /\ m.states = mintProofs[l.p]
      <3>1. mintProofs[l.p] \in SeenStates
        BY <2>1, <2>2 DEF SeenStates, StatesOfProofs
      <3> QED
        BY <2>1, <3>1 DEF Recovering
    <2>4. (\A f \in ProofsOf[l.p] : mintProofs[l.p][f] = "UNSPENT") => mintQuote[l.p] = "UNPAID"
      BY <2>1, <2>2, TimesAreNumbers DEF MintFits
    <2>5. RecStep(r, m) /\ UNCHANGED dbVars
      BY <1>5 DEF SampleProofs
    <2> HIDE DEF m
    <2>6. RecoveryFits(m)
      BY <2>1, <2>2, <2>3, <2>4 DEF RecoveryFits
    <2> QED
      BY <2>5, <2>6, ReaderMovesOn
  <1>6. CASE ReceiveProofs(r)
    <2> DEFINE m == [l EXCEPT !.pc = "gotProofs", !.pat = now]
    <2>1. l \in Recovering /\ l.p \in Payments /\ l.pc = "observed"
      BY <1>0, <1>6 DEF ReceiveProofs, RecoveryFits
    <2>2. /\ m \in Recovering /\ m.pc = "gotProofs" /\ m.p = l.p /\ m.seen = l.seen
          /\ m.at = l.at /\ m.states = l.states /\ m.pat = now
      BY <1>0, <2>1 DEF Recovering
    <2>3. RecStep(r, m) /\ UNCHANGED dbVars
      BY <1>6 DEF ReceiveProofs
    <2> HIDE DEF m
    <2>4. RecoveryFits(m)
      BY <1>0, <2>1, <2>2 DEF RecoveryFits
    <2> QED
      BY <2>3, <2>4, ReaderMovesOn
  <1>7. CASE PersistProofs(r)
    <2> DEFINE m == [l EXCEPT !.pc = "deciding"]
    <2>1. /\ l \in Recovering /\ l.p \in Payments /\ l.pc = "gotProofs"
          /\ l.pat \in Times /\ l.states \in [ProofsOf[l.p] -> ProofStates]
      BY <1>0, <1>7 DEF PersistProofs, RecoveryFits
    <2>2. /\ m \in Recovering /\ m.pc = "deciding" /\ m.p = l.p /\ m.seen = l.seen
          /\ m.at = l.at /\ m.states = l.states /\ m.pat = l.pat
      BY <2>1 DEF Recovering
    <2>3. RecStep(r, m) /\ (ObserveProofs(l.p, Seen(l)) \/ UNCHANGED dbVars)
      BY <1>7 DEF PersistProofs
    <2>4. Seen(l) \in Snapshot(l.p)
      BY <2>1 DEF Seen, Snapshot
    <2>5. IInv' /\ GoesOn
      <3>1. CASE ObserveProofs(l.p, Seen(l))
        BY <1>0, <2>1, <2>4, <3>1, RecordKeeps, ObservingGoesOn DEF StepOf, Observe, ObserveProofs
      <3> QED
        BY <1>0, <2>3, <3>1, UnchangedRecord
    <2> HIDE DEF m
    <2>6. RecoveryFits(m)
      BY <1>0, <2>1, <2>2 DEF RecoveryFits
    <2> QED
      BY <2>3, <2>5, <2>6, GoingOnIsEnough, RecovererMovesOn DEF RecStep, mintVars
  <1>8. CASE Decide(r)
    BY <1>8, DecideKeeps
  <1>9. CASE DecideFails(r)
    <2>1. l \in Recovering /\ l.p \in Payments /\ l.pat \in Times
      BY <1>0, <1>9 DEF DecideFails, RecoveryFits
    <2>2. RecoveryFits(AttentionAt(l, l.pat, now)) /\ RecoveryFits(Done)
      BY <1>0, <2>1, AttentionFits DEF RecoveryFits, Done
    <2> QED
      BY <1>9, <2>2, ReaderMovesOn DEF DecideFails
  <1>10. CASE RecoverFails(r)
    <2>1. l \in Recovering /\ l.p \in Payments
      BY <1>0, <1>10 DEF RecoverFails, RecoveryFits
    <2>2. PICK at \in Times : RecStep(r, AttentionAt(l, at, Never)) /\ UNCHANGED dbVars
      <3> DEFINE at == CASE l.pat # Never -> l.pat
                         [] l.pat = Never /\ l.at # Never -> l.at
                         [] OTHER -> now
      <3>1. l.pat \in When /\ l.at \in When
        BY <2>1 DEF Recovering
      <3>2. at \in Times
        BY <1>0, <3>1 DEF When
      <3> QED
        BY <1>10, <3>2 DEF RecoverFails
    <2>3. RecoveryFits(AttentionAt(l, at, Never))
      BY <2>1, AttentionFits DEF When
    <2> QED
      BY <2>2, <2>3, ReaderMovesOn
  <1>11. CASE RecoverAttention(r)
    <2> DEFINE t == IF l.recordedAt = Never THEN now ELSE l.recordedAt
    <2>1. l \in Recovering /\ l.p \in Payments /\ l.at \in Times
      BY <1>0, <1>11 DEF RecoverAttention, RecoveryFits
    <2>2. t \in Times
      BY <1>0, <2>1 DEF Recovering, When
    <2>3. PICK why \in AttentionReasons :
             RequireAttention(l.p, IdAt(l.p, why, l.at), why, l.at, t)
      BY <1>11 DEF RecoverAttention
    <2>4. IdAt(l.p, why, l.at) \in EventIds
      BY <2>1, DerivedIdentifiers, TimesAreNumbers
    <2> HIDE DEF t
    <2>5. IInv' /\ GoesOn
      BY <1>0, <2>1, <2>2, <2>3, <2>4, NotesKeep
    <2>6. RecoveryFits(Done) /\ RecStep(r, Done)
      BY <1>11 DEF RecoveryFits, Done, RecoverAttention
    <2> QED
      BY <2>5, <2>6, GoingOnIsEnough, RecovererMovesOn DEF RecStep, mintVars
  <1> QED
    BY <1>1, <1>2, <1>3, <1>4, <1>5, <1>6, <1>7, <1>8, <1>9, <1>10, <1>11 DEF Recover

-----------------------------------------------------------------------------
(* The mint, the clock and the callers that give up                        *)

\* What the mint does not take back.
MintFinal ==
    \A p \in Payments :
        /\ mintQuote[p] = "PAID" => mintQuote'[p] = "PAID"
        /\ mintQuote[p] = "UNPAID" /\ QuoteExpiry[p] <= now => mintQuote'[p] = "UNPAID"
        /\ \A f \in ProofsOf[p] : mintProofs[p][f] = "SPENT" => mintProofs'[p][f] = "SPENT"

\* What the coordinators hold survives a step in which nothing final changes.
LEMMA FinalIsEnough ==
  ASSUME AllIInv, MintFinal, UNCHANGED <<disp, rec>>, now' \in Nat, now <= now'
  PROVE  (\A d \in Dispatchers : DispatchFits(disp[d])') /\ \A r \in Recoverers : RecoveryFits(rec[r])'
  <1> SUFFICES ASSUME NEW r \in Recoverers PROVE RecoveryFits(rec[r])'
    BY DEF AllIInv, DispatchFits
  <1> DEFINE l == rec[r]
  <1> USE DEF AskedQuote, HasQuote, AskedProofs, HasProofs
  <1>1. RecoveryFits(l) /\ now \in Nat /\ l' = l
    BY TimesAreNumbers DEF AllIInv
  <1>2. CASE l.pc = "done"
    BY <1>1, <1>2 DEF RecoveryFits
  <1>3. CASE l.pc # "done"
    <2>1. l.pc \in AskedQuote =>
             /\ l.p \in Payments /\ l.seen \in QuoteStates
             /\ l.seen = "PAID" => mintQuote'[l.p] = "PAID"
      BY <1>1, <1>3 DEF RecoveryFits, MintFinal
    <2>2. l.pc \in HasQuote => l.at \in Times /\ l.at <= now /\ now <= now' /\ l.at \in Nat
      BY <1>1, <1>3, TimesAreNumbers DEF RecoveryFits
    <2>3. l.pc \in HasQuote => l.at <= now'
      <3> SUFFICES ASSUME l.pc \in HasQuote PROVE l.at <= now'
        OBVIOUS
      <3> QED
        BY <1>1, <2>2
    <2>4. ASSUME l.pc \in AskedProofs
          PROVE  /\ l.states \in [ProofsOf[l.p] -> ProofStates]
                 /\ \A f \in ProofsOf[l.p] : l.states[f] = "SPENT" => mintProofs'[l.p][f] = "SPENT"
                 /\ Expired(l.p, l.at) /\ (\A f \in ProofsOf[l.p] : l.states[f] = "UNSPENT") =>
                       mintQuote'[l.p] = "UNPAID"
      <3>1. /\ l.p \in Payments /\ l.at \in Nat /\ l.at <= now /\ QuoteExpiry[l.p] \in Nat
            /\ l.states \in [ProofsOf[l.p] -> ProofStates]
            /\ \A f \in ProofsOf[l.p] : l.states[f] = "SPENT" => mintProofs[l.p][f] = "SPENT"
            /\ Expired(l.p, l.at) /\ (\A f \in ProofsOf[l.p] : l.states[f] = "UNSPENT") =>
                  mintQuote[l.p] = "UNPAID"
        BY <1>1, <1>3, <2>2, <2>4, TimesAreNumbers DEF RecoveryFits
      <3> QED
        BY <1>1, <3>1 DEF MintFinal, Expired
    <2> QED
      BY <1>1, <1>3, <2>1, <2>3, <2>4 DEF RecoveryFits
  <1> QED
    BY <1>2, <1>3

LEMMA TickKeeps ==
  ASSUME AllIInv, Tick
  PROVE  AllIInv'
  <1>1. /\ now' = now + 1 /\ now < MaxTime
        /\ UNCHANGED <<dbVars, disp, rec, posted, wire, mintQuote, mintProofs>>
    BY DEF Tick, mintVars
  <1>2. now \in Nat /\ now' \in Times /\ now' \in Nat /\ now <= now'
    BY <1>1, ClockAssumption DEF ClockAssumption, AllIInv
  <1>3. IInv' /\ GoesOn
    BY <1>1, UnchangedRecord DEF AllIInv
  <1>4. MintFinal
    BY <1>1 DEF MintFinal
  <1>5. ASSUME NEW p \in Payments
        PROVE  Requests(p)' /\ MintFits(p)' /\ Ended(p)'
    <2>1. Requests(p)' /\ MintFits(p)'
      BY <1>1, <1>3 DEF AllIInv, Requests, MintFits, Sender, GoesOn
    <2>2. QuoteExpiry[p] \in Nat
      BY TimesAreNumbers
    <2>3. Ended(p)'
      BY <1>1, <1>2, <1>3, <2>2 DEF AllIInv, Ended, GoesOn, Terminal
    <2> QED
      BY <2>1, <2>3
  <1> QED
    BY <1>1, <1>2, <1>3, <1>4, <1>5, FinalIsEnough DEF AllIInv

\* A melt is started only for a request that is not too late, and no payment of
\* the record that ended on UNPAID has one; PAID and SPENT stay.
LEMMA MintKeeps ==
  ASSUME AllIInv, NEW p \in Payments, Mint(p)
  PROVE  AllIInv'
  <1>0. /\ Requests(p) /\ MintFits(p) /\ Ended(p)
        /\ DOMAIN mintQuote = Payments /\ DOMAIN mintProofs = Payments /\ DOMAIN wire = Payments
        /\ now \in Nat /\ QuoteExpiry[p] \in Nat
    BY TimesAreNumbers DEF AllIInv
  <1>1. UNCHANGED <<dbVars, now, disp, rec, posted>>
    BY DEF Mint, MintHandle, MintPay, MintFail, MintSpend
  <1>2. IInv' /\ GoesOn /\ \A q \in Payments : HasEffect(q)' <=> HasEffect(q)
    BY <1>1, UnchangedRecord DEF AllIInv, HasEffect, dbVars, vars
  <1>3. /\ DOMAIN mintQuote' = Payments /\ DOMAIN mintProofs' = Payments /\ DOMAIN wire' = Payments
        /\ \A q \in Payments \ {p} : /\ mintQuote'[q] = mintQuote[q]
                                     /\ mintProofs'[q] = mintProofs[q] /\ wire'[q] = wire[q]
    BY <1>0 DEF Mint, MintHandle, MintPay, MintFail, MintSpend
  <1>4. /\ wire'[p] \in 0..posted[p] /\ MintFits(p)'
        /\ mintQuote[p] = "PAID" => mintQuote'[p] = "PAID"
        /\ mintQuote[p] = "UNPAID" /\ mintQuote'[p] # "UNPAID" =>
              posted[p] = 1 /\ now < QuoteExpiry[p]
        /\ \A f \in ProofsOf[p] : mintProofs[p][f] = "SPENT" => mintProofs'[p][f] = "SPENT"
    <2> USE <1>0, <1>1 DEF Requests, MintFits, QuoteStates, ProofStates
    <2>1. CASE MintHandle(p)
      <3>1. posted[p] = 1 /\ wire[p] = 1 /\ wire'[p] = 0 /\ mintQuote[p] = "UNPAID"
        BY <2>1 DEF MintHandle
      <3>2. CASE now < QuoteExpiry[p]
        <4>1. /\ mintQuote'[p] = "PENDING"
              /\ mintProofs'[p] = [f \in ProofsOf[p] |-> "PENDING"]
          BY <2>1, <3>1, <3>2 DEF MintHandle
        <4> QED
          BY <3>1, <3>2, <4>1
      <3>3. CASE ~(now < QuoteExpiry[p])
        BY <2>1, <3>1, <3>3 DEF MintHandle
      <3> QED
        BY <3>2, <3>3
    <2>2. CASE MintPay(p)
      BY <2>2 DEF MintPay
    <2>3. CASE MintFail(p)
      <3>1. /\ mintQuote[p] = "PENDING" /\ mintQuote'[p] = "UNPAID" /\ wire' = wire
            /\ mintProofs'[p] = [f \in ProofsOf[p] |-> "UNSPENT"]
        BY <2>3 DEF MintFail
      <3> QED
        BY <3>1
    <2>4. ASSUME NEW f \in ProofsOf[p], MintSpend(p, f)
          PROVE  /\ wire'[p] \in 0..posted[p] /\ MintFits(p)'
                 /\ mintQuote[p] = "PAID" => mintQuote'[p] = "PAID"
                 /\ mintQuote[p] = "UNPAID" /\ mintQuote'[p] # "UNPAID" =>
                       posted[p] = 1 /\ now < QuoteExpiry[p]
                 /\ \A g \in ProofsOf[p] : mintProofs[p][g] = "SPENT" => mintProofs'[p][g] = "SPENT"
      <3>1. /\ mintQuote[p] = "PAID" /\ mintQuote' = mintQuote /\ wire' = wire
            /\ mintProofs'[p] = [mintProofs[p] EXCEPT ![f] = "SPENT"]
        BY <2>4 DEF MintSpend
      <3>2. mintProofs'[p] \in [ProofsOf[p] -> ProofStates]
        BY <3>1
      <3>3. \A g \in ProofsOf[p] : mintProofs'[p][g] = IF g = f THEN "SPENT" ELSE mintProofs[p][g]
        BY <3>1
      <3> QED
        BY <3>1, <3>2, <3>3
    <2> QED
      BY <2>1, <2>2, <2>3, <2>4 DEF Mint
  <1>5. MintFinal
    BY <1>0, <1>3, <1>4 DEF MintFinal
  <1>6. \A q \in Payments : Requests(q)'
    BY <1>1, <1>2, <1>3, <1>4 DEF AllIInv, Requests, Sender
  <1>7. \A q \in Payments : MintFits(q)'
    BY <1>1, <1>3, <1>4 DEF AllIInv, MintFits
  <1>8. \A q \in Payments : Ended(q)'
    <2>1. Ended(p)'
      <3>1. State(p) = "released" => mintQuote'[p] = "UNPAID"
        BY <1>0, <1>4 DEF Ended, Requests
      <3> QED
        BY <1>0, <1>1, <1>2, <1>4, <3>1 DEF Ended, GoesOn, Terminal
    <2>2. \A q \in Payments \ {p} : Ended(q)'
      BY <1>1, <1>2, <1>3 DEF AllIInv, Ended, GoesOn, Terminal
    <2> QED
      BY <2>1, <2>2
  <1> QED
    BY <1>0, <1>1, <1>2, <1>3, <1>5, <1>6, <1>7, <1>8, FinalIsEnough DEF AllIInv

\* A payment that is given up has no effect, so nothing was sent for it.
LEMMA AbandonKeeps ==
  ASSUME AllIInv, NEW p \in Payments, Abandon(p)
  PROVE  AllIInv'
  <1> DEFINE id == Id(p, "abandoned")
             e == [id |-> id, state |-> "released", evidence |-> "pre_dispatch",
                   recordedAt |-> now, evidenceAt |-> Never, proofsAt |-> Never]
  <1>1. /\ ReleasePreDispatch(p, id, now)
        /\ UNCHANGED <<now, disp, rec, posted, wire, mintQuote, mintProofs>>
    BY DEF Abandon, mintVars
  <1>2. id \in EventIds /\ now \in Times
    BY DerivedIdentifiers DEF AllIInv
  <1>3. IInv'
    BY <1>1, <1>2, RecordKeeps DEF AllIInv, StepOf, Transition
  <1>4. e \in Event /\ e.state = "released"
    BY <1>2 DEF Event, Terminal, When
  <1>5. Append1(p, e) /\ UNCHANGED startedAt /\ ~HasEffect(p)
    BY <1>1 DEF ReleasePreDispatch, PreDispatch
  <1> HIDE DEF e
  <1>6. /\ State(p)' = "released" /\ \A q \in Payments \ {p} : State(q)' = State(q)
        /\ \A q \in Payments : HasEffect(q)' <=> HasEffect(q)
    BY <1>4, <1>5, EndingStep DEF AllIInv, IInv
  <1>7. mintQuote[p] = "UNPAID"
    BY <1>5 DEF AllIInv, Requests, MintFits
  <1>8. \A q \in Payments : Requests(q)' /\ MintFits(q)' /\ Ended(q)'
    BY <1>1, <1>5, <1>6, <1>7 DEF AllIInv, Requests, MintFits, Ended, Sender
  <1>9. (\A d \in Dispatchers : DispatchFits(disp[d])') /\ \A r \in Recoverers : RecoveryFits(rec[r])'
    BY <1>1 DEF AllIInv, DispatchFits, RecoveryFits
  <1> QED
    BY <1>1, <1>3, <1>8, <1>9 DEF AllIInv

-----------------------------------------------------------------------------
(* The theorems                                                            *)

\* Reserved, in custody and quoted, every payment is in order.
LEMMA InitKeeps == InitAll => AllIInv
  <1> SUFFICES ASSUME InitAll PROVE AllIInv
    OBVIOUS
  <1>1. TypeOK
    <2>1. [at |-> 0, state |-> "UNPAID"] \in QuoteObservation
      BY TimesAreNumbers DEF QuoteObservation, QuoteStates
    <2>2. \A f \in Proofs : proofClaim[f] \in Maybe
      BY DEF InitAll, Prepared, Maybe
    <2> QED
      BY <2>1, <2>2, ConstantsAssumption, TimesAreNumbers
      DEF ConstantsAssumption, InitAll, Prepared, TypeOK, When, Maybe
  <1>2. \A p \in Payments :
           /\ State(p) = "reserved" /\ Exists(p) /\ ~HasEffect(p) /\ Holds(p) /\ ~IsTerminal(p)
           /\ quotes[p] # {} /\ custodyAt[p] # Never
    <2> SUFFICES ASSUME NEW p \in Payments
                 PROVE  /\ State(p) = "reserved" /\ Exists(p) /\ ~HasEffect(p) /\ Holds(p)
                        /\ ~IsTerminal(p) /\ quotes[p] # {} /\ custodyAt[p] # Never
      OBVIOUS
    <2>1. /\ reservedAt[p] = 0 /\ custodyAt[p] = 0 /\ startedAt[p] = Never /\ events[p] = <<>>
          /\ quotes[p] # {}
      BY DEF InitAll, Prepared
    <2>2. State(p) = "reserved"
      BY <2>1 DEF State
    <2> QED
      BY <2>1, <2>2 DEF Exists, HasEffect, Holds, IsTerminal, Terminal, Never
  <1>3. ProofsClaimed
    <2> SUFFICES ASSUME NEW p \in Payments, NEW f \in Proofs
                 PROVE  proofClaim[f] = p <=> f \in ProofsOf[p]
      BY <1>2 DEF ProofsClaimed
    <2>1. proofClaim[f] = IF \E q \in Payments : f \in ProofsOf[q]
                          THEN CHOOSE q \in Payments : f \in ProofsOf[q] ELSE NoPayment
      BY DEF InitAll, Prepared
    <2>2. \A q \in Payments : f \in ProofsOf[p] /\ f \in ProofsOf[q] => q = p
      BY ReservedAssumption DEF ReservedAssumption
    <2> QED
      BY <2>1, <2>2, ConstantsAssumption DEF ConstantsAssumption
  <1>4. InvoiceClaimed /\ BookedOnce
    BY <1>2, ConstantsAssumption
    DEF ConstantsAssumption, InitAll, Prepared, InvoiceClaimed, BookedOnce, Never
  <1>5. RowsInOrder
    BY <1>2 DEF RowsInOrder
  <1>6. \A d \in Dispatchers : DispatchFits(disp[d]) /\ disp[d].pc = "idle"
    BY DEF InitAll, DispatchFits, Dispatching, IdleDispatcher, Maybe, When
  <1>7. \A r \in Recoverers : RecoveryFits(rec[r])
    <2>1. IdleRecoverer.pc = "idle"
      BY DEF IdleRecoverer
    <2> QED
      BY <2>1, IdleIsTyped
      DEF InitAll, RecoveryFits, AskedQuote, HasQuote, AskedProofs, HasProofs
  <1>8. \A p \in Payments : Requests(p) /\ MintFits(p) /\ Ended(p)
    BY <1>2, <1>6 DEF InitAll, Requests, MintFits, Ended, Sender, QuoteStates, ProofStates
  <1> QED
    BY <1>1, <1>3, <1>4, <1>5, <1>6, <1>7, <1>8, TimesAreNumbers DEF InitAll, AllIInv, IInv

LEMMA NextKeeps == AllIInv /\ [NextAll]_allVars => AllIInv'
  <1> SUFFICES ASSUME AllIInv, [NextAll]_allVars PROVE AllIInv'
    OBVIOUS
  <1>1. CASE UNCHANGED allVars
    <2>1. UNCHANGED <<dbVars, now, disp, rec, posted, wire, mintQuote, mintProofs>>
      BY <1>1 DEF allVars, mintVars
    <2>2. IInv' /\ GoesOn
      BY <2>1, UnchangedRecord DEF AllIInv
    <2>3. \A p \in Payments : Requests(p)' /\ MintFits(p)' /\ Ended(p)'
      BY <2>1, <2>2 DEF AllIInv, Requests, MintFits, Ended, Sender, GoesOn, Terminal
    <2>4. (\A d \in Dispatchers : DispatchFits(disp[d])') /\ \A r \in Recoverers : RecoveryFits(rec[r])'
      BY <2>1 DEF AllIInv, DispatchFits, RecoveryFits
    <2> QED
      BY <2>1, <2>2, <2>3, <2>4 DEF AllIInv
  <1>2. CASE NextAll
    BY <1>2, TickKeeps, AbandonKeeps, MintKeeps, DispatchKeeps, RecoverKeeps DEF NextAll
  <1> QED
    BY <1>1, <1>2

\* The record, the coordinators and the mint agree in every reachable state.
THEOREM AllInductive == SpecAll => []AllIInv
  BY InitKeeps, NextKeeps, PTL DEF SpecAll

\* OneAuthorizedPost: a payment's proofs leave once, after its effect is stored.
THEOREM ProofsPostedOnce == SpecAll => []OneAuthorizedPost
  <1>1. AllIInv => OneAuthorizedPost
    BY DEF AllIInv, Requests, OneAuthorizedPost
  <1> QED
    BY <1>1, AllInductive, PTL

\* CreditIsReal: a consumed payment is PAID at the mint, its proofs SPENT.
THEOREM CreditsAreReal == SpecAll => []CreditIsReal
  <1>1. AllIInv => CreditIsReal
    BY DEF AllIInv, Ended, CreditIsReal
  <1> QED
    BY <1>1, AllInductive, PTL

\* ReleaseIsSafe: a released payment was not melted and will not be.
THEOREM ReleasesAreSafe == SpecAll => []ReleaseIsSafe
  <1>1. AllIInv => ReleaseIsSafe
    <2> SUFFICES ASSUME AllIInv, NEW p \in Payments, State(p) = "released"
                 PROVE  /\ mintQuote[p] = "UNPAID"
                        /\ \A f \in ProofsOf[p] : mintProofs[p][f] = "UNSPENT"
                        /\ wire[p] > 0 \/ (\E d \in Dispatchers : SendsFor(d, p)) =>
                              QuoteExpiry[p] <= now
      BY DEF ReleaseIsSafe
    <2>1. mintQuote[p] = "UNPAID" /\ (HasEffect(p) => QuoteExpiry[p] <= now)
      BY DEF AllIInv, Ended
    <2>2. wire[p] > 0 \/ (\E d \in Dispatchers : SendsFor(d, p)) => HasEffect(p)
      BY DEF AllIInv, Requests, SendsFor, Sender
    <2> QED
      BY <2>1, <2>2 DEF AllIInv, MintFits
  <1> QED
    BY <1>1, AllInductive, PTL

\* PaidKeepsClaims: while the mint pays or has paid, the payment keeps its
\* claims on its invoice and on its proofs.
THEOREM ClaimsOutlivePayment == SpecAll => []PaidKeepsClaims
  <1>1. AllIInv => PaidKeepsClaims
    <2> SUFFICES ASSUME AllIInv, NEW p \in Payments, mintQuote[p] \in {"PENDING", "PAID"}
                 PROVE  /\ invoiceClaim[InvoiceOf[p]] = p
                        /\ \A f \in ProofsOf[p] : proofClaim[f] = p
      BY DEF PaidKeepsClaims
    <2>1. HasEffect(p) /\ State(p) # "released"
      BY DEF AllIInv, Requests, MintFits, Ended
    <2>2. Holds(p) /\ InvoiceOf[p] \in Invoices
      BY <2>1, ConstantsAssumption DEF ConstantsAssumption, AllIInv, IInv, RowsInOrder, Holds
    <2> QED
      BY <2>1, <2>2, TimesAreNumbers DEF AllIInv, IInv, InvoiceClaimed, ProofsClaimed
  <1> QED
    BY <1>1, AllInductive, PTL

\* NoSendAfterEnd: the last check before a request is passed only while the
\* payment is in dispatch; an ended payment is expired, or was sent before.
THEOREM NothingSentAfterEnd == SpecAll => NoSendAfterEnd
  <1> DEFINE InTime == \A d \in Dispatchers, p \in Payments :
                          SendsFor(d, p)' /\ ~SendsFor(d, p) => State(p) \in InDispatch
  <1>1. AllIInv /\ [NextAll]_allVars => [InTime]_allVars
    <2> SUFFICES ASSUME AllIInv, NextAll, NEW d \in Dispatchers, NEW p \in Payments,
                        SendsFor(d, p)', ~SendsFor(d, p)
                 PROVE  State(p) \in InDispatch
      OBVIOUS
    <2>1. LastCheck(d) /\ disp[d].p = p
      <3>1. DOMAIN disp = Dispatchers /\ disp'[d].pc = "sending" /\ disp'[d].p = p
        BY DEF SendsFor, AllIInv
      <3>2. PICK e \in Dispatchers : Dispatch(e)
        BY <3>1
        DEF NextAll, Tick, Abandon, Mint, MintHandle, MintPay, MintFail, MintSpend, Recover,
            RecoverLoad, SampleQuote, ReceiveQuote, PersistQuote, SampleProofs, ReceiveProofs,
            PersistProofs, Decide, DecideFails, RecoverFails, RecoverAttention, RecStep, SendsFor
      <3>3. PICK m : disp' = [disp EXCEPT ![e] = m]
        BY <3>2
        DEF Dispatch, DispStep, DispatchLoad, Authorize, Refused, LastCheck, Post, Answer, Receive,
            PersistAnswer, DispatchPending, DispatchFails, DispatchAttention
      <3>4. e = d
        BY <3>1, <3>3 DEF SendsFor
      <3>5. DispatchFits(disp[d])
        BY DEF AllIInv
      <3>6. LastCheck(d)
        <4>1. disp[d].pc # "done" => disp[d] \in Dispatching
          BY <3>5 DEF DispatchFits
        <4>2. ASSUME NEW k, DispStep(d, k) PROVE k.pc = "sending"
          BY <3>1, <4>2 DEF DispStep
        <4>3. ASSUME NEW k, k.pc # "sending" PROVE ~DispStep(d, k)
          BY <4>2, <4>3
        <4>4. ~DispStep(d, Done)
          <5>1. Done.pc # "sending"
            BY DEF Done
          <5> QED
            BY <4>3, <5>1
        <4>5. ASSUME NEW q, NEW c \in {"loaded", "attention"}
              PROVE  ~DispStep(d, [IdleDispatcher EXCEPT !.pc = c, !.p = q])
          <5>1. [IdleDispatcher EXCEPT !.pc = c, !.p = q].pc = c
            BY DEF IdleDispatcher
          <5> QED
            BY <4>3, <5>1
        <4>6. ~(\E q \in Payments : DispatchLoad(d, q)) /\ ~DispatchFails(d)
          BY <4>5 DEF DispatchLoad, DispatchFails
        <4>7. ~Refused(d) /\ ~DispatchPending(d) /\ ~DispatchAttention(d)
          BY <4>4 DEF Refused, DispatchPending, DispatchAttention
        <4>8. ASSUME disp[d].pc # "done", NEW c, c # "sending"
              PROVE  ~DispStep(d, [disp[d] EXCEPT !.pc = c])
          <5>1. [disp[d] EXCEPT !.pc = c].pc = c
            BY <4>1, <4>8 DEF Dispatching
          <5> QED
            BY <4>3, <4>8, <5>1
        <4>9. ~Authorize(d) /\ ~Post(d)
          BY <4>8 DEF Authorize, Post
        <4>10. ASSUME disp[d].pc # "done", NEW c, c # "sending", NEW v
               PROVE  /\ ~DispStep(d, [disp[d] EXCEPT !.pc = c, !.seen = v])
                      /\ ~DispStep(d, [disp[d] EXCEPT !.pc = c, !.at = v])
                      /\ ~DispStep(d, [disp[d] EXCEPT !.pc = c, !.recordedAt = v])
          <5>1. /\ [disp[d] EXCEPT !.pc = c, !.seen = v].pc = c
                /\ [disp[d] EXCEPT !.pc = c, !.at = v].pc = c
                /\ [disp[d] EXCEPT !.pc = c, !.recordedAt = v].pc = c
            BY <4>1, <4>10 DEF Dispatching
          <5> QED
            BY <4>3, <4>10, <5>1
        <4>11. ~Answer(d) /\ ~Receive(d)
          BY <4>10 DEF Answer, Receive
        <4>12. ~PersistAnswer(d)
          BY <4>4, <4>10 DEF PersistAnswer
        <4> QED
          BY <3>2, <3>4, <4>6, <4>7, <4>9, <4>11, <4>12 DEF Dispatch
      <3> QED
        BY <3>1, <3>5, <3>6 DEF LastCheck, DispStep, DispatchFits, Dispatching
    <2>2. Sender(d, p) /\ ~Expired(p, now)
      BY <2>1 DEF LastCheck, StillOffered, Sender
    <2>3. HasEffect(p) /\ posted[p] # 1
      BY <2>2 DEF AllIInv, Requests
    <2>4. State(p) \notin Terminal
      BY <2>2, <2>3 DEF AllIInv, Ended, MintFits, Terminal, Expired
    <2>5. events[p] # <<>> /\ events[p] \in Seq(Event)
      BY <2>3 DEF AllIInv, IInv, RowsInOrder, TypeOK
    <2>6. LastEvent(p) \in Event
      BY <2>5 DEF LastEvent
    <2> QED
      BY <2>4, <2>5, <2>6 DEF State, Event
  <1> QED
    BY <1>1, AllInductive, PTL DEF SpecAll, NoSendAfterEnd

=============================================================================
