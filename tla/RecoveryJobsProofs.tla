------------------------- MODULE RecoveryJobsProofs -------------------------
(***************************************************************************)
(* Proofs about RecoveryJobs for any number of payments, workers, attempts *)
(* and any delays.  Clocks only enter through one fact: a lease that was   *)
(* followed by another one was finished by its owner or had expired.       *)
(***************************************************************************)
EXTENDS RecoveryJobs, FiniteSetTheorems, TLAPS

Seconds == Nat \cup {Never}
Leases  == [attempt : Nat, claimedAt : Seconds, expiresAt : Seconds]
Locals  == [pc : {"idle", "claiming", "recovering", "ended", "recording"},
            p : Payments \cup {NoPayment}, attempt : Nat,
            claimedAt : Seconds, expiresAt : Seconds,
            result : Results, recordedAt : Seconds]

\* As much typing as the proofs about leases need.
Typed ==
    /\ now \in Nat
    /\ lease \in [Payments -> Leases]
    /\ DOMAIN outcome = Payments
    /\ contacts \in [Payments -> Nat]
    /\ worker \in [Workers -> Locals]
    /\ \A w \in Workers :
          /\ worker[w].pc \in {"recovering", "ended", "recording"} => worker[w].p \in Payments
          /\ worker[w].pc = "claiming" => worker[w].claimedAt \in 0..now

\* The bookkeeping leases beyond MaxAttempts contact nobody.
ContactsCounted ==
    \A p \in Payments :
        contacts[p] = IF lease[p].attempt <= MaxAttempts THEN lease[p].attempt ELSE MaxAttempts

\* The owner of the latest lease knows it as it is stored, and it is unfinished.
OwnerHolds ==
    \A w \in Workers, p \in Payments :
        Owns(w, p) /\ worker[w].attempt = lease[p].attempt =>
            outcome[p].kind = "none" /\ worker[w].expiresAt = lease[p].expiresAt

\* The owner of an earlier lease is too late already.
OthersExpired ==
    \A w \in Workers, p \in Payments :
        Owns(w, p) =>
            /\ 1 <= worker[w].attempt /\ worker[w].attempt <= lease[p].attempt
            /\ worker[w].attempt < lease[p].attempt => worker[w].expiresAt <= now

\* Two workers never own the same lease: claimNext gives each attempt number to
\* one worker.
OneOwner ==
    \A v, w \in Workers, p \in Payments :
        Owns(v, p) /\ Owns(w, p) /\ worker[v].attempt = worker[w].attempt => v = w

Inv == Typed /\ ContactsCounted /\ OwnerHolds /\ OthersExpired /\ OneOwner

\* Freshly dispatched payments and idle workers satisfy the invariant.
LEMMA InitInv == Init => Inv
  BY PolicyAssumption
  DEF PolicyAssumption, Init, Idle, NoOutcome, Never, Leases, Locals, Seconds, Results, Inv, Typed,
      ContactsCounted, OwnerHolds, OthersExpired, OneOwner, Owns

\* A new lease follows only an expired one or one whose owner is gone.
LEMMA ClaimKeepsInv ==
  ASSUME Inv, NEW w \in Workers, NEW p \in Payments, Claim(w, p)
  PROVE  Inv'
  <1> DEFINE l == worker[w]
             n == lease[p].attempt + 1
             k == worker'[w]
  <1>0. MaxAttempts \in Nat
    BY PolicyAssumption DEF PolicyAssumption
  <1>1. l \in Locals /\ l.pc = "claiming" /\ l.claimedAt \in 0..now /\ n \in Nat /\ n >= 1
    BY DEF Claim, Inv, Typed, Leases
  <1>2. /\ lease' = [lease EXCEPT ![p] = [attempt |-> n, claimedAt |-> l.claimedAt,
                                          expiresAt |-> l.expiresAt]]
        /\ outcome' = [outcome EXCEPT ![p] = NoOutcome]
        /\ now' = now
    BY DEF Claim
  <1>3. /\ worker' \in [Workers -> Locals]
        /\ \A v \in Workers \ {w} : worker'[v] = worker[v]
        /\ k.pc \in {"recovering", "ended"} /\ k.p = p /\ k.attempt = n
        /\ k.expiresAt = l.expiresAt
    <2>1. worker' = [worker EXCEPT ![w] =
                        IF Observes(n)
                        THEN [l EXCEPT !.pc = "recovering", !.p = p, !.attempt = n]
                        ELSE [l EXCEPT !.pc = "ended", !.p = p, !.attempt = n,
                                       !.result = "exhausted"]]
      BY DEF Claim
    <2> QED
      BY <1>1, <2>1 DEF Inv, Typed, Locals, Results
  <1>4. Typed'
    <2>1. lease' \in [Payments -> Leases]
      BY <1>1, <1>2 DEF Inv, Typed, Leases, Locals
    <2>2. contacts' \in [Payments -> Nat]
      BY DEF Claim, Inv, Typed
    <2> QED
      BY <1>2, <1>3, <2>1, <2>2 DEF Inv, Typed
  <1>5. ContactsCounted'
    BY <1>0, <1>1, <1>2 DEF Claim, Inv, Typed, Leases, ContactsCounted, Observes
  \* An owner of the lease that is superseded finds it expired.
  <1>6. ASSUME NEW v \in Workers, Owns(v, p) PROVE worker[v].expiresAt <= now
    <2>1. CASE worker[v].attempt = lease[p].attempt
      <3>1. outcome[p].kind = "none" /\ worker[v].expiresAt = lease[p].expiresAt
        BY <1>6, <2>1 DEF Inv, OwnerHolds
      <3>2. lease[p].attempt # 0
        BY <1>6, <2>1 DEF Inv, OthersExpired
      <3>3. lease[p].expiresAt <= l.claimedAt
        BY <3>1, <3>2 DEF Claim, Eligible, DueAt
      <3> QED
        BY <1>1, <3>1, <3>3 DEF Inv, Typed, Leases, Seconds, Never
    <2>2. CASE worker[v].attempt # lease[p].attempt
      <3>1. worker[v].attempt \in Nat /\ lease[p].attempt \in Nat
        BY DEF Inv, Typed, Leases, Locals
      <3>2. /\ worker[v].attempt <= lease[p].attempt
            /\ worker[v].attempt < lease[p].attempt => worker[v].expiresAt <= now
        BY <1>6 DEF Inv, OthersExpired
      <3> QED
        BY <2>2, <3>1, <3>2
    <2> QED
      BY <2>1, <2>2
  <1>7. ASSUME NEW v \in Workers, NEW q \in Payments, Owns(v, q)'
        PROVE  (v = w /\ q = p) \/ (v # w /\ Owns(v, q))
    BY <1>3, <1>7 DEF Owns
  <1>8. OwnerHolds'
    BY <1>1, <1>2, <1>3, <1>7 DEF Inv, Typed, Leases, Locals, OwnerHolds, OthersExpired, NoOutcome
  <1>9. OthersExpired'
    BY <1>1, <1>2, <1>3, <1>6, <1>7 DEF Inv, Typed, Leases, Locals, OthersExpired
  <1>10. OneOwner'
    BY <1>1, <1>2, <1>3, <1>7 DEF Inv, Typed, Leases, Locals, OthersExpired, OneOwner
  <1> QED
    BY <1>4, <1>5, <1>8, <1>9, <1>10 DEF Inv

\* A worker that takes any other step keeps its lease or gives it up.
LEMMA OtherStepsKeepInv ==
  ASSUME Inv, NEW w \in Workers, NEW k \in Locals,
         worker' = [worker EXCEPT ![w] = k],
         UNCHANGED <<now, lease, contacts>>,
         k.pc = "claiming" => k.claimedAt \in 0..now,
         k.pc \in {"recovering", "ended", "recording"} =>
            /\ worker[w].pc \in {"recovering", "ended", "recording"}
            /\ k.p = worker[w].p /\ k.attempt = worker[w].attempt
            /\ k.expiresAt = worker[w].expiresAt,
         \/ UNCHANGED outcome
         \/ /\ CurrentLease(worker[w]) /\ worker[w].pc = "recording" /\ k.pc = "idle"
            /\ \E o : outcome' = [outcome EXCEPT ![worker[w].p] = o]
  PROVE  Inv'
  <1>1. /\ worker' \in [Workers -> Locals] /\ worker'[w] = k
        /\ \A v \in Workers \ {w} : worker'[v] = worker[v]
    BY DEF Inv, Typed
  <1>2. Typed'
    BY <1>1 DEF Inv, Typed
  <1>3. ContactsCounted'
    BY DEF Inv, ContactsCounted
  <1>4. ASSUME NEW v \in Workers, NEW q \in Payments, Owns(v, q)'
        PROVE  /\ Owns(v, q) /\ worker'[v].attempt = worker[v].attempt
               /\ worker'[v].expiresAt = worker[v].expiresAt
    BY <1>1, <1>4 DEF Owns
  <1>5. OwnerHolds'
    <2> SUFFICES ASSUME NEW v \in Workers, NEW q \in Payments, Owns(v, q)',
                        worker'[v].attempt = lease[q].attempt
                 PROVE  outcome'[q].kind = "none" /\ worker'[v].expiresAt = lease[q].expiresAt
      BY DEF OwnerHolds
    <2>1. outcome[q].kind = "none" /\ worker'[v].expiresAt = lease[q].expiresAt
      BY <1>4 DEF Inv, OwnerHolds
    <2>2. outcome'[q] = outcome[q]
      <3>1. CASE UNCHANGED outcome
        BY <3>1
      <3>2. CASE worker[w].p # q
        BY <3>2 DEF Inv, Typed
      <3>3. CASE ~(UNCHANGED outcome) /\ worker[w].p = q
        <4>1. Owns(w, q) /\ worker[w].attempt = lease[q].attempt /\ k.pc = "idle"
          BY <3>3 DEF Owns, CurrentLease
        <4>2. v = w
          BY <1>4, <4>1 DEF Inv, OneOwner
        <4> QED
          BY <1>1, <4>1, <4>2 DEF Owns
      <3> QED
        BY <3>1, <3>2, <3>3
    <2> QED
      BY <2>1, <2>2
  <1>6. OthersExpired'
    BY <1>4 DEF Inv, OthersExpired
  <1>7. OneOwner'
    BY <1>4 DEF Inv, OneOwner
  <1> QED
    BY <1>2, <1>3, <1>5, <1>6, <1>7 DEF Inv

\* Every step of a worker, of the clock and of a recovery outside the worker
\* keeps the invariant.
LEMMA NextInv == Inv /\ [Next]_vars => Inv'
  <1> SUFFICES ASSUME Inv, [Next]_vars PROVE Inv'
    OBVIOUS
  <1>0. Idle \in Locals /\ LeaseSeconds \in Nat /\ now \in Nat
        /\ \A w \in Workers : worker[w] \in Locals
    BY PolicyAssumption
    DEF PolicyAssumption, Idle, Locals, Seconds, Results, Never, Inv, Typed
  <1>1. ASSUME NEW w \in Workers, ReadClock(w) PROVE Inv'
    <2> DEFINE k == [Idle EXCEPT !.pc = "claiming", !.claimedAt = now,
                                 !.expiresAt = now + LeaseSeconds]
    <2>1. now + LeaseSeconds \in Seconds /\ now \in Seconds /\ now \in 0..now
      BY <1>0 DEF Seconds
    <2>2. k \in Locals /\ k.pc = "claiming" /\ k.claimedAt \in 0..now
      BY <1>0, <2>1 DEF Locals
    <2>3. worker' = [worker EXCEPT ![w] = k] /\ UNCHANGED <<now, lease, outcome, contacts>>
      BY <1>1 DEF ReadClock
    <2> HIDE DEF k
    <2> QED
      BY <2>2, <2>3, OtherStepsKeepInv
  <1>2. ASSUME NEW w \in Workers, NEW p \in Payments, Claim(w, p) PROVE Inv'
    BY <1>2, ClaimKeepsInv
  <1>3. ASSUME NEW w \in Workers, NEW result \in Results, RecoverEnds(w, result) PROVE Inv'
    <2> DEFINE k == [worker[w] EXCEPT !.pc = "ended", !.result = result]
    <2>1. k \in Locals /\ k.pc = "ended" /\ k.p = worker[w].p
          /\ k.attempt = worker[w].attempt /\ k.expiresAt = worker[w].expiresAt
      BY <1>0 DEF Locals
    <2>2. /\ worker' = [worker EXCEPT ![w] = k] /\ worker[w].pc = "recovering"
          /\ UNCHANGED <<now, lease, outcome, contacts>>
      BY <1>0, <1>3 DEF RecoverEnds, Locals, Inv, Typed
    <2> HIDE DEF k
    <2> QED
      BY <2>1, <2>2, OtherStepsKeepInv
  <1>4. ASSUME NEW w \in Workers, ReadRecordedAt(w) PROVE Inv'
    <2> DEFINE k == IF WithinLease(worker[w], now)
                    THEN [worker[w] EXCEPT !.pc = "recording", !.recordedAt = now]
                    ELSE Idle
    <2>1. k \in Locals
      BY <1>0 DEF Locals, Seconds
    <2>2. \/ k.pc = "idle"
          \/ /\ k.pc = "recording" /\ k.p = worker[w].p
             /\ k.attempt = worker[w].attempt /\ k.expiresAt = worker[w].expiresAt
      BY <1>0 DEF Locals, Idle
    <2>3. /\ worker' = [worker EXCEPT ![w] = k] /\ worker[w].pc = "ended"
          /\ UNCHANGED <<now, lease, outcome, contacts>>
      BY <1>4 DEF ReadRecordedAt
    <2> HIDE DEF k
    <2> QED
      BY <2>1, <2>2, <2>3, OtherStepsKeepInv
  <1>5. ASSUME NEW w \in Workers, RecordOutcome(w) PROVE Inv'
    <2>1. /\ worker' = [worker EXCEPT ![w] = Idle] /\ worker[w].pc = "recording"
          /\ UNCHANGED <<now, lease, contacts>>
          /\ \/ UNCHANGED outcome
             \/ /\ CurrentLease(worker[w])
                /\ \E o : outcome' = [outcome EXCEPT ![worker[w].p] = o]
      BY <1>5 DEF RecordOutcome
    <2>2. Idle.pc = "idle"
      BY DEF Idle
    <2> QED
      BY <1>0, <2>1, <2>2, OtherStepsKeepInv
  <1>6. ASSUME NEW w \in Workers, Stop(w) \/ FindNothing(w) PROVE Inv'
    <2>1. worker' = [worker EXCEPT ![w] = Idle] /\ UNCHANGED <<now, lease, outcome, contacts>>
      BY <1>6 DEF Stop, FindNothing
    <2>2. Idle.pc = "idle"
      BY DEF Idle
    <2> QED
      BY <1>0, <2>1, <2>2, OtherStepsKeepInv
  <1>7. CASE Tick
    <2>1. now' = now + 1 /\ UNCHANGED <<lease, outcome, worker, contacts>>
      BY <1>7 DEF Tick
    <2>2. Typed' /\ ContactsCounted' /\ OwnerHolds' /\ OneOwner'
      BY <1>0, <2>1 DEF Inv, Typed, ContactsCounted, OwnerHolds, OneOwner, Owns
    <2>3. \A w \in Workers : worker[w].expiresAt <= now => worker[w].expiresAt <= now + 1
      BY <1>0 DEF Locals, Seconds, Never
    <2>4. OthersExpired'
      BY <2>1, <2>3 DEF Inv, OthersExpired, Owns
    <2> QED
      BY <2>2, <2>4 DEF Inv
  <1>8. CASE UNCHANGED <<now, lease, outcome, worker, contacts>>
    BY <1>8 DEF Inv, Typed, ContactsCounted, OwnerHolds, OthersExpired, OneOwner, Owns
  <1>9. ASSUME NEW p \in Payments, NEW state \in Terminal, OthersEnd(p, state) PROVE Inv'
    BY <1>8, <1>9 DEF OthersEnd
  <1>10. CASE UNCHANGED vars
    BY <1>8, <1>10 DEF vars
  <1> QED
    BY <1>1, <1>2, <1>3, <1>4, <1>5, <1>6, <1>7, <1>9, <1>10 DEF Next, Advance

\* The leases of a job agree with what its workers believe about them, however
\* late or interrupted the workers are.
THEOREM Inductive == Spec => []Inv
  BY InitInv, NextInv, PTL DEF Spec

\* Two owners of leases of one payment never both have time left, however
\* long they were suspended: the earlier lease had to expire first.
THEOREM LeasesExclude == Spec => []LeaseExclusive
  <1>1. Inv => LeaseExclusive
    <2> SUFFICES ASSUME Inv, NEW v \in Workers, NEW w \in Workers, NEW p \in Payments,
                        v # w, Owns(v, p), Owns(w, p)
                 PROVE  worker[v].expiresAt <= now \/ worker[w].expiresAt <= now
      BY DEF LeaseExclusive
    <2>1. worker[v].attempt # worker[w].attempt
      BY DEF Inv, OneOwner
    <2>2. worker[v].attempt \in Nat /\ worker[w].attempt \in Nat /\ lease[p].attempt \in Nat
      BY DEF Inv, Typed, Locals, Leases
    <2>3. worker[v].attempt <= lease[p].attempt /\ worker[w].attempt <= lease[p].attempt
      BY DEF Inv, OthersExpired
    <2>4. worker[v].attempt < lease[p].attempt \/ worker[w].attempt < lease[p].attempt
      BY <2>1, <2>2, <2>3
    <2> QED
      BY <2>4 DEF Inv, OthersExpired
  <1> QED
    BY <1>1, Inductive, PTL

\* An earlier lease's outcome never finishes the lease of a worker at work.
THEOREM OwnersFinish == Spec => []OwnerFinishes
  <1>1. Inv => OwnerFinishes
    BY DEF Inv, OwnerHolds, OwnerFinishes
  <1> QED
    BY <1>1, Inductive, PTL

\* The operator is contacted at most MaxAttempts times for a payment.
THEOREM ContactsBounded == Spec => []BoundedContact
  <1>1. Inv => BoundedContact
    <2> SUFFICES ASSUME Inv, NEW p \in Payments PROVE contacts[p] <= MaxAttempts
      BY DEF BoundedContact
    <2>1. MaxAttempts \in Nat
      BY PolicyAssumption DEF PolicyAssumption
    <2>2. contacts[p] = IF lease[p].attempt <= MaxAttempts THEN lease[p].attempt ELSE MaxAttempts
      BY DEF Inv, ContactsCounted
    <2> QED
      BY <2>1, <2>2
  <1> QED
    BY <1>1, Inductive, PTL

\* Nothing is scheduled for a payment that ended or was flagged.
THEOREM StoppedJobsStay == Spec => StoppedStays
  <1>1. Inv /\ [Next]_vars =>
           [\A p \in Payments :
               /\ ~Active(p) \/ Stopped(p) => UNCHANGED lease[p]
               /\ Stopped(p) => UNCHANGED outcome[p]]_vars
    <2> SUFFICES ASSUME Inv, [Next]_vars, NEW p \in Payments
                 PROVE  /\ ~Active(p) \/ Stopped(p) => UNCHANGED lease[p]
                        /\ Stopped(p) => UNCHANGED outcome[p]
      OBVIOUS
    <2>1. ASSUME NEW w \in Workers, NEW q \in Payments, Claim(w, q)
          PROVE  /\ ~Active(p) \/ Stopped(p) => UNCHANGED lease[p]
                 /\ Stopped(p) => UNCHANGED outcome[p]
      BY <2>1 DEF Claim, Eligible, Stopped, Kinds, Inv, Typed
    <2>2. ASSUME NEW w \in Workers, RecordOutcome(w)
          PROVE  UNCHANGED lease[p] /\ (Stopped(p) => UNCHANGED outcome[p])
      BY <2>2 DEF RecordOutcome, CurrentLease, Stopped, Kinds, Inv, Typed
    <2>3. CASE UNCHANGED <<lease, outcome>>
      BY <2>3
    <2> QED
      BY <2>1, <2>2, <2>3
      DEF Next, Advance, Tick, OthersEnd, ReadClock, RecoverEnds, ReadRecordedAt, FindNothing,
          Stop, vars
  <1> QED
    BY <1>1, Inductive, PTL DEF Spec, StoppedStays

-----------------------------------------------------------------------------
(* Types                                                                   *)

\* A power of two counts the subsets of an interval.
LEMMA PowersAreNumbers == \A n \in Nat : 2^n \in Nat
  <1> SUFFICES ASSUME NEW n \in Nat PROVE 2^n \in Nat
    OBVIOUS
  <1>1. IsFiniteSet(1..n) /\ Cardinality(1..n) = n
    BY FS_Interval
  <1> QED
    BY <1>1, FS_SUBSET, FS_CardinalityType

\* Whatever the attempt, a retry waits for a number of seconds within the limit.
LEMMA DelaysAreSeconds == \A n \in Nat \ {0} : Delay(n) \in 0..RetryMax
  <1> SUFFICES ASSUME NEW n \in Nat \ {0} PROVE Delay(n) \in 0..RetryMax
    OBVIOUS
  <1>1. RetryBase \in Nat /\ RetryMax \in Nat
    BY PolicyAssumption DEF PolicyAssumption
  <1>2. PICK power \in Nat : power = 2^(n - 1)
    BY PowersAreNumbers
  <1>3. RetryBase * power \in Nat
    BY <1>1
  <1> QED
    BY <1>1, <1>2, <1>3 DEF Delay

\* TypeOK, and the outcome a worker is about to record has its time.
TypeInv ==
    /\ TypeOK
    /\ \A w \in Workers : worker[w].pc = "recording" => worker[w].recordedAt \in Nat

\* A worker's next local state, and an outcome it records, are of their types.
LEMMA WorkerKeepsTypes ==
  ASSUME TypeInv, NEW w \in Workers, NEW k \in WorkerState,
         worker' = [worker EXCEPT ![w] = k],
         k.pc = "recording" => k.recordedAt \in Nat,
         UNCHANGED <<now, contacts>>,
         lifecycle' \in [Payments -> {"active"} \cup Terminal],
         UNCHANGED lease,
         outcome' \in [Payments -> [kind : Kinds, nextAt : Nat \cup {Never}]]
  PROVE  TypeInv'
  <1>1. worker' \in [Workers -> WorkerState] /\ worker'[w] = k
        /\ \A v \in Workers \ {w} : worker'[v] = worker[v]
    BY DEF TypeInv, TypeOK
  <1> QED
    BY <1>1 DEF TypeInv, TypeOK

\* Each step keeps every row and every local variable of its type.
LEMMA NextTypes == Inv /\ TypeInv /\ [Next]_vars => TypeInv'
  <1> SUFFICES ASSUME Inv, TypeInv, [Next]_vars PROVE TypeInv'
    OBVIOUS
  <1>0. /\ Idle \in WorkerState /\ Idle.pc = "idle" /\ LeaseSeconds \in Nat /\ MaxLeases \in Nat
        /\ NoOutcome \in [kind : Kinds, nextAt : Nat \cup {Never}]
    BY PolicyAssumption DEF PolicyAssumption, Idle, WorkerState, Results, NoOutcome, Kinds
  <1>1. /\ now \in Nat /\ \A w \in Workers : worker[w] \in WorkerState
        /\ lifecycle \in [Payments -> {"active"} \cup Terminal]
        /\ outcome \in [Payments -> [kind : Kinds, nextAt : Nat \cup {Never}]]
    BY DEF TypeInv, TypeOK
  <1>2. ASSUME NEW w \in Workers, ReadClock(w) PROVE TypeInv'
    <2> DEFINE k == [Idle EXCEPT !.pc = "claiming", !.claimedAt = now,
                                 !.expiresAt = now + LeaseSeconds]
    <2>1. now + LeaseSeconds \in Nat
      BY <1>0, <1>1
    <2>2. k \in WorkerState /\ k.pc = "claiming"
      BY <1>0, <1>1, <2>1 DEF WorkerState
    <2>3. worker' = [worker EXCEPT ![w] = k]
          /\ UNCHANGED <<now, lifecycle, lease, outcome, contacts>>
      BY <1>2 DEF ReadClock
    <2> HIDE DEF k
    <2> QED
      BY <1>1, <2>2, <2>3, WorkerKeepsTypes
  <1>3. ASSUME NEW w \in Workers, NEW p \in Payments, Claim(w, p) PROVE TypeInv'
    <2> DEFINE n == lease[p].attempt + 1
    <2>1. n \in 0..MaxLeases /\ n \in Nat
      BY <1>0, <1>3 DEF Claim, MayLease, TypeInv, TypeOK
    <2>2. PICK k \in WorkerState : k.pc # "recording" /\ worker' = [worker EXCEPT ![w] = k]
      <3>1. CASE Observes(n)
        <4>1. [worker[w] EXCEPT !.pc = "recovering", !.p = p, !.attempt = n] \in WorkerState
          BY <1>1, <2>1 DEF WorkerState
        <4> QED
          BY <1>3, <3>1, <4>1 DEF Claim, WorkerState
      <3>2. CASE ~Observes(n)
        <4>1. [worker[w] EXCEPT !.pc = "ended", !.p = p, !.attempt = n, !.result = "exhausted"]
                \in WorkerState
          BY <1>1, <2>1 DEF WorkerState, Results
        <4> QED
          BY <1>3, <3>2, <4>1 DEF Claim, WorkerState
      <3> QED
        BY <3>1, <3>2
    <2>3. worker' \in [Workers -> WorkerState]
          /\ \A v \in Workers : worker'[v].pc = "recording" => worker'[v].recordedAt \in Nat
      BY <2>2 DEF TypeInv, TypeOK
    <2>4. lease' \in [Payments -> [attempt : 0..MaxLeases, claimedAt : Nat \cup {Never},
                                   expiresAt : Nat \cup {Never}]]
      <3>1. [attempt |-> n, claimedAt |-> worker[w].claimedAt, expiresAt |-> worker[w].expiresAt]
              \in [attempt : 0..MaxLeases, claimedAt : Nat \cup {Never},
                   expiresAt : Nat \cup {Never}]
        BY <1>1, <2>1 DEF WorkerState
      <3> QED
        BY <1>3, <3>1 DEF Claim, TypeInv, TypeOK
    <2>5. outcome' \in [Payments -> [kind : Kinds, nextAt : Nat \cup {Never}]]
      BY <1>0, <1>1, <1>3 DEF Claim
    <2>6. contacts' \in [Payments -> Nat] /\ UNCHANGED <<now, lifecycle>>
      BY <1>3 DEF Claim, TypeInv, TypeOK
    <2> QED
      BY <1>1, <2>3, <2>4, <2>5, <2>6 DEF TypeInv, TypeOK
  <1>4. ASSUME NEW w \in Workers, NEW result \in Results, RecoverEnds(w, result) PROVE TypeInv'
    <2> DEFINE k == [worker[w] EXCEPT !.pc = "ended", !.result = result]
    <2>1. k \in WorkerState /\ k.pc = "ended"
      BY <1>1 DEF WorkerState
    <2>2. worker' = [worker EXCEPT ![w] = k] /\ UNCHANGED <<now, lease, outcome, contacts>>
      BY <1>1, <1>4 DEF RecoverEnds, WorkerState, TypeInv, TypeOK
    <2>3. lifecycle' \in [Payments -> {"active"} \cup Terminal]
      BY <1>1, <1>4 DEF RecoverEnds, Terminal
    <2> HIDE DEF k
    <2> QED
      BY <1>1, <2>1, <2>2, <2>3, WorkerKeepsTypes
  <1>5. ASSUME NEW w \in Workers, ReadRecordedAt(w) PROVE TypeInv'
    <2> DEFINE k == IF WithinLease(worker[w], now)
                    THEN [worker[w] EXCEPT !.pc = "recording", !.recordedAt = now]
                    ELSE Idle
    <2>1. k \in WorkerState /\ (k.pc = "recording" => k.recordedAt \in Nat)
      BY <1>0, <1>1 DEF WorkerState
    <2>2. worker' = [worker EXCEPT ![w] = k]
          /\ UNCHANGED <<now, lifecycle, lease, outcome, contacts>>
      BY <1>5 DEF ReadRecordedAt
    <2> HIDE DEF k
    <2> QED
      BY <1>1, <2>1, <2>2, WorkerKeepsTypes
  <1>6. ASSUME NEW w \in Workers, RecordOutcome(w) PROVE TypeInv'
    <2> DEFINE l == worker[w]
               o == SelectOutcome(l)
    <2>1. l \in WorkerState /\ l.pc = "recording" /\ l.recordedAt \in Nat
      BY <1>1, <1>6 DEF RecordOutcome, TypeInv
    <2>2. l.p \in Payments /\ l.attempt \in Nat \ {0}
      <3>1. l.p \in Payments /\ l.attempt \in Nat
        BY <1>0, <2>1 DEF Inv, Typed, Locals
      <3>2. 1 <= l.attempt
        BY <2>1, <3>1 DEF Inv, OthersExpired, Owns
      <3> QED
        BY <3>1, <3>2
    <2>3. l.recordedAt + Delay(l.attempt) \in Nat
      <3>1. PICK d \in 0..RetryMax : d = Delay(l.attempt)
        BY <2>2, DelaysAreSeconds
      <3> QED
        BY <2>1, <3>1, PolicyAssumption DEF PolicyAssumption
    <2>4. o \in [kind : Kinds, nextAt : Nat \cup {Never}]
      BY <2>3 DEF SelectOutcome, Kinds
    <2>5. worker' = [worker EXCEPT ![w] = Idle] /\ UNCHANGED <<now, lifecycle, lease, contacts>>
          /\ (outcome' = [outcome EXCEPT ![l.p] = o] \/ UNCHANGED outcome)
      BY <1>6 DEF RecordOutcome
    <2>6. outcome' \in [Payments -> [kind : Kinds, nextAt : Nat \cup {Never}]]
      BY <1>1, <2>2, <2>4, <2>5
    <2> QED
      BY <1>0, <1>1, <2>5, <2>6, WorkerKeepsTypes
  <1>7. ASSUME NEW w \in Workers, Stop(w) \/ FindNothing(w) PROVE TypeInv'
    <2>1. worker' = [worker EXCEPT ![w] = Idle]
          /\ UNCHANGED <<now, lifecycle, lease, outcome, contacts>>
      BY <1>7 DEF Stop, FindNothing
    <2> QED
      BY <1>0, <1>1, <2>1, WorkerKeepsTypes
  <1>8. CASE Tick
    BY <1>8 DEF Tick, TypeInv, TypeOK
  <1>9. ASSUME NEW p \in Payments, NEW state \in Terminal, OthersEnd(p, state) PROVE TypeInv'
    BY <1>9 DEF OthersEnd, TypeInv, TypeOK
  <1>10. CASE UNCHANGED vars
    BY <1>10 DEF vars, TypeInv, TypeOK
  <1> QED
    BY <1>2, <1>3, <1>4, <1>5, <1>6, <1>7, <1>8, <1>9, <1>10 DEF Next, Advance

\* Every column and every local variable of a worker keeps its type; attempt
\* numbers never leave the bound their CHECK sets.
THEOREM TypeCorrect == Spec => []TypeOK
  <1>1. Init => TypeInv
    BY PolicyAssumption
    DEF PolicyAssumption, Init, Idle, NoOutcome, WorkerState, Results, Kinds, TypeInv, TypeOK
  <1>2. TypeInv => TypeOK
    BY DEF TypeInv
  <1> QED
    BY <1>1, <1>2, Inductive, NextTypes, PTL DEF Spec

=============================================================================
