---------------------------- MODULE RecoveryJobs ----------------------------
(***************************************************************************)
(* Leased recovery of dispatched payments: the recovery job of every melt  *)
(* effect, its leases and their outcomes, and the one-shot workers that    *)
(* claim, run a recovery and record how it ended.                          *)
(*                                                                         *)
(* A payment is dispatched at second 0 and its lifecycle is reduced to     *)
(* what the jobs read of it: active, consumed or released.  Leases are     *)
(* append-only; only the latest one of a payment and its outcome are       *)
(* state, since the code reads no other to decide.  A lease token is its   *)
(* attempt number, unique in its payment.  Every repository call locks the *)
(* job row and is one step; a worker may stop between any two of its       *)
(* steps, for any time or for ever.                                        *)
(*                                                                         *)
(* A definition that stands directly before the one it resembles and is    *)
(* used nowhere is a defect of it; the runs show that a property sees it.  *)
(***************************************************************************)
EXTENDS Integers

CONSTANTS
    Payments, Workers,
    NoPayment,          \* "no row"
    InitialDelay,       \* CASHU_STELLAR_MELT_RECOVERY_INITIAL_DELAY_SECONDS
    LeaseSeconds,       \* leaseDurationSeconds
    MaxAttempts,        \* maxAttempts
    RetryBase,          \* retryBaseSeconds
    RetryMax,           \* retryMaxSeconds
    MaxLeases           \* the CHECK on attempt_number (1024 in the schema)

ASSUME PolicyAssumption ==
    /\ NoPayment \notin Payments
    /\ InitialDelay \in Nat
    /\ {LeaseSeconds, MaxAttempts, RetryBase, MaxLeases} \subseteq Nat \ {0}
    /\ RetryMax \in Nat /\ RetryBase <= RetryMax

VARIABLES
    now,        \* Unix seconds, the same for every worker
    lifecycle,  \* what the latest lifecycle event says of each payment
    lease,      \* the latest lease; attempt 0 before the first
    outcome,    \* the outcome of the latest lease
    worker,     \* the local state of each runOnce call
    contacts    \* recoveries the workers ran, per payment (history)

vars == <<now, lifecycle, lease, outcome, worker, contacts>>

Never    == -1
Terminal == {"consumed", "released"}
Kinds    == {"none", "accepted", "released", "retry_scheduled", "attention_required"}
Results  == {"none", "accepted", "released", "retry", "stop", "exhausted"}

NoOutcome == [kind |-> "none", nextAt |-> Never]
Idle      == [pc |-> "idle", p |-> NoPayment, attempt |-> 0, claimedAt |-> Never,
              expiresAt |-> Never, result |-> "none", recordedAt |-> Never]

Active(p) == lifecycle[p] = "active"

Init ==
    /\ now = 0
    /\ lifecycle = [p \in Payments |-> "active"]
    /\ lease     = [p \in Payments |-> [attempt |-> 0, claimedAt |-> Never, expiresAt |-> Never]]
    /\ outcome   = [p \in Payments |-> NoOutcome]
    /\ worker    = [w \in Workers |-> Idle]
    /\ contacts  = [p \in Payments |-> 0]

-----------------------------------------------------------------------------
(* Eligibility                                                             *)

\* When the job of p is due: first after the initial delay, then when an
\* unfinished lease expires or a scheduled retry comes up.
DueAt(p) ==
    IF lease[p].attempt = 0 THEN InitialDelay
    ELSE IF outcome[p].kind = "none" THEN lease[p].expiresAt
    ELSE outcome[p].nextAt

LeasedAgain(p, t) == Active(p) /\ outcome[p].kind = "none" /\ InitialDelay <= t
NotReclaimed(p, t) ==
    /\ Active(p)
    /\ lease[p].attempt = 0 \/ outcome[p].kind = "retry_scheduled"
    /\ DueAt(p) <= t
AttentionRetried(p, t) == Active(p) /\ DueAt(p) <= t
Eligible(p, t) ==
    /\ Active(p)
    /\ outcome[p].kind \in {"none", "retry_scheduled"}
    /\ DueAt(p) <= t

Unlimited(p)  == TRUE
MayLease(p)   == lease[p].attempt < MaxLeases

\* Attempts beyond the last do not contact the operator.
ObservesOnceMore(n) == n <= MaxAttempts + 1
Observes(n)         == n <= MaxAttempts

-----------------------------------------------------------------------------
(* A worker: CashuStellarMeltRecoveryWorker.runOnce                        *)

\* The lease's times come from a clock read before the claim.
ReadClock(w) ==
    /\ worker[w].pc = "idle"
    /\ worker' = [worker EXCEPT ![w] = [Idle EXCEPT !.pc = "claiming",
                      !.claimedAt = now, !.expiresAt = now + LeaseSeconds]]
    /\ UNCHANGED <<now, lifecycle, lease, outcome, contacts>>

\* claimNext takes some due job: the earliest one whose row is not locked.
Claim(w, p) ==
    LET n == lease[p].attempt + 1
        l == worker[w] IN
    /\ l.pc = "claiming"
    /\ Eligible(p, l.claimedAt) /\ MayLease(p)
    /\ lease'   = [lease EXCEPT ![p] = [attempt |-> n, claimedAt |-> l.claimedAt,
                                        expiresAt |-> l.expiresAt]]
    /\ outcome' = [outcome EXCEPT ![p] = NoOutcome]
    /\ worker'  = [worker EXCEPT ![w] =
                      IF Observes(n)
                      THEN [l EXCEPT !.pc = "recovering", !.p = p, !.attempt = n]
                      ELSE [l EXCEPT !.pc = "ended", !.p = p, !.attempt = n,
                                     !.result = "exhausted"]]
    /\ contacts' = [contacts EXCEPT ![p] = IF Observes(n) THEN @ + 1 ELSE @]
    /\ UNCHANGED <<now, lifecycle>>

\* The recovery ends the payment, or finds it ended, or settles nothing: an
\* abort, a storage failure and nonterminal evidence are worth a retry; an
\* invalid answer, invalid evidence and a bad configuration are not.
RecoverEnds(w, result) ==
    LET p == worker[w].p IN
    /\ worker[w].pc = "recovering"
    /\ CASE result = "accepted" -> lifecycle[p] \in {"active", "consumed"}
                                   /\ lifecycle' = [lifecycle EXCEPT ![p] = "consumed"]
         [] result = "released" -> lifecycle[p] \in {"active", "released"}
                                   /\ lifecycle' = [lifecycle EXCEPT ![p] = "released"]
         [] OTHER               -> UNCHANGED lifecycle
    /\ worker' = [worker EXCEPT ![w].pc = "ended", ![w].result = result]
    /\ UNCHANGED <<now, lease, outcome, contacts>>

\* A clock outside the lease means the lease is lost.
WithinLease(l, t) == l.claimedAt <= t /\ t <= l.expiresAt

ReadRecordedAt(w) ==
    /\ worker[w].pc = "ended"
    /\ worker' = [worker EXCEPT ![w] =
                     IF WithinLease(worker[w], now)
                     THEN [worker[w] EXCEPT !.pc = "recording", !.recordedAt = now]
                     ELSE Idle]
    /\ UNCHANGED <<now, lifecycle, lease, outcome, contacts>>

Delay(n) ==
    IF RetryBase * 2^(n - 1) <= RetryMax THEN RetryBase * 2^(n - 1) ELSE RetryMax

SelectOutcome(l) ==
    IF l.result \in {"accepted", "released"} THEN [kind |-> l.result, nextAt |-> Never]
    ELSE IF l.result = "retry" /\ l.attempt < MaxAttempts
         THEN [kind |-> "retry_scheduled", nextAt |-> l.recordedAt + Delay(l.attempt)]
         ELSE [kind |-> "attention_required", nextAt |-> Never]

\* Only the latest lease may still be finished, once.
UnfencedLease(l) == outcome[l.p].kind = "none"
CurrentLease(l)  == lease[l.p].attempt = l.attempt /\ outcome[l.p].kind = "none"

\* The outcome agrees with the lifecycle of the moment.
Agrees(p, o) ==
    CASE o.kind = "accepted" -> lifecycle[p] = "consumed"
      [] o.kind = "released" -> lifecycle[p] = "released"
      [] OTHER               -> Active(p)

RecordOutcome(w) ==
    LET l == worker[w]
        o == SelectOutcome(l) IN
    /\ l.pc = "recording"
    /\ IF CurrentLease(l) /\ Agrees(l.p, o)
       THEN outcome' = [outcome EXCEPT ![l.p] = o]
       ELSE UNCHANGED outcome
    /\ worker' = [worker EXCEPT ![w] = Idle]
    /\ UNCHANGED <<now, lifecycle, lease, contacts>>

\* A crash, an abort, or a repository call that fails.
Stop(w) ==
    /\ worker[w].pc # "idle"
    /\ worker' = [worker EXCEPT ![w] = Idle]
    /\ UNCHANGED <<now, lifecycle, lease, outcome, contacts>>

-----------------------------------------------------------------------------
(* The surroundings                                                        *)

\* A recovery that no worker runs ends the payment.
OthersEnd(p, state) ==
    /\ Active(p)
    /\ lifecycle' = [lifecycle EXCEPT ![p] = state]
    /\ UNCHANGED <<now, lease, outcome, worker, contacts>>

\* Time beyond every deadline changes nothing and is not modelled.
Tick ==
    /\ \E p \in Payments : Active(p) /\ now <= DueAt(p)
    /\ now' = now + 1
    /\ UNCHANGED <<lifecycle, lease, outcome, worker, contacts>>

Advance(w) ==
    \/ ReadClock(w)
    \/ \E p \in Payments : Claim(w, p)
    \/ \E result \in Results \ {"none", "exhausted"} : RecoverEnds(w, result)
    \/ ReadRecordedAt(w)
    \/ RecordOutcome(w)

\* claimNext finds nothing due and the call returns idle.
FindNothing(w) ==
    /\ worker[w].pc = "claiming"
    /\ \A p \in Payments : ~Eligible(p, worker[w].claimedAt) \/ ~MayLease(p)
    /\ worker' = [worker EXCEPT ![w] = Idle]
    /\ UNCHANGED <<now, lifecycle, lease, outcome, contacts>>

Next ==
    \/ Tick
    \/ \E p \in Payments, state \in Terminal : OthersEnd(p, state)
    \/ \E w \in Workers : Advance(w) \/ FindNothing(w) \/ Stop(w)

Spec == Init /\ [][Next]_vars

\* Time passes, a supervisor calls runOnce again and again, and a claim that
\* is possible again and again is committed some time.  Nothing else is
\* assumed of a call: once it has its lease it may stop or be late each time.
Fairness ==
    /\ WF_vars(Tick)
    /\ \A w \in Workers : WF_vars(Advance(w) \/ FindNothing(w))
    /\ SF_vars(\E w \in Workers, p \in Payments : Claim(w, p))

FairSpec == Spec /\ Fairness

-----------------------------------------------------------------------------
(* Properties                                                              *)

WorkerState ==
    [pc : {"idle", "claiming", "recovering", "ended", "recording"},
     p : Payments \cup {NoPayment}, attempt : 0..MaxLeases,
     claimedAt : Nat \cup {Never}, expiresAt : Nat \cup {Never},
     result : Results, recordedAt : Nat \cup {Never}]

\* Every column and every local variable holds a value of its type; the
\* attempt numbers stay within their CHECK.
TypeOK ==
    /\ now \in Nat
    /\ lifecycle \in [Payments -> {"active"} \cup Terminal]
    /\ lease \in [Payments -> [attempt : 0..MaxLeases, claimedAt : Nat \cup {Never},
                               expiresAt : Nat \cup {Never}]]
    /\ outcome \in [Payments -> [kind : Kinds, nextAt : Nat \cup {Never}]]
    /\ worker \in [Workers -> WorkerState]
    /\ contacts \in [Payments -> Nat]

Owns(w, p) == worker[w].p = p /\ worker[w].pc \in {"recovering", "ended", "recording"}

\* Two workers that both hold an unexpired lease hold leases of different
\* payments, however long either was suspended between its steps.
LeaseExclusive ==
    \A v, w \in Workers, p \in Payments :
        v # w /\ Owns(v, p) /\ Owns(w, p) =>
            worker[v].expiresAt <= now \/ worker[w].expiresAt <= now

\* While the owner of the latest lease is at work nobody else finishes that
\* lease: an outcome that arrives from an earlier lease is fenced off.
OwnerFinishes ==
    \A w \in Workers, p \in Payments :
        Owns(w, p) /\ worker[w].attempt = lease[p].attempt => outcome[p].kind = "none"

\* docs/recovery-operations.md: the operator is observed at most MaxAttempts
\* times for a payment, whatever crashes, expired leases and late workers the
\* bookkeeping lease has to make up for.
BoundedContact == \A p \in Payments : contacts[p] <= MaxAttempts

Stopped(p) == outcome[p].kind \in Kinds \ {"none", "retry_scheduled"}

\* The scheduler is done with a payment that ended or was flagged: no lease
\* follows, even one whose worker read its clock long before, and no later
\* outcome replaces the one that flagged it.
StoppedStays ==
    [][\A p \in Payments :
          /\ ~Active(p) \/ Stopped(p) => UNCHANGED lease[p]
          /\ Stopped(p) => UNCHANGED outcome[p]]_vars

\* No job is forgotten: a payment ends, or is flagged for an operator, or its
\* workers lost MaxLeases leases one after the other.  A worker that died in
\* its lease delays the job only until the lease expires.
NoJobForgotten ==
    \A p \in Payments : <>(~Active(p) \/ Stopped(p) \/ lease[p].attempt = MaxLeases)

=============================================================================
