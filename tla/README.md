# CashMesh in TLA+

CashMesh lets a merchant take Cashu payments that are settled on Stellar. A merchant's invoice
is issued with a Cashu payment request. A customer's bearer proofs are reserved, and *melted*
at the operator's mint, which pays the merchant's Stellar address; the merchant is credited
exactly when the mint has paid and the proofs are spent. Two programs carry the risk:

- the **acquirer API** (TypeScript over PostgreSQL), which issues invoices, keeps what it
  observed of the mints' keysets and the durable record of each payment, and drives the melt
  over an unreliable network, and
- the **Stellar settlement processor** (Rust, a JSON journal), the mint's payment backend,
  which pays out melts and credits deposits on Stellar.

These modules model both, from the durable record up to concurrent calls, crashes and lost
messages.

## 1. Inventory

| Part | State | Operations | What makes it hard | What makes it correct |
|---|---|---|---|---|
| Proof reservation (`postgres-cashu-proof-reservation-repository.ts`) | reservations, reserved proofs, active proof claims | reserve | reservations of the same proof race, statement by statement; the keyset evidence they name is being added to | a proof is in one live payment; evidence that stands; no deadlock |
| Bearer custody (`postgres-cashu-proof-custody-repository.ts`) | one encrypted bundle per payment | store, decrypt, destroyed by a trigger | outliving ambiguity but not the end | custody from dispatch to the terminal event |
| Melt quote attempts (`postgres-cashu-stellar-melt-quote-repository.ts`) | attempt, one outcome, observations | begin, recordAmbiguous, recordQuote, observe | answers of different age | newer only, PAID never regresses |
| Proof-state evidence (`postgres-cashu-proof-state-repository.ts`) | snapshots per payment | persistObservation | snapshots stored out of time order | SPENT never regresses in time order |
| Lifecycle and accounting (`postgres-cashu-proof-reservation-lifecycle-repository.ts`, triggers of `postgres-schema.ts`) | effect, events, active claims, journal, paid invoice | startEffect, recordPending, requireAttention, acceptPayment, release | long sequences by several callers | one end per payment, proven, booked once |
| Dispatch coordinator and execution client (`cashu-stellar-melt-coordinator.ts`, `stellar-melt-execution-client.ts`) | a call's local state | dispatch, execute | retries, replays, a process suspended before its request | bearer proofs leave at most once |
| Recovery coordinator (`cashu-stellar-melt-recovery-coordinator.ts`) | a call's local state | recover | stale answers, other recoveries, the expiry | releases only what cannot be melted any more |
| Recovery jobs and worker (`...recovery-job-repository.ts`, `...recovery-worker.ts`) | jobs, leases, outcomes | claimNext, recordOutcome, runOnce | workers slower than their leases, or dead | one live lease, bounded contacts, no job forgotten |
| Payout settlement (`settlement.rs`, `processor.rs`, `store.rs`) | settlement of a melt quote, journal | make_payment, check_outgoing_payment, get_payment_quote | concurrent calls, crash between two steps, ambiguous submission | one payout, no false final answer |
| Deposits (`processor.rs`, `store.rs`, `horizon.rs`) | mint quotes, claims, replay indexes, cursor | create_incoming_payment_request, check_incoming_payment_status | stale pages, a shared cursor, failed writes | nothing skipped, nothing credited twice |
| Invoice issuance (`invoice-service.ts`, `postgres-invoice-repository.ts`, `invoice-routes.ts`) | invoices, creation requests by idempotency key, payment requests and their routes | create, find | retries and races on one key, colliding identifiers, lost commits, processes of other deployments | one invoice per key, read back as it was issued |
| Keyset observation (`keyset-observer.ts`, `postgres-cashu-keyset-repository.ts`) | keyset identities, observations and their entries | observe, persistObservation, findLatestFreshSnapshot | the mint rotates between two requests; observations out of order | no mixed snapshot; identities and observations stand |
| Payment intake (`payment-intake-service.ts`, `payment-payload.ts`) | none | inspect | | it accepts nothing it cannot prove |
| Domain (`packages/domain`) | none | invoices, ledger, operator policy | arithmetic at its limits | what the domain creates and what the database demands agree |
| Payment requests (`packages/cashu/src/payment-request.ts`) | none | issue, rebuilt when read | routes and policy change later | a stored request is rebuilt the same |
| Codecs, HTTP clients, custody ciphers | none | encode, decode, bounded requests, encrypt | | |
| Merchant console | none of the system's | | | |

How they interact. A POST issues an invoice with the routes its process was configured with;
the stored request is issued again from its rows whenever it is read, by a GET and by every
acceptance of a payment. Proofs are validated against a fresh keyset snapshot, and their
reservation names that snapshot, from which the dispatch later derives the input fee again.
A payment is reserved, put in custody and quoted, each by its
repository, all under the row lock of the reservation. The dispatch coordinator reads the
record, and hands the execution client an `authorize` callback; the callback's transaction
(`startEffect`) writes the effect, the `dispatch_started` event, the invoice claim and the
recovery job. Only then does the client send the NUT-05 melt. Whatever comes back, or does
not, the recovery coordinator may later read the mint's quote and proof states, store both,
and end the payment, called by a worker that holds the lease of the payment's job. On the
mint's side the same melt reaches the processor as `make_payment`; deposits reach it through
`check_incoming_payment_status`. PROJECT.json lists every hazard at the line where it bites.

## 2. Modules

| Module | Models | Uses |
|---|---|---|
| `PaymentEscrow` | the abstract promise: a payment holds its proofs, commits them to one melt, and ends spent (crediting its invoice in the same step) or returned | |
| `IssueOnce` | the abstract promise: a key gets one invoice, whoever asks for the same gets that one, whoever asks for something else is refused | |
| `PaymentRequests` | operator policy, routes, payment requests and their rebuilding from rows (operators only) | |
| `MerchantLedger` | the journal entry of a payment: what the domain creates, what is stored, what the database demands (operators only) | extends `PaymentRequests` |
| `InvoiceIssuance` | concurrent requests that issue and read invoices | extends `MerchantLedger`, instantiates `IssueOnce` |
| `KeysetEvidence` | observers of a mint's keysets and the record of their observations | |
| `ProofReservation` | payments that are validated against that record and reserved, statement by statement | extends `KeysetEvidence`, instantiates `PaymentEscrow` |
| `MeltLifecycle` | the durable record of payments, each transaction one step | instantiates `PaymentEscrow` for the refinement |
| `MeltPayment` | dispatchers, recoverers and the mint over that record | extends `MeltLifecycle` |
| `RecoveryJobs` | recovery jobs, leases, workers | |
| `StellarSettlement` | one payout of the processor | |
| `StellarDeposits` | the processor's deposit scan | |
| `MC...` | instances for TLC: model values, small functions, symmetry sets, bounds | the module of that name |
| `MeltLifecycleProofs`, `MeltPaymentProofs`, `RecoveryJobsProofs`, `StellarSettlementProofs`, `StellarDepositsProofs`, `MerchantLedgerProofs`, `InvoiceIssuanceProofs`, `ProofReservationProofs` | theorems | the module of that name, `TLAPS`; `MeltPaymentProofs` also `MeltLifecycleProofs` |

Some definitions stand directly before the one they resemble and are used nowhere (for
example `ProofsFreeOfReserved` before `ProofsFree`). Each is a *defect* of the definition
that follows it, a mistake the code could plausibly contain. Replacing the right definition
by its defect makes TLC refute one property; PROJECT.json pairs them under `mutants`. They
show that the properties depend on the code they are about.

### PaymentRequests and MerchantLedger

Pure algorithms as operators. A route set is a sequence of configured routes; accepted
routes, which the code sorts by mint URL and keeps distinct, are a function from mint URLs.
`CanonicalUrl` is `normalizeMintUrl`. A hash is the record it covers. `Rebuildable` is what
`reconstructStoredCashuPaymentRequest` demands of the rows of a request, and `Rebuilt` what it
returns. `MerchantLedger` states the two sides of the accounting next to each other: the
postings `createInvoicePaymentJournalV1` makes and `createJournalEntryV1` accepts
(`IsJournalEntry`), and the rows that the CHECKs and the deferred trigger of the two journal
tables accept (`Stored`).

### InvoiceIssuance

One variable per table (`creations` is `invoice_creation_requests` by merchant and key) and
the state of each call. A POST goes `Create`, `Lookup`, `ReadClock`, `Generate`, then the
transaction: `InsertKey`, `InsertId`, `InsertRows`, `Commit`, `Receive`; or `Match` and
`ReadRoutes` for a replay. A GET goes `Find`, `FindRow`, `ReadRoutes`. Statements are steps of
their own because PostgreSQL runs at read committed here: `INSERT ... ON CONFLICT DO NOTHING`
waits for another transaction's uncommitted row, and a read made of two statements sees two
states. `insert` is one row with two unique keys, which PostgreSQL checks one after the other.
A call may give up at any step; its transaction then is ended by the database, with the commit
if that had been sent, so a client may see a failure of what was committed. Each call is
served by a process with its own configuration (routes, destination, transport URL) and its
own clock. `Pay` stands for the payment's acceptance, by a route that is converted.

`IssueOnce` is the promise of `docs/invoice-api.md`; `asked`, `issued` and `answered` map the
calls, the stored rows and the answers to it. `RowArtifact` takes the artifact from the request the stored fingerprint
covers, so that a request rebuilt differently would refute the refinement.

### KeysetEvidence

`mint` is what the mint publishes, which changes at any moment (`Publish`): keysets appear,
become inactive, and their fee and expiry may be changed, since an identifier of version 00
covers neither. `keysets` holds the material first observed of an identifier, `observations`
the rows by time. An observer reads the metadata, the keys of each identifier in any order,
and the metadata again, each a request of its own; then it stamps and persists the snapshot:
identities one at a time in their order, then the row. `current` is a history variable for
`SnapshotsAreCurrent`.

### ProofReservation

Adds payments over that record: `Validate` (a fresh snapshot, the proofs and the fee against
it), `FindReservation`, and the transaction: `LockInvoice`, `AssertKeysetEvidence`,
`InsertReservation`, `InsertProof` for each proof, `AskCommit`, `CommitReservation` with the
deferred triggers. What follows a reservation, which `MeltLifecycle` has in detail, is one step
each here (`Dispatch`, `Accept`, `Release`). The module shows what `MeltLifecycle` takes for
granted, that a reservation made of interleaved statements is one step (`ImplementsEscrow`, the
same promise). `terms` is a history variable: the input fee a payment was validated with and
the final expiries of its keysets. A dispatch derives the fee from the snapshot of exactly the
reservation's evidence (`ExactObservation`), at its own clock, when it prepares and again when
the melt is authorized (`FeeAgreed`); it is refused at or after a final expiry, and when the
amount of the quote, which is the invoice's, and the fee are not what the proofs are worth
(`FeeOf`). `EvidenceStands` says that the outcome is the one the terms of the validation give,
whatever has been published and observed since. No code under `src/` composes observing,
validating and reserving yet (`inspect` of the intake refuses every payment after its checks),
so who calls them, and with which times, is left to `Intake` and `Observe`.

### MeltLifecycle

One variable per table or column that decides something: `reservedAt`, `custodyAt`,
`attemptAt` (timestamps, `Never` when there is no row), `ambiguous`, `quotes` and
`snapshots` (append-only sets of observations), `startedAt` (the operator effect), `events`
(the lifecycle events in sequence), `proofClaim`, `invoiceClaim`, `paidAt`, `journal`. An
action is one PostgreSQL transaction. The reservation row is locked `FOR UPDATE` first, so
transactions of one payment are serial, and an action is enabled exactly when its transaction
commits a change: replays and refused calls change nothing. The checks that the repositories
make and those that the database makes (keys, CHECKs, triggers) are conjuncts of the same
action. The state of a payment is derived from its last event, as in the code.

The callers are unconstrained: any timestamp, any order, any evidence time. What is proved
and checked here therefore holds whatever the coordinators do.

Abstracted: secrets, keysets, fees, fingerprints (a row whose fingerprint fits), amounts (the
reserved amount covers the quote) and every validation of a value's form. The note-swap
effect kind is left out: no coordinator starts one.

`Phase` maps the record to `PaymentEscrow`: reserved is *held*, an effect makes it
*committed*, `consumed` is *spent*, `released` is *returned*; the journal is the credit.

### MeltPayment

Adds a clock, the local state of each dispatch and recovery call, and the mint. A call is a
sequence of steps split at every await and every read of the clock; what it read earlier may
be stale at each later step. A call that never takes its next step has crashed; a retry is
another call. A dispatch goes `DispatchLoad`, `Authorize`, `LastCheck`, `Post`, `Answer`,
`Receive`, `PersistAnswer`, `DispatchPending`, with `DispatchFails` and `DispatchAttention`
from every step after the authorization. A recovery goes `RecoverLoad`, quote, proofs,
`Decide`, with its three ways to record attention. The actions of `MeltLifecycle` are used
as they are.

Assumptions about the surroundings, each from a document or from what the code relies on:
the clocks of the acquirer's processes and of the mint agree (`docs/recovery-operations.md`
asks for coordinated UTC clocks); the mint starts no melt of an expired quote, takes the
proofs of a melt together, and gives quote and proofs back together when its payment fails
(NUT-05); an event identifier is derived from the payment, the kind and the evidence time.

### RecoveryJobs

The latest lease of each payment and its outcome, each worker's local state, and the
lifecycle reduced to active, consumed or released. `ReadClock`, `Claim`, `RecoverEnds`,
`ReadRecordedAt`, `RecordOutcome` are the steps of `runOnce`; `Stop` is a crash, an abort or
a failing call at any of them. `contacts` counts the recoveries the workers ran. The claim
may take any due job, which includes the earliest due one the query takes.

### StellarSettlement

`mem` and `disk` are the settlement in the store's mutex and in the journal file; `Update`
is `StateStore::update`, which either moves both, or leaves the memory and fails, before the
rename (disk unchanged) or after it (disk ahead). A call is split at its awaits (`prepare`,
`observe`, `submit`) and between its store accesses; it may be dropped anywhere. `Crash`
drops all calls and reloads the journal. The operations of `Settlement` are functions from
settlement to settlement or `Refused`. `OtherWrite` is a write of the shared journal for
another quote, which also brings the file back in line with the memory.

The rail is a port (`PayoutRail`) with no implementation in the repository. It is taken at
its word: what it reports as confirmed, failed or rejected is so, it may report "not found"
about anything, and its errors say nothing. What a restart reads from the journal is taken
to be durable.

### StellarDeposits

`ledger` is Horizon's list of payments to the deposit account, in order and only growing;
a paging token is a position. Two calls can hold pages of different age while both move the
one cursor. A payment is *exact* for the quote of its memo, *wrong* for it, or *other*
(filtered out by the Horizon adapter): the conditions on network, success, destination,
asset, amount and close time depend on nothing that changes later.

## 3. Runs

All runs are exhaustive over their instance. "States" are distinct states.

| Run | Instance | Shows | States |
|---|---|---|---|
| `shared_proof` | 2 payments, 2 invoices, 1 shared proof, seconds 0..1 | `TypeOK`, `NoSharedProof`, `CustodyUntilTerminal`, and the refinement of `PaymentEscrow` | 2.3e5 |
| `shared_invoice` | 2 payments of one invoice, own proofs | `OneMeltPerInvoice`, `BookedOnce` | 8.8e5 |
| `long_history` | 1 payment, 2 proofs, 3 seconds, 3 quote and 2 proof observations, 3 events | `ReleaseIsProven`, `ConsumedIsProven`, `TerminalIsFrozen` | 2.9e5 |
| `two_dispatchers` | 2 dispatches, 1 recovery, 2 proofs, seconds 0..3 | `OneAuthorizedPost`, `CreditIsReal` | 4.6e5 |
| `two_recoverers` | 1 dispatch, 2 recoveries, 1 proof, seconds 0..2, expiry at 2 | `ReleaseIsSafe`, `PaidKeepsClaims`, `NoSendAfterEnd` | 1.1e6 |
| `same_second` | 1 dispatch, 1 recovery | *refutes* `LaterQuotesKeepRecovery`, see section 6 | |
| `leases` | 2 workers, 1 job, 3 attempts, up to 5 leases | `TypeOK`, `LeaseExclusive`, `OwnerFinishes`, `BoundedContact`, `StoppedStays`; liveness: `NoJobForgotten` | 4.3e5 |
| `one_payout` | 2 calls, 2 envelopes | `TypeOK`, `SentIsDurable`, `FailedIsSafe`, `PaidIsReal`, `AnswersStand`; liveness: `PaidIsLearned` | 4.0e4 |
| `deposits` | 2 calls, 2 quotes, 3 payments, pages of 2 | `TypeOK`, `OneDepositPerQuote`, `NothingSkipped`, `AnswersAreDurable`, `OnlyForward` | 1.4e6 |
| `deposit_credited` | 2 calls, 1 quote, 2 payments, pages of 1 | liveness: `DepositIsCredited` | 1.2e4 |
| `issuance` | 2 calls, 2 merchants with a key each, 2 identifiers, 2 bodies, 2 deployments, clocks 0..1 | `TypeOK`, `NoInvalidRecord`, the refinement of `IssueOnce`; liveness: `EveryCallEnds` | 1.3e5 |
| `evidence` | 2 slots, 2 payments of the same 2 proofs in opposite orders, for invoices of overlapping windows, 2 keysets, one of which ends at second 1, 3 versions of the mint, clocks 0..1 | `TypeOK`, `EvidenceStands`, `NoWaitCycle`, the refinement of `PaymentEscrow` | 5.7e5 |

Bounds and why they are enough:

- *Two payments* contend for a proof or an invoice; the conflicts in the code are pairwise
  (a primary key), and the theorems remove the bound.
- *Times*. Whole seconds matter by their order against the start, the expiry and each other.
  Two seconds give before and at, three give before, at and after the quote's expiry; the
  clock of `two_dispatchers` has a second before the expiry at 2, the expiry, and one after it,
  that of `two_recoverers` ends with the expiry, the first second at which a release is
  possible. Event identifiers are given in order (`NextId`), since nothing compares them but
  for being equal. `MCMeltLifecycle` restricts setting up a payment to `SetupTimes`, and
  observations to `MaxQuotes` and `MaxSnapshots`; `MaxEvents` stands for the 1024 of the
  schema, and the type invariant shows the limit is respected when it is reached.
- *Calls*. Two of the kind that may conflict and one of the other kind: every hazard listed
  is about two actors. In `evidence` a slot that ended serves another request, so any number
  of observations and payments follow each other and any two overlap. In `issuance` a call is
  one request: two of one key race, or one is the retry of the other. A third request would
  meet a committed row or an uncommitted one, as the second does.
- *Two workers*: one that is stale and one that holds the lease; the theorems hold for any
  number. Three attempts leave a retry of a retry, and five leases two bookkeeping leases.
- *Deployments and versions*: the configurations differ in routes and transport, with one
  destination, with a mint in a spelling of its own and a mode the policy overrides; the mint
  publishes a first keyset, a rotation, and a repricing that also changes the expiry. The first
  expiry falls between the clocks, so that a payment is validated before it and dispatched
  before it or, to be refused, at it; at the second fee the same proofs are valid and do not
  pay the invoice.
- `issuance` also evaluates the properties of `MerchantLedger` over amounts up to 3 and every
  sequence of two or three postings (`LedgerAgrees`).
- `MaxLeases` stands for the CHECK of 1024 on the attempt number.
- *Positions*. Three deposits with pages of two: a stale page can end before, at and after a
  fresh one.

Symmetry is used over calls, slots and quotes, which nothing orders, never over the payments
of `MeltLifecycle`, and never in a liveness run. Deadlock is checked except where the system really
stops: payments reach a terminal state and the bounded clock ends.

## 4. Fairness

- `RecoveryJobs`: time passes; a supervisor calls `runOnce` again and again (weak fairness
  of a worker's next step, which may be `Stop`'s competitor each time); and a claim that
  is possible again and again is committed some time. A worker that has its lease may die
  each time, so no recovery is assumed ever to succeed. `NoJobForgotten` accordingly allows
  a job to use up its leases.
- `StellarSettlement` and `StellarDeposits`: the mint polls (CDK checks pending quotes);
  what is attempted again and again, by one call or another, succeeds some time: an included transaction is seen, a
  page arrives, a write is stored. Nothing excludes any number of dropped calls, failed
  writes and crashes in between, hence strong fairness. No fairness of Stellar is assumed:
  the properties start from an included transaction.

- `InvoiceIssuance`: a call that lives goes on, and the database ends every transaction with
  its commit or its rollback, since the pool sets timeouts of seconds for statements, locks
  and idle transactions; weak fairness, one condition per call, as no statement of a call can
  be taken while its transaction can be ended. No call is assumed to succeed, identifiers
  may collide every time, and any call may be given up at any step.

There is no liveness property of `MeltPayment`: nothing in the code makes anybody recover a
payment except the worker, whose supervisor is not part of the repository; the promise about
it is `NoJobForgotten`.

## 5. Theorems

Every invariant, every action property and every refinement that a passing run checks is also
a theorem, for every value of the constants; liveness is not (see the end of this section). Each
proof has the same shape: an inductive invariant (`IInv`, `Inv` or `AllIInv`, checked by TLC
on the instance of the run first), one lemma per action or per form of action, and the
properties from it.

`MeltLifecycleProofs`, for any sets of payments, proofs, invoices, any times and identifiers
(`ConstantsAssumption`):

- `TypeCorrect`: `TypeOK`, with the bound on the event sequence.
- `Inductive`: the invariant `IInv`. The properties are not inductive as they stand: that two
  payments never hold one proof is kept by a reservation only because the claim table says
  which proofs are free. So `IInv` adds to `TypeOK` and `BookedOnce` how the tables agree: a
  proof is claimed by a payment exactly while that payment holds it (`ProofsClaimed`); an
  invoice is claimed exactly from dispatch on, unless the payment is released
  (`InvoiceClaimed`); and the rows of a payment come into being in order, custody lasting
  from before the first quote to the terminal event (`RowsInOrder`). The proof first shows
  that every transaction has one of six forms, and then, per conjunct, that each form keeps
  it.
- `ProofsNotShared`, `InvoicesMeltedOnce`, `InvoicesBookedOnce`, `CustodyLasts`: the
  invariants of the runs, from `IInv`.
- `RecordImplementsEscrow`: every step of the record is a step of `PaymentEscrow` or leaves
  its phases and credits alone.
- `ReleasesAreProven`, `ConsumptionsAreProven`, `TerminalStaysFrozen`, from `EInv`, which adds
  to `IInv` that evidence only advances in the order of its times (`QuotesAdvance`,
  `SnapshotsAdvance`), whatever the order in which it is stored, and the two claims payment by
  payment. A terminal payment keeps the evidence it ended on because nothing of it can be
  written any more.

`MeltPaymentProofs`, for any number of dispatches, recoveries and payments, any proofs and any
bound of the clock (`ClockAssumption`; the identifiers derived for events are identifiers,
`IdentifiersAssumption`; payments that are reserved together have no proof in common,
`ReservedAssumption`, which `ProofsNotShared` says of the record they start from):

- `AllInductive`: `AllIInv`, which adds to `IInv` of the record what the coordinators know. An
  authorization is used up by the one request (`Requests`); the mint starts a melt on a request
  only, and holds a quote and its proofs together (`MintFits`); what a payment ended on is
  final at the mint (`Ended`); and of what a recovery has read and not used yet, the part its
  decision rests on is still so, PAID and SPENT being final and so a quote whose proofs were
  free after its expiry (`RecoveryFits`). This last part is why a recovery may act on answers
  of any age.
- `ProofsPostedOnce`, `CreditsAreReal`, `ReleasesAreSafe`, `ClaimsOutlivePayment`,
  `NothingSentAfterEnd`.

`RecoveryJobsProofs`, for any number of workers and payments and any policy with positive
lease and attempt limits (`PolicyAssumption`):

- `Inductive`: the invariant `Inv`. Leases count contacts (`ContactsCounted`); the owner of
  the latest lease knows it as it is stored, and it is unfinished (`OwnerHolds`); the owner
  of an earlier lease is past that lease's expiry (`OthersExpired`); no two workers own one
  lease (`OneOwner`).
- `LeasesExclude`, `OwnersFinish`, `ContactsBounded`, `StoppedJobsStay`.
- `TypeCorrect`, which also needs that the exponential retry delay is a number of seconds
  within its limit (`DelaysAreSeconds`): a power of two counts the subsets of an interval
  (`PowersAreNumbers`), which spares an induction.

`StellarSettlementProofs`, for any number of calls and envelopes (`EnvelopesAssumption`):

- `Inductive`: the journal may be one update ahead of the memory, but takes nothing back that
  the memory says (`Follows`); both are in order (`InOrder`); a final state is true of the
  network, a failure before the dispatch having been recorded while no dispatch was known
  (`Founded`); and what a call holds is still so of the memory it goes on to update (`Fits`).
- `TypeCorrect`, `SentStaysDurable`, `FailuresAreSafe`, `PaymentsAreReal`, `AnswersLast`.

`StellarDepositsProofs`, for any number of calls, quotes, payments and any page size
(`DepositsAssumption`):

- `Inductive`: in memory and journal alike, the claims and the two replay indexes say the same
  (`Indexed`), every exact payment up to the cursor has its quote funded (`Covered`), and what
  was answered is there (`Durable`); and what a scan has passed is covered by the memory it
  goes on to update, however old its page (`Fits`).
- `TypeCorrect`, `DepositsFundOnce`, `CursorSkipsNothing`, `AnswersSurvive`, and the action
  property `NothingGoesBack`.

`InvoiceIssuanceProofs`, for any number of requests, keys, identifiers and bodies, any
configurations that a process accepts and any clocks (`IssuanceAssumption`;
`NothingAssumption`: the value for *no row* is none of the rows):

- `RoutesNormalized` and `RoutesStay`: normalising a configuration's routes gives routes that
  are normalised to themselves, with the settlement destination beside them or not.
  `RebuiltAsIssued` follows: the stored request of an order is rebuilt as it was issued, and
  nothing of it is rejected, whether the invoice has been paid since or not.
- `Inductive`: a stored key holds one order, with the invoice, the request and the routes of
  that order (`Placed`), and an identifier not taken has no rows (`Tables`); the row a call has
  read is a version of a placed order's (`RowFits`), so the routes it reads later are the ones
  issued with it; a transaction that holds a key has found it free, and it still is
  (`Transacts`), because no two transactions hold one key or one identifier (`Apart`).
- `TypeCorrect`, `RecordsStayValid`, and `PromiseKept`: every step is a step of `IssueOnce` or
  is not seen there. A commit issues, even after its request was given up; a match of other
  terms, a read of routes and the answer to a commit answer or read; what gives up fails.

`ProofReservationProofs`, for any number of concurrent observers and payments, any proofs,
keysets and versions of the mint (`KeysetAssumption`, `ReservationAssumption`; `RowsAssumption`
and `ReservationRowsAssumption`: *no row* is none of the rows):

- `Inductive`: where a call is and what it carries (`CallsFit`), which rows its transaction has
  and that nobody else has them (`Locking`), what stored observations say of the identities
  (`ObservationsFit`), and what reservations say of the observations they name
  (`ReservationsFit`).
- `TypeCorrect`, and `EvidenceAlwaysStands`, for any invoice amounts and final expiries: the
  snapshot that a dispatch asks for is the one the payment was validated with, so its fee and
  its end are those of the validation.
- `NeverACycle`: a transaction takes identities, and proofs, in ascending order. Whoever waits
  wants a row higher than those of its kind it holds. Whoever waits for the row of a payment
  or an invoice waits for a transaction already at its proofs, and the waits of observers and
  of transactions at their proofs stay among themselves: along a circle the wanted rows would
  ascend for ever, but a finite set of them has a largest one. The lemmas on ranks say which
  row comes next.
- `EscrowImplemented`: the statements of a reservation are one step of `PaymentEscrow`, the
  commit; the others are not seen there.

`MerchantLedgerProofs`, for every amount, fee, account and time (`LedgerAssumption`; the bound
on amounts is any positive number):

- `AcceptedPaymentsBalance`: a payment that `acceptInvoicePaymentV1` lets through always has a
  journal entry that `createJournalEntryV1` accepts.
- `BookedPaymentsAreStored`: the CHECKs and the deferred trigger accept the rows of every
  payment the acquirer books; otherwise a payment that the mint has made would be stuck at
  its last step.
- `StoredPaymentsAreCreated`: conversely, the database lets no other postings commit with a
  journal row than those the domain creates for it.

The lemmas under them say which parts an entry has and what its sides add up to. No run names
these three as properties: they are about functions, which `issuance` evaluates on small
inputs.

Only model-checked: liveness (`NoJobForgotten`, `PaidIsLearned`, `DepositIsCredited`,
`EveryCallEnds`), which the prover does not handle under fairness. `PaymentEscrow` and
`IssueOnce` state safety only, so the refinements are proved in full.

## 6. Finding

`same_second` refutes `LaterQuotesKeepRecovery`. ADR-0020 (line 47) says that "later quote
checks remain append-only and can advance without invalidating lifecycle recovery". Every
load of a dispatched payment re-checks its quote evidence: the last observation with
`observedAt <= startedAt` must be UNPAID (`assertMeltQuoteEvidence`, line 1640 of the
lifecycle repository). Timestamps are whole seconds, and an answer observed *in* the second
of the effect's start is accepted and stored. When that answer is PENDING or PAID it becomes
the evidence the start is judged by, and every later read, transition, recovery and release
of the payment fails with `invalid_record`. In the trace, the clock first leaves the second
of the stored UNPAID observation, since a new observation has to be later than the last;
start, answer and observation then share second 1. The other runs of `MeltPayment` include these
histories: safety holds in them, since an unreadable payment keeps its claims.

## 7. Not modelled, and what comes next

Not modelled, and why:

- *Cryptography* (custody ciphers, envelope keys): authenticated encryption is not something
  TLC or TLAPS can say anything about; that a bundle is there when it is needed is modelled.
- *Codecs and HTTP clients*: no state of their own. Of a request the models keep that it is
  answered, refused, late or lost.
- *Stellar profile, SEP-0007 requests and amounts*: parsing and formatting.
- *The melt quote creation client*: no code composes it with the attempts repository yet; the
  durable side (`BeginQuote`, `RecordQuote`, `RecordAmbiguous`) is in `MeltLifecycle`.
- *Expiring and cancelling invoices, the uniqueness of a journal batch*: exported by the
  domain package and called by nothing.
- *The note-swap effect*: the schema knows it, no coordinator starts it.
- *The migration machinery, application wiring, the merchant console.*
- *Starvation between recovery jobs* and *skewed clocks* of a payment's callers: listed as
  hazards without a property. The first takes jobs of several payments at the attempt limit,
  whose product with the workers is beyond TLC here; clocks agree by
  `docs/recovery-operations.md`.

Next, in this order:

1. Composition of `RecoveryJobs` with `MeltLifecycle`, so that a worker's result and the
   lifecycle it reads are the record's; then starvation between the jobs of several payments.
2. The quote creation client, once it is composed; the cent and stroop conversions.
