-------------------------- MODULE InvoiceIssuance --------------------------
(***************************************************************************)
(* The invoices of the acquirer: concurrent POST requests that issue an    *)
(* invoice under an idempotency key, GET requests that read one, and the   *)
(* database they share.                                                    *)
(*                                                                         *)
(* A request is one call.  Its process has a configuration of its own, so  *)
(* processes of different deployments serve the same key, and its clock is *)
(* not synchronised.  A call works statement by statement, and what it has *)
(* not committed keeps others waiting.  It may end without an answer at    *)
(* any time: its process dies, a statement times out or fails, or the      *)
(* connection is lost.  The database then ends its transaction some time,  *)
(* with the commit if that was asked for.                                  *)
(*                                                                         *)
(* A definition that stands directly before the one it resembles and is    *)
(* used nowhere is a defect of it; the runs show that a property sees it.  *)
(***************************************************************************)
EXTENDS MerchantLedger

CONSTANTS
    Calls,          \* HTTP requests, each made once
    Keys,           \* a merchant with an idempotency key of its requests
    MerchantOf,     \* the merchant of a key
    Ids,            \* invoice identifiers the processes generate
    Bodies,         \* what requests ask for: amount and expiry
    Deployments,    \* configurations of processes
    Config,         \* their routes, settlement destination and transport URL
    Times,          \* readings of the processes' clocks
    IdAttempts,     \* identifiers a request tries, INVOICE_ID_ATTEMPTS
    Nothing         \* no row, no answer

ASSUME IssuanceAssumption ==
    /\ Times \subseteq Nat /\ IdAttempts \in Nat \ {0}
    /\ \A b \in Bodies : b.amount \in 1..MaxAmount /\ b.expiresAt \in Nat
    /\ \A d \in Deployments : Config[d].routes \in Seq(Route) /\ Issuable(Config[d].routes)

VARIABLES
    creations,      \* invoice_creation_requests, by key
    invoices,       \* merchant_invoices, by id
    requests,       \* invoice_cashu_requests, by id
    routes,         \* invoice_cashu_request_operators, by id
    call            \* the state of each call

db   == <<creations, invoices, requests, routes>>
vars == <<db, call>>

Empty == [i \in Ids |-> Nothing]
Issued(x)  == [kind |-> "issued", artifact |-> x]
Refused(k) == [kind |-> k, artifact |-> Nothing]

Idle ==
    [op |-> "none", pc |-> "idle", key |-> Nothing, id |-> Nothing, body |-> Nothing,
     at |-> Nothing, now |-> Nothing, tries |-> 0, row |-> Nothing, tx |-> "none",
     answer |-> Refused("none")]

Init ==
    /\ creations = [k \in Keys |-> Nothing]
    /\ invoices = Empty /\ requests = Empty /\ routes = Empty
    /\ call = [c \in Calls |-> Idle]

-----------------------------------------------------------------------------
(* What a call asks for, reads and writes                                  *)

Terms == {[amount |-> b.amount, expiresAt |-> b.expiresAt, destination |-> Config[d].destination] :
             b \in Bodies, d \in Deployments}

\* What the request fingerprint covers: not the routes, and not the transport.
TermsOf(l) == [amount |-> l.body.amount, expiresAt |-> l.body.expiresAt,
               destination |-> Config[l.at].destination]

\* findCreationRow: creation, invoice and request joined in one statement.
RowOf(k) ==
    IF creations[k] = Nothing \/ invoices[creations[k].id] = Nothing THEN Nothing
    ELSE [terms |-> creations[k].terms, invoice |-> invoices[creations[k].id],
          request |-> requests[creations[k].id]]

OpenRowOf(id, merchant) ==
    IF invoices[id] = Nothing \/ invoices[id].merchant # merchant \/ invoices[id].paidAt # Nothing
    THEN Nothing
    ELSE [terms |-> Nothing, invoice |-> invoices[id], request |-> requests[id]]

LegibleOpen(i) == ValidInvoice(i) /\ i.paidAt = Nothing
Legible(i) ==
    /\ ValidInvoice(i)
    /\ i.paidAt # Nothing => AcceptedInTime(i, i.paidAt)

\* The answer to a row and the routes read after it: the invoice as issued.
Artifact(i, request) == [merchant |-> i.merchant, request |-> request]
Answer(row, rows) ==
    IF row.request # Nothing /\ rows # Nothing
       /\ Legible(row.invoice) /\ Rebuildable(row.invoice, row.request, rows)
    THEN Issued(Artifact(row.invoice, Rebuilt(row.invoice, row.request, rows)))
    ELSE Refused("invalid")

\* A process normalises its routes once, when it starts.
AcceptedRoutes == [d \in Deployments |-> NormalizeRoutes(Config[d].routes)]

NewInvoice(l) ==
    [id |-> l.id, merchant |-> MerchantOf[l.key], amount |-> l.body.amount,
     createdAt |-> l.now, expiresAt |-> l.body.expiresAt, paidAt |-> Nothing]
NewRequest(l) ==
    Request(NewInvoice(l), l.now, AcceptedRoutes[l.at], Config[l.at].transport)

\* validateCashuPaymentRequest: what is to be stored is issued again first.
AgainAccepted == [d \in Deployments |-> Renormalize(AcceptedRoutes[d])]
Storable(l)   == MayIssue(NewInvoice(l), l.now) /\ AgainAccepted[l.at] = AcceptedRoutes[l.at]

\* What is stored of an invoice, besides the invoice.
Creation(l)      == [id |-> l.id, terms |-> TermsOf(l)]
StoredRequest(l) == RequestRow(NewInvoice(l), NewRequest(l), Config[l.at].destination)
StoredRoutes(l)  == RouteRows(NewRequest(l), Config[l.at].destination)

\* Nothing is none of the rows of an order that a process may place, paid at t
\* or not, none of their joins, and nothing that is said of them below.
Order == [key : Keys, id : Ids, body : Bodies, at : Deployments, now : Times]
Joined(o, t, terms) ==
    [terms |-> terms, invoice |-> [NewInvoice(o) EXCEPT !.paidAt = t], request |-> StoredRequest(o)]
ASSUME NothingAssumption ==
    /\ \A k \in Keys, terms \in Terms : [key |-> k, terms |-> terms] # Nothing
    /\ \A o \in Order, t \in Times \cup {Nothing} :
        /\ Creation(o) # Nothing /\ [NewInvoice(o) EXCEPT !.paidAt = t] # Nothing
        /\ StoredRequest(o) # Nothing /\ StoredRoutes(o) # Nothing
        /\ Joined(o, t, TermsOf(o)) # Nothing /\ Joined(o, t, Nothing) # Nothing
        /\ [terms |-> TermsOf(o), artifact |-> Artifact(NewInvoice(o), NewRequest(o))] # Nothing

To(c, l)      == call' = [call EXCEPT ![c] = l]
Ends(c, a)    == To(c, [call[c] EXCEPT !.pc = "ended", !.answer = a, !.row = Nothing])
HoldsKey(c)   == call[c].tx \in {"key", "id", "commit"}
HoldsIdLate(c) == call[c].tx = "commit"
HoldsId(c)    == call[c].tx \in {"id", "commit"}
Taken(id)     == \E k \in Keys : creations[k] # Nothing /\ creations[k].id = id

-----------------------------------------------------------------------------
(* The requests                                                            *)

Create(c, k, b, d) ==
    /\ call[c].pc = "idle"
    /\ To(c, [Idle EXCEPT !.op = "create", !.pc = "lookup", !.key = k, !.body = b, !.at = d])
    /\ UNCHANGED db

Find(c, k, id) ==
    /\ call[c].pc = "idle"
    /\ To(c, [Idle EXCEPT !.op = "find", !.pc = "find", !.key = k, !.id = id])
    /\ UNCHANGED db

\* A row is matched with the request; its routes are read by the next statement.
Match(c, row) ==
    IF row.terms # TermsOf(call[c]) THEN Ends(c, Refused("conflict"))
    ELSE To(c, [call[c] EXCEPT !.pc = "routes", !.row = row])

Lookup(c) ==
    /\ call[c].pc = "lookup"
    /\ IF RowOf(call[c].key) = Nothing THEN To(c, [call[c] EXCEPT !.pc = "clock"])
       ELSE Match(c, RowOf(call[c].key))
    /\ UNCHANGED db

FindRow(c) ==
    LET row == OpenRowOf(call[c].id, MerchantOf[call[c].key]) IN
    /\ call[c].pc = "find"
    /\ IF row = Nothing THEN Ends(c, Refused("missing"))
       ELSE To(c, [call[c] EXCEPT !.pc = "routes", !.row = row])
    /\ UNCHANGED db

ReadRoutes(c) ==
    /\ call[c].pc = "routes"
    /\ Ends(c, Answer(call[c].row, routes[call[c].row.invoice.id]))
    /\ UNCHANGED db

\* The expiry is compared with the clock of the process.
ReadClock(c, t) ==
    /\ call[c].pc = "clock"
    /\ IF call[c].body.expiresAt > t THEN To(c, [call[c] EXCEPT !.pc = "generate", !.now = t])
       ELSE Ends(c, Refused("failed"))
    /\ UNCHANGED db

Generate(c, id) ==
    LET l == [call[c] EXCEPT !.pc = "insert", !.id = id, !.tries = @ + 1] IN
    /\ call[c].pc = "generate"
    /\ IF Storable(l) THEN To(c, l) ELSE Ends(c, Refused("invalid"))
    /\ UNCHANGED db

-----------------------------------------------------------------------------
(* The transaction that issues an invoice                                  *)

\* INSERT ... ON CONFLICT (merchant_id, idempotency_key) DO NOTHING waits for
\* an uncommitted row of the key.
InsertAtOnce(c) ==
    /\ call[c].pc = "insert" /\ call[c].tx = "none"
    /\ To(c, IF creations[call[c].key] # Nothing THEN [call[c] EXCEPT !.pc = "replay"]
             ELSE [call[c] EXCEPT !.tx = "key"])
    /\ UNCHANGED db
InsertKey(c) ==
    /\ call[c].pc = "insert" /\ call[c].tx = "none"
    /\ \A d \in Calls : HoldsKey(d) => call[d].key # call[c].key
    /\ To(c, IF creations[call[c].key] # Nothing THEN [call[c] EXCEPT !.pc = "replay"]
             ELSE [call[c] EXCEPT !.tx = "key"])
    /\ UNCHANGED db

Replay(c) ==
    /\ call[c].pc = "replay"
    /\ IF RowOf(call[c].key) = Nothing THEN Ends(c, Refused("invalid")) ELSE Match(c, RowOf(call[c].key))
    /\ UNCHANGED db

\* The same row is unique in its invoice id.  A taken id rolls back, and the
\* request begins again with another one.
InsertId(c) ==
    LET l == call[c] IN
    /\ l.pc = "insert" /\ l.tx = "key"
    /\ \A d \in Calls : HoldsId(d) => call[d].id # l.id
    /\ IF ~Taken(l.id) THEN To(c, [l EXCEPT !.tx = "id"])
       ELSE IF l.tries < IdAttempts THEN To(c, [l EXCEPT !.pc = "generate", !.tx = "none"])
       ELSE To(c, [l EXCEPT !.pc = "ended", !.answer = Refused("failed"), !.tx = "none"])
    /\ UNCHANGED db

\* The invoice, its request and its routes are inserted, and COMMIT is sent.
InsertRows(c) ==
    /\ call[c].pc = "insert" /\ call[c].tx = "id"
    /\ To(c, [call[c] EXCEPT !.tx = "commit"])
    /\ UNCHANGED db

\* The commit of the database, whether or not the call still waits for it.
Commit(c) ==
    LET l == call[c] IN
    /\ l.tx = "commit"
    /\ creations' = [creations EXCEPT ![l.key] = Creation(l)]
    /\ invoices'  = [invoices EXCEPT ![l.id] = NewInvoice(l)]
    /\ requests'  = [requests EXCEPT ![l.id] = StoredRequest(l)]
    /\ routes'    = [routes EXCEPT ![l.id] = StoredRoutes(l)]
    /\ To(c, [l EXCEPT !.tx = "committed"])

Receive(c) ==
    /\ call[c].pc = "insert" /\ call[c].tx = "committed"
    /\ Ends(c, Issued(Artifact(NewInvoice(call[c]), NewRequest(call[c]))))
    /\ UNCHANGED db

\* A transaction that ends without COMMIT is rolled back.
AbortLastOnly(c) ==
    /\ call[c].pc = "ended" /\ call[c].tx = "commit"
    /\ To(c, [call[c] EXCEPT !.tx = "none"])
    /\ UNCHANGED db
Abort(c) ==
    /\ call[c].pc = "ended" /\ call[c].tx \in {"key", "id", "commit"}
    /\ To(c, [call[c] EXCEPT !.tx = "none"])
    /\ UNCHANGED db

GiveUp(c) ==
    /\ call[c].pc \notin {"idle", "ended"}
    /\ Ends(c, Refused("failed"))
    /\ UNCHANGED db

-----------------------------------------------------------------------------
(* The surroundings                                                        *)

\* A payment by a route that is converted is accepted within the invoice's
\* window; the update guard lets nothing but the payment change an invoice.
Pay(id, u, t) ==
    /\ invoices[id] # Nothing /\ invoices[id].paidAt = Nothing
    /\ u \in DOMAIN routes[id] /\ routes[id][u].mode = "immediate_conversion"
    /\ AcceptedInTime(invoices[id], t)
    /\ invoices' = [invoices EXCEPT ![id].paidAt = t]
    /\ UNCHANGED <<creations, requests, routes, call>>

Step(c) ==
    \/ Lookup(c) \/ FindRow(c) \/ ReadRoutes(c)
    \/ \E t \in Times : ReadClock(c, t)
    \/ \E id \in Ids : Generate(c, id)
    \/ InsertKey(c) \/ Replay(c) \/ InsertId(c) \/ InsertRows(c) \/ Receive(c)

Next ==
    \/ \E c \in Calls :
          \/ \E k \in Keys, b \in Bodies, d \in Deployments : Create(c, k, b, d)
          \/ \E k \in Keys, id \in Ids : Find(c, k, id)
          \/ Step(c) \/ Commit(c) \/ Abort(c) \/ GiveUp(c)
    \/ \E id \in Ids, u \in Urls, t \in Times : Pay(id, u, t)

Spec == Init /\ [][Next]_vars

\* A call that lives goes on, and the database ends every transaction: its
\* statement, idle and lock timeouts are seconds.  One condition for both, since
\* no statement of a call can be taken while its transaction can be ended.
Fairness == \A c \in Calls : WF_vars(Step(c) \/ Commit(c) \/ Abort(c))

FairSpec == Spec /\ Fairness

-----------------------------------------------------------------------------
(* Properties                                                              *)

\* Every variable holds a value of its type, the tables refer to each other as
\* their foreign keys and deferred triggers demand, and no two keys share an
\* invoice.
TypeOK ==
    /\ \A k \in Keys : creations[k] # Nothing =>
          /\ creations[k].terms \in Terms /\ creations[k].id \in Ids
          /\ invoices[creations[k].id].merchant = MerchantOf[k]
          /\ \A j \in Keys \ {k} : creations[j] # Nothing => creations[j].id # creations[k].id
    /\ \A id \in Ids :
          /\ (invoices[id] = Nothing) = (requests[id] = Nothing)
          /\ (invoices[id] = Nothing) = (routes[id] = Nothing)
          /\ invoices[id] # Nothing => Taken(id) /\ DOMAIN routes[id] = requests[id].encoded.mints
    /\ \A c \in Calls :
          /\ call[c].tx \in {"none", "key", "id", "commit", "committed"}
          /\ call[c].tries \in 0..IdAttempts
          /\ (call[c].pc = "ended") = (call[c].answer.kind # "none")

\* reconstructStoredCashuPaymentRequest never meets a record it rejects:
\* whatever the routes of the process that issued and of the one that reads,
\* however the two statements of a read fall between the writes, and whether or
\* not the invoice has been paid since.
NoInvalidRecord == \A c \in Calls : call[c].answer.kind # "invalid"

\* The fingerprint of a stored request covers all of it.
RowArtifact(row) == Artifact(row.invoice, row.request.fingerprint.request)

\* docs/invoice-api.md, idempotency: one invoice for a key.  Every answer is
\* the one invoice of its key or a refusal of other terms, over concurrent
\* requests, colliding identifiers, lost commits and processes of other
\* deployments; what a GET answers is an issued invoice as it was issued.
IdOf(artifact) == artifact.request.encoded.id
AskedBy(l)  == IF l.op = "create" THEN [key |-> l.key, terms |-> TermsOf(l)] ELSE Nothing
Shown(l)    == IF l.op = "find" /\ l.answer.kind \in {"missing", "failed"} THEN Refused("none")
               ELSE l.answer
IssuedTo(k) == IF creations[k] = Nothing THEN Nothing
               ELSE [terms |-> creations[k].terms, artifact |-> RowArtifact(RowOf(k))]

asked    == [c \in Calls |-> AskedBy(call[c])]
issued   == [k \in Keys |-> IssuedTo(k)]
answered == [c \in Calls |-> Shown(call[c])]

Abstract == INSTANCE IssueOnce

ImplementsIssueOnce == Abstract!Spec

\* Every request is answered or given up: nobody waits for ever on a key or an
\* id that another transaction holds, and no request looks for an id for ever.
\* A call is made once, so in the end all that were made have ended.
EveryCallEnds == <>[](\A c \in Calls : call[c].pc \in {"idle", "ended"})

=============================================================================
