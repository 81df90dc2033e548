-------------------------- MODULE PaymentRequests --------------------------
(***************************************************************************)
(* Merchant invoices and the Cashu payment requests issued with them: the  *)
(* operator policy, the routes a process is configured with, the encoded   *)
(* request, and the rebuilding of a request from its stored rows.          *)
(*                                                                         *)
(* Accepted routes are sorted by mint URL and no two have the same, so     *)
(* they are a function from mint URLs.  A hash is the record it covers.    *)
(***************************************************************************)
EXTENDS Integers, Sequences

CONSTANTS
    Operators,        \* operator identifiers
    Urls,             \* spellings of mint URLs
    CanonicalUrl      \* normalizeMintUrl: the spelling all spellings of a mint share

ASSUME UrlsAssumption ==
    /\ CanonicalUrl \in [Urls -> Urls]
    /\ \A u \in Urls : CanonicalUrl[CanonicalUrl[u]] = CanonicalUrl[u]

Tiers  == {"trusted", "convertible", "unlisted"}
Modes  == {"trusted_hold", "immediate_conversion"}
NoMode == "default"
Route  == [operator : Operators, url : Urls, tier : Tiers, mode : Modes \cup {NoMode}]

-----------------------------------------------------------------------------
(* The operator policy                                                     *)

Accepted(tier) == tier # "unlisted"

Mode(tier, requested) ==
    IF tier = "convertible" THEN "immediate_conversion"
    ELSE IF requested = NoMode THEN "trusted_hold" ELSE requested

Reason(tier) == IF tier = "convertible" THEN "conversion_required" ELSE "trusted_operator"

\* A route set that may be issued: not empty, no operator and no mint twice,
\* every operator accepted.
Issuable(routes) ==
    /\ routes # <<>>
    /\ \A i, j \in DOMAIN routes :
          i # j => /\ routes[i].operator # routes[j].operator
                   /\ CanonicalUrl[routes[i].url] # CanonicalUrl[routes[j].url]
    /\ \A i \in DOMAIN routes : Accepted(routes[i].tier)

NormalizeRoutes(routes) ==
    [u \in {CanonicalUrl[routes[i].url] : i \in DOMAIN routes} |->
        LET r == routes[CHOOSE i \in DOMAIN routes : CanonicalUrl[routes[i].url] = u]
        IN  [operator |-> r.operator, tier |-> r.tier,
             mode |-> Mode(r.tier, r.mode), reason |-> Reason(r.tier)]]

\* The same for routes read from the database, whose mint URLs are distinct.
Renormalizable(rows) ==
    /\ DOMAIN rows # {}
    /\ \A u, v \in DOMAIN rows :
          u # v => /\ rows[u].operator # rows[v].operator
                   /\ CanonicalUrl[u] # CanonicalUrl[v]
    /\ \A u \in DOMAIN rows : Accepted(rows[u].tier)

Renormalize(rows) ==
    [u \in {CanonicalUrl[v] : v \in DOMAIN rows} |->
        LET r == rows[CHOOSE v \in DOMAIN rows : CanonicalUrl[v] = u]
        IN  [operator |-> r.operator, tier |-> r.tier,
             mode |-> Mode(r.tier, r.mode), reason |-> Reason(r.tier)]]

-----------------------------------------------------------------------------
(* Invoices and payment requests                                           *)

ValidInvoice(i) == i.amount > 0 /\ i.expiresAt > i.createdAt

\* What the encoded NUT-18 request carries.
Encoded(i, routes, transport) ==
    [id |-> i.id, amount |-> i.amount, mints |-> DOMAIN routes, transport |-> transport]

Request(i, issuedAt, routes, transport) ==
    [encoded |-> Encoded(i, routes, transport), issuedAt |-> issuedAt,
     expiresAt |-> i.expiresAt, operators |-> routes, transport |-> transport]

MayIssue(i, issuedAt) ==
    ValidInvoice(i) /\ issuedAt >= i.createdAt /\ issuedAt < i.expiresAt

RouteSetFingerprint(i, request, destination) ==
    [merchant |-> i.merchant, request |-> request, destination |-> destination]

\* The rows of a request: its own, and one for each route, which carries the
\* settlement destination.
RequestRow(i, request, destination) ==
    [encoded |-> request.encoded, issuedAt |-> request.issuedAt,
     transport |-> request.transport,
     fingerprint |-> RouteSetFingerprint(i, request, destination)]

RouteRows(request, destination) ==
    [u \in DOMAIN request.operators |->
        [operator |-> request.operators[u].operator, tier |-> request.operators[u].tier,
         mode |-> request.operators[u].mode, reason |-> request.operators[u].reason,
         destination |-> destination]]

\* The stored request is issued a second time, from the invoice and the routes
\* as they are stored, and must come out the same.
Rebuilt(i, row, rows) == Request(i, row.issuedAt, Renormalize(rows), row.transport)

Rebuildable(i, row, rows) ==
    /\ Renormalizable(rows)
    /\ row.issuedAt = i.createdAt /\ MayIssue(i, row.issuedAt)
    /\ Rebuilt(i, row, rows).encoded = row.encoded
    /\ \E d \in {rows[u].destination : u \in DOMAIN rows} :
          /\ \A u \in DOMAIN rows : rows[u].destination = d
          /\ row.fingerprint = RouteSetFingerprint(i, Rebuilt(i, row, rows), d)
          /\ rows = RouteRows(Rebuilt(i, row, rows), d)

=============================================================================
