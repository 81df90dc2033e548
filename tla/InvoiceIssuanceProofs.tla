------------------------ MODULE InvoiceIssuanceProofs ------------------------
(***************************************************************************)
(* Theorems about the issuance of invoices: whatever the requests, the     *)
(* configurations of the processes, their clocks and the identifiers they  *)
(* generate, a key gets one invoice, and every stored record is read back  *)
(* as it was issued.                                                       *)
(***************************************************************************)
EXTENDS InvoiceIssuance, TLAPS

-----------------------------------------------------------------------------
(* The inductive invariant                                                 *)

\* An order that a clock let pass, and its invoice as it may stand later.
Timely(o)   == o \in Order /\ o.body.expiresAt > o.now
Windows(o)  == {t \in Times : AcceptedInTime(NewInvoice(o), t)} \cup {Nothing}
Versions(o) == {[NewInvoice(o) EXCEPT !.paidAt = t] : t \in Windows(o)}

\* The four tables hold the order of a key.
Placed(k, o) ==
    /\ Timely(o) /\ o.key = k
    /\ creations[k] = Creation(o)
    /\ invoices[o.id] \in Versions(o)
    /\ requests[o.id] = StoredRequest(o)
    /\ routes[o.id] = StoredRoutes(o)

Tables ==
    /\ DOMAIN creations = Keys
    /\ DOMAIN invoices = Ids /\ DOMAIN requests = Ids /\ DOMAIN routes = Ids
    /\ \A k \in Keys : creations[k] # Nothing => \E o \in Order : Placed(k, o)
    /\ \A j, k \in Keys : j # k /\ creations[j] # Nothing /\ creations[k] # Nothing
                            => creations[j].id # creations[k].id
    /\ \A id \in Ids : Taken(id) \/ /\ invoices[id] = Nothing
                                    /\ requests[id] = Nothing /\ routes[id] = Nothing

\* What a call asks for, as an order.
OrderOf(l) == [key |-> l.key, id |-> l.id, body |-> l.body, at |-> l.at, now |-> l.now]

Asked(l) ==
    /\ DOMAIN l = DOMAIN Idle
    /\ l.op = "none" => l = Idle
    /\ l.op = "create" => l.key \in Keys /\ l.body \in Bodies /\ l.at \in Deployments
    /\ l.op = "find" => l.key \in Keys /\ l.id \in Ids

InPlace(l) ==
    \/ l.op = "none"
    \/ l.op = "find" /\ l.tx = "none" /\ l.pc \in {"find", "routes", "ended"}
    \/ /\ l.op = "create"
       /\ l.pc \in {"lookup", "clock", "generate", "insert", "replay", "routes", "ended"}
       /\ l.tx \in {"none", "key", "id", "commit", "committed"}
       /\ l.tx # "none" => l.pc \in {"insert", "ended"}

Ready(l) ==
    /\ l.tries \in 0..IdAttempts
    /\ l.pc \in {"lookup", "clock"} => l.tries = 0
    /\ l.pc = "generate" =>
          l.tries < IdAttempts /\ l.now \in Times /\ l.body.expiresAt > l.now
    /\ l.pc = "insert" \/ l.tx # "none" => Timely(OrderOf(l))

\* How a call stands to the tables.
RowFits(l) ==
    l.pc = "routes" =>
       \E o \in Order :
          /\ Placed(o.key, o)
          /\ l.row.invoice \in Versions(o) /\ l.row.request = StoredRequest(o)
          /\ l.op = "create" => o.key = l.key /\ TermsOf(o) = TermsOf(l)

Transacts(l) ==
    /\ l.pc = "replay" => creations[l.key] # Nothing
    /\ l.tx \in {"key", "id", "commit"} => creations[l.key] = Nothing
    /\ l.tx \in {"id", "commit"} => ~Taken(l.id)
    /\ l.tx = "committed" => Placed(l.key, OrderOf(l))

Answered(l) ==
    /\ l.pc # "ended" => l.answer = Refused("none")
    /\ l.pc = "ended" => l.answer.kind \in {"issued", "conflict", "missing", "failed"}
    /\ l.tx \in {"key", "id", "commit"} => l.answer.kind \in {"none", "failed"}

Fits(l) ==
    Asked(l) /\ InPlace(l) /\ Ready(l) /\ RowFits(l) /\ Transacts(l) /\ Answered(l)

\* No two transactions hold a key or an identifier.
Apart ==
    \A c, d \in Calls : c # d =>
        /\ HoldsKey(c) /\ HoldsKey(d) => call[c].key # call[d].key
        /\ HoldsId(c) /\ HoldsId(d) => call[c].id # call[d].id

IInv ==
    /\ Tables
    /\ DOMAIN call = Calls
    /\ \A c \in Calls : Fits(call[c])
    /\ Apart

-----------------------------------------------------------------------------
(* What is stored is rebuilt                                               *)

\* What a configuration is normalised to.
Normal(R) ==
    /\ R = [u \in DOMAIN R |-> R[u]]
    /\ DOMAIN R # {}
    /\ \A u \in DOMAIN R :
          /\ CanonicalUrl[u] = u
          /\ Accepted(R[u].tier)
          /\ R[u] = [operator |-> R[u].operator, tier |-> R[u].tier,
                     mode |-> Mode(R[u].tier, R[u].mode), reason |-> Reason(R[u].tier)]
    /\ \A u, v \in DOMAIN R : u # v => R[u].operator # R[v].operator

\* The policy's decision about a route, which it takes the same way again.
Decided(r) == [operator |-> r.operator, tier |-> r.tier,
               mode |-> Mode(r.tier, r.mode), reason |-> Reason(r.tier)]

LEMMA ModeDecided ==
    ASSUME NEW tier, NEW requested
    PROVE  Mode(tier, Mode(tier, requested)) = Mode(tier, requested)
  BY DEF Mode, NoMode

LEMMA DecidedOnce ==
    ASSUME NEW r, NEW s, s = Decided(r)
    PROVE  /\ s.operator = r.operator /\ s.tier = r.tier
           /\ s = [operator |-> s.operator, tier |-> s.tier,
                   mode |-> Mode(s.tier, s.mode), reason |-> Reason(s.tier)]
  BY ModeDecided DEF Decided

LEMMA RoutesNormalized ==
    ASSUME NEW R \in Seq(Route), Issuable(R)
    PROVE  Normal(NormalizeRoutes(R))
<1> DEFINE At(u) == CHOOSE i \in DOMAIN R : CanonicalUrl[R[i].url] = u
           D == {CanonicalUrl[R[i].url] : i \in DOMAIN R}
           N == [u \in D |-> Decided(R[At(u)])]
<1>1. \A i \in DOMAIN R : R[i] \in Route
  OBVIOUS
<1>2. \A i \in DOMAIN R : R[i].url \in Urls
  BY <1>1 DEF Route
<1>3. NormalizeRoutes(R) = N
  BY DEF NormalizeRoutes, Decided
<1>4. ASSUME NEW u \in D
      PROVE  At(u) \in DOMAIN R /\ CanonicalUrl[R[At(u)].url] = u
  OBVIOUS
<1>5. D # {}
  BY DEF Issuable
<1> HIDE DEF At, D
<1>6. N = [u \in DOMAIN N |-> N[u]] /\ DOMAIN N = D
  OBVIOUS
<1>7. ASSUME NEW u \in D
      PROVE  /\ CanonicalUrl[u] = u
             /\ Accepted(N[u].tier)
             /\ N[u] = [operator |-> N[u].operator, tier |-> N[u].tier,
                        mode |-> Mode(N[u].tier, N[u].mode), reason |-> Reason(N[u].tier)]
  <2>1. CanonicalUrl[CanonicalUrl[R[At(u)].url]] = CanonicalUrl[R[At(u)].url]
    BY <1>2, <1>4, UrlsAssumption
  <2>2. Accepted(R[At(u)].tier)
    BY <1>4 DEF Issuable
  <2>3. N[u] = Decided(R[At(u)])
    OBVIOUS
  <2> HIDE DEF N
  <2> QED
    BY <1>4, <2>1, <2>2, <2>3, DecidedOnce
<1>8. ASSUME NEW u \in D, NEW v \in D, u # v
      PROVE  N[u].operator # N[v].operator
  <2>1. At(u) \in DOMAIN R /\ At(v) \in DOMAIN R /\ At(u) # At(v)
    BY <1>4, <1>8
  <2>2. R[At(u)].operator # R[At(v)].operator
    BY <2>1 DEF Issuable
  <2>3. N[u] = Decided(R[At(u)]) /\ N[v] = Decided(R[At(v)])
    OBVIOUS
  <2> HIDE DEF N
  <2> QED
    BY <2>2, <2>3, DecidedOnce
<1> HIDE DEF N
<1> QED
  BY <1>3, <1>5, <1>6, <1>7, <1>8 DEF Normal

\* Routes normalised once stay the same, with the destination beside them or
\* without.
LEMMA RoutesStay ==
    ASSUME NEW R, Normal(R), NEW rows, DOMAIN rows = DOMAIN R,
           \A u \in DOMAIN R : /\ rows[u].operator = R[u].operator
                               /\ rows[u].tier = R[u].tier
                               /\ rows[u].mode = R[u].mode
    PROVE  Renormalizable(rows) /\ Renormalize(rows) = R
<1> DEFINE D == DOMAIN R
           At(u) == CHOOSE v \in D : CanonicalUrl[v] = u
<1>1. {CanonicalUrl[v] : v \in D} = D
  <2>1. \A u \in D : CanonicalUrl[u] = u
    BY DEF Normal
  <2> HIDE DEF D
  <2> QED
    BY <2>1
<1>2. ASSUME NEW u \in D
      PROVE  At(u) = u
  <2>1. CanonicalUrl[u] = u
    BY DEF Normal
  <2>2. At(u) \in D /\ CanonicalUrl[At(u)] = u
    BY <2>1
  <2> HIDE DEF At
  <2> QED
    BY <2>2 DEF Normal
<1>3. ASSUME NEW u \in D
      PROVE  Decided(rows[u]) = R[u]
  BY DEF Normal, Decided
<1>4. Renormalize(rows) = [u \in {CanonicalUrl[v] : v \in D} |-> Decided(rows[At(u)])]
  BY DEF Renormalize, Decided
<1>5. Renormalizable(rows)
  BY DEF Renormalizable, Normal
<1> HIDE DEF At
<1>6. Renormalize(rows) = [u \in D |-> Decided(rows[At(u)])]
  BY <1>1, <1>4
<1>7. [u \in D |-> Decided(rows[At(u)])] = [u \in D |-> R[u]]
  BY <1>2, <1>3
<1> QED
  BY <1>5, <1>6, <1>7 DEF Normal

LEMMA ConfigNormal ==
    ASSUME NEW d \in Deployments
    PROVE  Normal(AcceptedRoutes[d])
  BY IssuanceAssumption, RoutesNormalized DEF AcceptedRoutes

LEMMA ConfigStorable ==
    ASSUME NEW d \in Deployments
    PROVE  AgainAccepted[d] = AcceptedRoutes[d]
<1> PICK R : R = AcceptedRoutes[d]
  OBVIOUS
<1>1. Normal(R)
  BY ConfigNormal
<1>2. Renormalize(R) = R
  BY <1>1, RoutesStay
<1> QED
  BY <1>2 DEF AgainAccepted

-----------------------------------------------------------------------------
(* Orders, and what is stored of them                                      *)

LEMMA OrderFields ==
    ASSUME NEW o \in Order
    PROVE  /\ o.key \in Keys /\ o.id \in Ids /\ o.body \in Bodies
           /\ o.at \in Deployments /\ o.now \in Times
           /\ o.now \in Nat /\ o.body.expiresAt \in Nat
           /\ o.body.amount \in Nat /\ o.body.amount > 0
<1>1. /\ o.key \in Keys /\ o.id \in Ids /\ o.body \in Bodies
      /\ o.at \in Deployments /\ o.now \in Times
  BY DEF Order
<1>2. o.body.amount \in 1..MaxAmount
  BY <1>1, IssuanceAssumption
<1>3. o.body.amount \in Nat /\ o.body.amount > 0
  BY <1>2, LedgerAssumption
<1>4. o.now \in Nat /\ o.body.expiresAt \in Nat
  BY <1>1, IssuanceAssumption
<1> QED
  BY <1>1, <1>3, <1>4

LEMMA OrderRowsThere ==
    ASSUME NEW o \in Order
    PROVE  Creation(o) # Nothing /\ StoredRequest(o) # Nothing /\ StoredRoutes(o) # Nothing
  BY NothingAssumption

LEMMA InvoiceFields ==
    ASSUME NEW o
    PROVE  LET i == NewInvoice(o) IN
           /\ DOMAIN i = {"id", "merchant", "amount", "createdAt", "expiresAt", "paidAt"}
           /\ i.id = o.id /\ i.merchant = MerchantOf[o.key] /\ i.amount = o.body.amount
           /\ i.createdAt = o.now /\ i.expiresAt = o.body.expiresAt /\ i.paidAt = Nothing
  BY DEF NewInvoice

LEMMA VersionFields ==
    ASSUME NEW o \in Order, NEW v \in Versions(o)
    PROVE  /\ v # Nothing
           /\ v.id = o.id /\ v.merchant = MerchantOf[o.key] /\ v.amount = o.body.amount
           /\ v.createdAt = o.now /\ v.expiresAt = o.body.expiresAt
           /\ v.paidAt # Nothing => AcceptedInTime(v, v.paidAt)
<1> PICK i : i = NewInvoice(o)
  OBVIOUS
<1>1. PICK t \in Windows(o) : v = [i EXCEPT !.paidAt = t]
  BY DEF Versions
<1>2. /\ DOMAIN i = {"id", "merchant", "amount", "createdAt", "expiresAt", "paidAt"}
      /\ i.id = o.id /\ i.merchant = MerchantOf[o.key] /\ i.amount = o.body.amount
      /\ i.createdAt = o.now /\ i.expiresAt = o.body.expiresAt
  BY InvoiceFields
<1>3. /\ v.id = o.id /\ v.merchant = MerchantOf[o.key] /\ v.amount = o.body.amount
      /\ v.createdAt = o.now /\ v.expiresAt = o.body.expiresAt /\ v.paidAt = t
  BY <1>1, <1>2
<1>4. v # Nothing
  BY <1>1, NothingAssumption DEF Windows
<1>5. t # Nothing => AcceptedInTime(i, t)
  BY DEF Windows
<1> QED
  BY <1>2, <1>3, <1>4, <1>5 DEF AcceptedInTime

LEMMA NewIsVersion ==
    ASSUME NEW o \in Order
    PROVE  NewInvoice(o) \in Versions(o)
<1> PICK i : i = NewInvoice(o)
  OBVIOUS
<1>1. DOMAIN i = {"id", "merchant", "amount", "createdAt", "expiresAt", "paidAt"} /\ i.paidAt = Nothing
  BY InvoiceFields
<1>2. i = [i EXCEPT !.paidAt = Nothing]
  BY <1>1 DEF NewInvoice
<1>3. Nothing \in Windows(o)
  BY DEF Windows
<1> QED
  BY <1>2, <1>3 DEF Versions

LEMMA PaidIsVersion ==
    ASSUME NEW o \in Order, NEW v \in Versions(o), NEW t \in Times, AcceptedInTime(v, t)
    PROVE  [v EXCEPT !.paidAt = t] \in Versions(o)
<1> PICK i : i = NewInvoice(o)
  OBVIOUS
<1>1. PICK s \in Windows(o) : v = [i EXCEPT !.paidAt = s]
  BY DEF Versions
<1>2. DOMAIN i = {"id", "merchant", "amount", "createdAt", "expiresAt", "paidAt"}
  BY InvoiceFields
<1>3. [v EXCEPT !.paidAt = t] = [i EXCEPT !.paidAt = t]
  BY <1>1, <1>2
<1>4. AcceptedInTime(i, t)
  BY <1>1, <1>2 DEF AcceptedInTime
<1>5. t \in Windows(o)
  BY <1>4 DEF Windows
<1> QED
  BY <1>3, <1>5 DEF Versions

\* The request as it was issued, the rows of it, and its routes.
LEMMA StoredFields ==
    ASSUME NEW o \in Order
    PROVE  LET R == AcceptedRoutes[o.at]  q == StoredRequest(o)  rows == StoredRoutes(o)
               D == Config[o.at].destination IN
           /\ q.encoded = [id |-> o.id, amount |-> o.body.amount, mints |-> DOMAIN R,
                           transport |-> Config[o.at].transport]
           /\ q.issuedAt = o.now /\ q.transport = Config[o.at].transport
           /\ q.fingerprint = [merchant |-> MerchantOf[o.key], request |-> NewRequest(o),
                               destination |-> D]
           /\ NewRequest(o) = [encoded |-> q.encoded, issuedAt |-> o.now,
                               expiresAt |-> o.body.expiresAt, operators |-> R,
                               transport |-> Config[o.at].transport]
           /\ rows = [u \in DOMAIN R |->
                        [operator |-> R[u].operator, tier |-> R[u].tier,
                         mode |-> R[u].mode, reason |-> R[u].reason, destination |-> D]]
  BY DEF StoredRequest, RequestRow, NewRequest, Request, Encoded, NewInvoice,
         RouteSetFingerprint, StoredRoutes, RouteRows

\* Whether the invoice has been paid or not, its stored request is rebuilt as it
\* was issued.
LEMMA RebuiltAsIssued ==
    ASSUME NEW o, Timely(o), NEW v \in Versions(o)
    PROVE  /\ Rebuilt(v, StoredRequest(o), StoredRoutes(o)) = NewRequest(o)
           /\ Rebuildable(v, StoredRequest(o), StoredRoutes(o))
<1> DEFINE D == Config[o.at].destination
<1>0. o \in Order /\ o.body.expiresAt > o.now
  BY DEF Timely
<1> PICK R : R = AcceptedRoutes[o.at]
  OBVIOUS
<1> PICK q : q = StoredRequest(o)
  OBVIOUS
<1> PICK rows : rows = StoredRoutes(o)
  OBVIOUS
<1> PICK n : n = NewRequest(o)
  OBVIOUS
<1>1. Normal(R)
  BY <1>0, OrderFields, ConfigNormal
<1>2. /\ q.encoded = [id |-> o.id, amount |-> o.body.amount, mints |-> DOMAIN R,
                      transport |-> Config[o.at].transport]
      /\ q.issuedAt = o.now /\ q.transport = Config[o.at].transport
      /\ q.fingerprint = [merchant |-> MerchantOf[o.key], request |-> n, destination |-> D]
      /\ n = [encoded |-> q.encoded, issuedAt |-> o.now, expiresAt |-> o.body.expiresAt,
              operators |-> R, transport |-> Config[o.at].transport]
  BY <1>0, StoredFields
<1>3. rows = [u \in DOMAIN R |->
                [operator |-> R[u].operator, tier |-> R[u].tier,
                 mode |-> R[u].mode, reason |-> R[u].reason, destination |-> D]]
  BY <1>0, StoredFields
<1>4. Renormalizable(rows) /\ Renormalize(rows) = R
  BY <1>1, <1>3, RoutesStay
<1>5. /\ v.id = o.id /\ v.merchant = MerchantOf[o.key] /\ v.amount = o.body.amount
      /\ v.createdAt = o.now /\ v.expiresAt = o.body.expiresAt
  BY <1>0, VersionFields
<1>6. Rebuilt(v, q, rows) = n
  BY <1>2, <1>4, <1>5 DEF Rebuilt, Request, Encoded
<1>7. MayIssue(v, q.issuedAt) /\ q.issuedAt = v.createdAt
  <2>1. /\ o.now \in Nat /\ o.body.expiresAt \in Nat
        /\ o.body.amount \in Nat /\ o.body.amount > 0
    BY <1>0, OrderFields
  <2> QED
    BY <2>1, <1>0, <1>2, <1>5 DEF MayIssue, ValidInvoice
<1>8. n.encoded = q.encoded
  BY <1>2
<1>9. q.fingerprint = RouteSetFingerprint(v, n, D)
  BY <1>2, <1>5 DEF RouteSetFingerprint
<1>10. rows = RouteRows(n, D)
  <2>1. n.operators = R
    BY <1>2
  <2> QED
    BY <1>3, <2>1 DEF RouteRows
<1>11. /\ D \in {rows[u].destination : u \in DOMAIN rows}
       /\ \A u \in DOMAIN rows : rows[u].destination = D
  <2>1. DOMAIN rows = DOMAIN R /\ \A u \in DOMAIN R : rows[u].destination = D
    BY <1>3
  <2>2. PICK u : u \in DOMAIN R
    BY <1>1 DEF Normal
  <2> HIDE DEF D
  <2> QED
    BY <2>1, <2>2
<1> HIDE DEF D
<1>12. Rebuildable(v, q, rows)
  BY <1>4, <1>6, <1>7, <1>8, <1>9, <1>10, <1>11 DEF Rebuildable
<1> QED
  BY <1>6, <1>12

\* A row of an order is legible, and answered with what was issued.
LEMMA OrderAnswered ==
    ASSUME NEW o, Timely(o), NEW row,
           row.invoice \in Versions(o), row.request = StoredRequest(o)
    PROVE  Answer(row, StoredRoutes(o)) = Issued(Artifact(NewInvoice(o), NewRequest(o)))
<1>0. o \in Order /\ o.body.expiresAt > o.now
  BY DEF Timely
<1> PICK v : v = row.invoice
  OBVIOUS
<1>1. /\ v.merchant = MerchantOf[o.key] /\ v.amount = o.body.amount
      /\ v.createdAt = o.now /\ v.expiresAt = o.body.expiresAt
      /\ v.paidAt # Nothing => AcceptedInTime(v, v.paidAt)
  BY <1>0, VersionFields
<1>2. Legible(v)
  <2>1. /\ o.now \in Nat /\ o.body.expiresAt \in Nat
        /\ o.body.amount \in Nat /\ o.body.amount > 0
    BY <1>0, OrderFields
  <2> QED
    BY <2>1, <1>0, <1>1 DEF Legible, ValidInvoice
<1>3. /\ Rebuilt(v, row.request, StoredRoutes(o)) = NewRequest(o)
      /\ Rebuildable(v, row.request, StoredRoutes(o))
  BY RebuiltAsIssued
<1>4. Artifact(v, NewRequest(o)) = Artifact(NewInvoice(o), NewRequest(o))
  BY <1>1, InvoiceFields DEF Artifact
<1> QED
  BY <1>0, <1>2, <1>3, <1>4, OrderRowsThere DEF Answer

-----------------------------------------------------------------------------
(* The invariant is inductive                                              *)

Fields == {"op", "pc", "key", "id", "body", "at", "now", "tries", "row", "tx", "answer"}

LEMMA IdleFields ==
    /\ DOMAIN Idle = Fields
    /\ Idle.op = "none" /\ Idle.pc = "idle" /\ Idle.tries = 0 /\ Idle.tx = "none"
    /\ Idle.answer = Refused("none")
  BY DEF Idle, Fields

LEMMA RefusedFields ==
    \A k : Refused(k).kind = k /\ Refused(k).artifact = Nothing
  BY DEF Refused

LEMMA IssuedFields ==
    \A x : Issued(x).kind = "issued" /\ Issued(x).artifact = x
  BY DEF Issued

LEMMA IdleFits == Fits(Idle)
<1>1. IdAttempts \in Nat /\ IdAttempts > 0
  BY IssuanceAssumption
<1> QED
  BY <1>1, IdleFields, RefusedFields DEF Fits, Asked, InPlace, Ready, RowFits, Transacts, Answered

LEMMA InitIInv == ASSUME Init PROVE IInv
<1>1. Tables
  BY DEF Init, Empty, Tables, Taken
<1>2. DOMAIN call = Calls /\ \A c \in Calls : call[c] = Idle
  BY DEF Init
<1>3. Apart
  BY <1>2, IdleFields DEF Apart, HoldsKey, HoldsId
<1> QED
  BY <1>1, <1>2, <1>3, IdleFits DEF IInv

\* The joined row of a stored key.
LEMMA StoredRow ==
    ASSUME Tables, NEW k \in Keys, creations[k] # Nothing
    PROVE  /\ RowOf(k) # Nothing
           /\ \E o \in Order :
                 /\ Placed(k, o)
                 /\ RowOf(k) = [terms |-> TermsOf(o), invoice |-> invoices[o.id],
                                request |-> StoredRequest(o)]
<1>1. PICK o \in Order : Placed(k, o)
  BY DEF Tables
<1>2. /\ creations[k] = Creation(o) /\ invoices[o.id] \in Versions(o)
      /\ requests[o.id] = StoredRequest(o)
  BY <1>1 DEF Placed
<1>3. creations[k].id = o.id /\ creations[k].terms = TermsOf(o)
  BY <1>2 DEF Creation
<1>4. invoices[o.id] # Nothing
  BY <1>2, VersionFields
<1>5. RowOf(k) = [terms |-> TermsOf(o), invoice |-> invoices[o.id], request |-> StoredRequest(o)]
  BY <1>2, <1>3, <1>4 DEF RowOf
<1>6. PICK t \in Windows(o) : invoices[o.id] = [NewInvoice(o) EXCEPT !.paidAt = t]
  BY <1>2 DEF Versions
<1>7. t \in Times \cup {Nothing}
  BY DEF Windows
<1>8. Joined(o, t, TermsOf(o)) # Nothing
  BY <1>7, NothingAssumption
<1>9. RowOf(k) # Nothing
  BY <1>5, <1>6, <1>8 DEF Joined
<1> QED
  BY <1>1, <1>5, <1>9

\* The joined row of an open invoice, whoever asked for it.
LEMMA OpenRow ==
    ASSUME Tables, NEW id \in Ids, NEW merchant, OpenRowOf(id, merchant) # Nothing
    PROVE  \E k \in Keys, o \in Order :
              /\ creations[k] # Nothing /\ Placed(k, o)
              /\ OpenRowOf(id, merchant) = [terms |-> Nothing, invoice |-> invoices[o.id],
                                            request |-> StoredRequest(o)]
<1>1. /\ invoices[id] # Nothing
      /\ OpenRowOf(id, merchant) = [terms |-> Nothing, invoice |-> invoices[id],
                                    request |-> requests[id]]
  BY DEF OpenRowOf
<1>2. PICK k \in Keys : creations[k] # Nothing /\ creations[k].id = id
  BY <1>1 DEF Tables, Taken
<1>3. PICK o \in Order : Placed(k, o)
  BY <1>2 DEF Tables
<1>4. o.id = id
  BY <1>2, <1>3 DEF Placed, Creation
<1>5. requests[o.id] = StoredRequest(o)
  BY <1>3 DEF Placed
<1> QED
  BY <1>1, <1>2, <1>3, <1>4, <1>5

LEMMA FitsKept ==
    ASSUME NEW m, Fits(m), UNCHANGED db
    PROVE  Fits(m)'
  BY DEF db, Fits, Asked, InPlace, Ready, RowFits, Transacts, Answered, Placed, Taken

LEMMA TablesKept ==
    ASSUME Tables, UNCHANGED db
    PROVE  Tables'
  BY DEF db, Tables, Placed, Taken

\* A step of one call that writes nothing and holds what nobody else does.
LEMMA CallStep ==
    ASSUME IInv, NEW c \in Calls, NEW m, UNCHANGED db, To(c, m), Fits(m),
           m.tx \in {"key", "id", "commit"} =>
              \A d \in Calls \ {c} : HoldsKey(d) => call[d].key # m.key,
           m.tx \in {"id", "commit"} =>
              \A d \in Calls \ {c} : HoldsId(d) => call[d].id # m.id
    PROVE  IInv'
<1>1. DOMAIN call' = Calls /\ call'[c] = m /\ \A d \in Calls \ {c} : call'[d] = call[d]
  BY DEF IInv, To
<1>2. Tables'
  BY TablesKept DEF IInv
<1>3. ASSUME NEW d \in Calls
      PROVE  Fits(call[d])'
  <2> PICK l : l = call'[d]
    OBVIOUS
  <2>1. Fits(l)
    BY <1>1 DEF IInv
  <2>2. Fits(l)'
    BY <2>1, FitsKept
  <2> QED
    BY <2>2 DEF Fits, Asked, InPlace, Ready, RowFits, Transacts, Answered
<1>4. Apart'
  BY <1>1 DEF IInv, Apart, HoldsKey, HoldsId
<1> QED
  BY <1>1, <1>2, <1>3, <1>4 DEF IInv

LEMMA QuietStep ==
    ASSUME IInv, NEW c \in Calls, NEW l, l = call[c], NEW m, UNCHANGED db, To(c, m), Fits(m),
           m.tx \in {"key", "id", "commit"} => l.tx \in {"key", "id", "commit"} /\ m.key = l.key,
           m.tx \in {"id", "commit"} => l.tx \in {"id", "commit"} /\ m.id = l.id
    PROVE  IInv'
<1>1. m.tx \in {"key", "id", "commit"} =>
         \A d \in Calls \ {c} : HoldsKey(d) => call[d].key # m.key
  BY DEF IInv, Apart, HoldsKey
<1>2. m.tx \in {"id", "commit"} =>
         \A d \in Calls \ {c} : HoldsId(d) => call[d].id # m.id
  BY DEF IInv, Apart, HoldsId
<1> QED
  BY <1>1, <1>2, CallStep

-----------------------------------------------------------------------------
(* What the steps make of a call                                           *)

Ended(l, a)   == [l EXCEPT !.pc = "ended", !.answer = a, !.row = Nothing]
Reads(l, row) == [l EXCEPT !.pc = "routes", !.row = row]

\* A call that ends.
LEMMA EndedFits ==
    ASSUME NEW l, Fits(l), l.op # "none", NEW a,
           a.kind \in {"issued", "conflict", "missing", "failed"},
           l.tx \in {"key", "id", "commit"} => a.kind = "failed",
           NEW m, m = Ended(l, a)
    PROVE  Fits(m) /\ m.tx = l.tx /\ m.key = l.key /\ m.id = l.id
<1>1. DOMAIN l = Fields
  BY IdleFields DEF Fits, Asked
<1>2. /\ DOMAIN m = Fields
      /\ m.op = l.op /\ m.key = l.key /\ m.id = l.id /\ m.body = l.body /\ m.at = l.at
      /\ m.now = l.now /\ m.tries = l.tries /\ m.tx = l.tx
      /\ m.pc = "ended" /\ m.answer = a
  BY <1>1 DEF Fields, Ended
<1>3. OrderOf(m) = OrderOf(l)
  BY <1>2 DEF OrderOf
<1>4. Asked(m) /\ InPlace(m)
  BY <1>2, IdleFields DEF Fits, Asked, InPlace
<1>5. Ready(m) /\ RowFits(m) /\ Transacts(m) /\ Answered(m)
  BY <1>2, <1>3 DEF Fits, Ready, RowFits, Transacts, Answered
<1> QED
  BY <1>2, <1>4, <1>5 DEF Fits

\* A call that goes on without a transaction, and has no row yet.
GoesOn(l, m) ==
    /\ l.op = "create" /\ l.pc \in {"lookup", "clock", "generate", "insert"}
    /\ DOMAIN m = Fields /\ m.op = "create"
    /\ m.key = l.key /\ m.body = l.body /\ m.at = l.at /\ m.answer = l.answer /\ m.tx = "none"
    /\ m.pc \in {"clock", "generate", "insert", "replay"}
    /\ m.pc = "replay" => creations[l.key] # Nothing

LEMMA GoesOnFits ==
    ASSUME NEW l, Fits(l), NEW m, GoesOn(l, m), Ready(m)
    PROVE  Fits(m)
<1>1. Asked(m) /\ InPlace(m)
  BY IdleFields DEF GoesOn, Fits, Asked, InPlace
<1>2. RowFits(m) /\ Transacts(m) /\ Answered(m)
  BY DEF GoesOn, Fits, RowFits, Transacts, Answered
<1> QED
  BY <1>1, <1>2 DEF Fits

\* A call that has a row, whose routes it reads next.
LEMMA RoutesFits ==
    ASSUME NEW l, Fits(l), l.op # "none", l.tx = "none", l.pc # "ended", NEW row,
           NEW o \in Order, Placed(o.key, o),
           row.invoice \in Versions(o), row.request = StoredRequest(o),
           l.op = "create" => o.key = l.key /\ TermsOf(o) = TermsOf(l),
           NEW m, m = Reads(l, row)
    PROVE  Fits(m) /\ m.tx = "none"
<1>1. DOMAIN l = Fields
  BY IdleFields DEF Fits, Asked
<1>2. /\ DOMAIN m = Fields
      /\ m.op = l.op /\ m.key = l.key /\ m.id = l.id /\ m.body = l.body /\ m.at = l.at
      /\ m.now = l.now /\ m.tries = l.tries /\ m.tx = l.tx /\ m.answer = l.answer
      /\ m.pc = "routes" /\ m.row = row
  BY <1>1 DEF Fields, Reads
<1>3. TermsOf(m) = TermsOf(l)
  BY <1>2 DEF TermsOf
<1>4. Asked(m) /\ InPlace(m)
  BY <1>2, IdleFields DEF Fits, Asked, InPlace
<1>5. Ready(m) /\ Transacts(m) /\ Answered(m)
  BY <1>2 DEF Fits, Ready, Transacts, Answered
<1>6. RowFits(m)
  BY <1>2, <1>3 DEF RowFits
<1> QED
  BY <1>2, <1>4, <1>5, <1>6 DEF Fits

\* A request meets the stored row of its key.
LEMMA MatchStep ==
    ASSUME IInv, NEW c \in Calls, UNCHANGED db, call[c].pc \in {"lookup", "replay"},
           creations[call[c].key] # Nothing, Match(c, RowOf(call[c].key))
    PROVE  IInv'
<1> PICK l : l = call[c]
  OBVIOUS
<1> PICK row : row = RowOf(l.key)
  OBVIOUS
<1>1. Fits(l)
  BY DEF IInv
<1>2. l.op = "create" /\ l.tx = "none" /\ l.key \in Keys
  BY <1>1, IdleFields DEF Fits, Asked, InPlace
<1>3. PICK o \in Order :
         /\ Placed(l.key, o)
         /\ row = [terms |-> TermsOf(o), invoice |-> invoices[o.id], request |-> StoredRequest(o)]
  BY <1>2, StoredRow DEF IInv
<1>4. o.key = l.key /\ invoices[o.id] \in Versions(o)
  BY <1>3 DEF Placed
<1>0. /\ l.pc # "ended"
      /\ row.terms = TermsOf(o) /\ row.invoice \in Versions(o) /\ row.request = StoredRequest(o)
  BY <1>3, <1>4
<1>5. CASE row.terms # TermsOf(l)
  <2> PICK a : a = Refused("conflict")
    OBVIOUS
  <2> PICK m : m = Ended(l, a)
    OBVIOUS
  <2>1. To(c, m)
    BY <1>5 DEF Match, Ends, Ended
  <2>2. a.kind = "conflict"
    BY RefusedFields
  <2>3. Fits(m) /\ m.tx = l.tx
    BY <1>1, <1>2, <2>2, EndedFits
  <2> QED
    BY <1>2, <2>1, <2>3, QuietStep
<1>6. CASE row.terms = TermsOf(l)
  <2> PICK m : m = Reads(l, row)
    OBVIOUS
  <2>1. To(c, m)
    BY <1>6 DEF Match, Reads
  <2>2. Fits(m) /\ m.tx = "none"
    <3>1. Placed(o.key, o) /\ (l.op = "create" => o.key = l.key /\ TermsOf(o) = TermsOf(l))
      BY <1>0, <1>3, <1>4, <1>6
    <3> QED
      BY <1>0, <1>1, <1>2, <3>1, RoutesFits
  <2> QED
    BY <2>1, <2>2, QuietStep
<1> QED
  BY <1>5, <1>6

-----------------------------------------------------------------------------
(* The actions, one by one                                                 *)

LEMMA EndStep ==
    ASSUME IInv, NEW c \in Calls, UNCHANGED db, NEW l, l = call[c], l.op # "none", NEW a,
           a.kind \in {"issued", "conflict", "missing", "failed"},
           l.tx \in {"key", "id", "commit"} => a.kind = "failed",
           Ends(c, a)
    PROVE  IInv'
<1> PICK m : m = Ended(l, a)
  OBVIOUS
<1>1. To(c, m)
  BY DEF Ends, Ended
<1>2. Fits(l)
  BY DEF IInv
<1>3. Fits(m) /\ m.tx = l.tx /\ m.key = l.key /\ m.id = l.id
  BY <1>2, EndedFits
<1> QED
  BY <1>1, <1>3, QuietStep

\* Where a call is when it may take a step.
LEMMA CallPlace ==
    ASSUME IInv, NEW c \in Calls, NEW l, l = call[c]
    PROVE  /\ Fits(l) /\ DOMAIN l = Fields
           /\ l.pc = "idle" => l = Idle
           /\ l.pc = "find" => l.op = "find" /\ l.tx = "none"
           /\ l.pc = "routes" => l.op \in {"create", "find"} /\ l.tx = "none"
           /\ l.pc \in {"lookup", "clock", "generate", "replay"} => l.op = "create" /\ l.tx = "none"
           /\ l.pc = "insert" \/ l.tx # "none" => l.op = "create"
           /\ l.pc \notin {"idle", "ended"} => l.op \in {"create", "find"}
           /\ l.op = "create" => l.key \in Keys /\ l.body \in Bodies /\ l.at \in Deployments
           /\ l.op = "find" => l.key \in Keys /\ l.id \in Ids
<1>1. Fits(l)
  BY DEF IInv
<1> QED
  BY <1>1, IdleFields DEF Fits, Asked, InPlace

LEMMA CreateKeeps ==
    ASSUME IInv, NEW c \in Calls, NEW k \in Keys, NEW b \in Bodies, NEW d \in Deployments,
           Create(c, k, b, d)
    PROVE  IInv'
<1> PICK m : m = [Idle EXCEPT !.op = "create", !.pc = "lookup", !.key = k, !.body = b, !.at = d]
  OBVIOUS
<1>1. To(c, m) /\ UNCHANGED db
  BY DEF Create
<1>2. /\ DOMAIN m = Fields
      /\ m.op = "create" /\ m.pc = "lookup" /\ m.key = k /\ m.body = b /\ m.at = d
      /\ m.tries = 0 /\ m.tx = "none" /\ m.answer = Refused("none")
  BY IdleFields DEF Fields
<1>3. IdAttempts \in Nat
  BY IssuanceAssumption
<1>4. Fits(m)
  BY <1>2, <1>3, IdleFields DEF Fits, Asked, InPlace, Ready, RowFits, Transacts, Answered
<1> QED
  BY <1>1, <1>2, <1>4, QuietStep

LEMMA FindKeeps ==
    ASSUME IInv, NEW c \in Calls, NEW k \in Keys, NEW id \in Ids, Find(c, k, id)
    PROVE  IInv'
<1> PICK m : m = [Idle EXCEPT !.op = "find", !.pc = "find", !.key = k, !.id = id]
  OBVIOUS
<1>1. To(c, m) /\ UNCHANGED db
  BY DEF Find
<1>2. /\ DOMAIN m = Fields
      /\ m.op = "find" /\ m.pc = "find" /\ m.key = k /\ m.id = id
      /\ m.tries = 0 /\ m.tx = "none" /\ m.answer = Refused("none")
  BY IdleFields DEF Fields
<1>3. IdAttempts \in Nat
  BY IssuanceAssumption
<1>4. Fits(m)
  BY <1>2, <1>3, IdleFields DEF Fits, Asked, InPlace, Ready, RowFits, Transacts, Answered
<1> QED
  BY <1>1, <1>2, <1>4, QuietStep

LEMMA NoRow ==
    ASSUME IInv, NEW k \in Keys
    PROVE  (RowOf(k) = Nothing) = (creations[k] = Nothing)
<1>1. creations[k] # Nothing => RowOf(k) # Nothing
  BY StoredRow DEF IInv
<1>2. creations[k] = Nothing => RowOf(k) = Nothing
  BY DEF RowOf
<1> QED
  BY <1>1, <1>2

LEMMA LookupKeeps ==
    ASSUME IInv, NEW c \in Calls, Lookup(c)
    PROVE  IInv'
<1> PICK l : l = call[c]
  OBVIOUS
<1>1. l.pc = "lookup" /\ UNCHANGED db
  BY DEF Lookup
<1>2. Fits(l) /\ DOMAIN l = Fields /\ l.op = "create" /\ l.tx = "none" /\ l.key \in Keys
  BY <1>1, CallPlace
<1>3. CASE creations[l.key] = Nothing
  <2> PICK m : m = [l EXCEPT !.pc = "clock"]
    OBVIOUS
  <2>1. To(c, m)
    BY <1>2, <1>3, NoRow DEF Lookup
  <2>2. /\ DOMAIN m = Fields /\ m.op = l.op /\ m.key = l.key /\ m.body = l.body /\ m.at = l.at
        /\ m.tries = l.tries /\ m.tx = l.tx /\ m.answer = l.answer /\ m.pc = "clock"
    BY <1>2 DEF Fields
  <2>3. Ready(m)
    BY <1>1, <1>2, <2>2 DEF Fits, Ready
  <2>4. Fits(m)
    <3>1. GoesOn(l, m)
      BY <1>1, <1>2, <2>2, <2>3 DEF GoesOn
    <3> QED
      BY <1>1, <1>2, <2>2, <2>3, <3>1, GoesOnFits
  <2> QED
    BY <1>1, <1>2, <2>1, <2>2, <2>4, QuietStep
<1>4. CASE creations[l.key] # Nothing
  <2>1. Match(c, RowOf(l.key))
    BY <1>2, <1>4, NoRow DEF Lookup
  <2> QED
    BY <1>1, <1>4, <2>1, MatchStep
<1> QED
  BY <1>3, <1>4

LEMMA FindRowKeeps ==
    ASSUME IInv, NEW c \in Calls, FindRow(c)
    PROVE  IInv'
<1> PICK l : l = call[c]
  OBVIOUS
<1> PICK row : row = OpenRowOf(l.id, MerchantOf[l.key])
  OBVIOUS
<1>1. l.pc = "find" /\ UNCHANGED db
  BY DEF FindRow
<1>2. Fits(l) /\ l.op = "find" /\ l.tx = "none" /\ l.id \in Ids
  BY <1>1, CallPlace
<1>3. CASE row = Nothing
  <2>1. Ends(c, Refused("missing"))
    BY <1>3 DEF FindRow
  <2>2. Refused("missing").kind = "missing"
    BY RefusedFields
  <2> QED
    BY <1>1, <1>2, <2>1, <2>2, EndStep
<1>4. CASE row # Nothing
  <2> PICK m : m = Reads(l, row)
    OBVIOUS
  <2>1. To(c, m)
    BY <1>4 DEF FindRow, Reads
  <2>2. PICK k \in Keys, o \in Order :
           /\ creations[k] # Nothing /\ Placed(k, o)
           /\ row = [terms |-> Nothing, invoice |-> invoices[o.id], request |-> StoredRequest(o)]
    BY <1>2, <1>4, OpenRow DEF IInv
  <2>3. Placed(o.key, o) /\ row.invoice \in Versions(o) /\ row.request = StoredRequest(o)
    BY <2>2 DEF Placed
  <2>4. Fits(m) /\ m.tx = "none"
    BY <1>1, <1>2, <2>3, RoutesFits
  <2> QED
    BY <1>1, <2>1, <2>4, QuietStep
<1> QED
  BY <1>3, <1>4

\* What a read of routes answers.
LEMMA RoutesAnswered ==
    ASSUME IInv, NEW c \in Calls, NEW l, l = call[c], l.pc = "routes"
    PROVE  \E o \in Order :
              /\ Placed(o.key, o)
              /\ l.op = "create" => o.key = l.key /\ TermsOf(o) = TermsOf(l)
              /\ Answer(l.row, routes[l.row.invoice.id])
                    = Issued(Artifact(NewInvoice(o), NewRequest(o)))
<1>1. Fits(l)
  BY DEF IInv
<1>2. PICK o \in Order :
         /\ Placed(o.key, o)
         /\ l.row.invoice \in Versions(o) /\ l.row.request = StoredRequest(o)
         /\ l.op = "create" => o.key = l.key /\ TermsOf(o) = TermsOf(l)
  BY <1>1 DEF Fits, RowFits
<1>3. Timely(o) /\ routes[o.id] = StoredRoutes(o)
  BY <1>2 DEF Placed
<1>4. l.row.invoice.id = o.id
  BY <1>2, VersionFields
<1>5. Answer(l.row, routes[l.row.invoice.id]) = Issued(Artifact(NewInvoice(o), NewRequest(o)))
  BY <1>2, <1>3, <1>4, OrderAnswered
<1> QED
  BY <1>2, <1>5

LEMMA ReadRoutesKeeps ==
    ASSUME IInv, NEW c \in Calls, ReadRoutes(c)
    PROVE  IInv'
<1> PICK l : l = call[c]
  OBVIOUS
<1> PICK a : a = Answer(l.row, routes[l.row.invoice.id])
  OBVIOUS
<1>1. l.pc = "routes" /\ UNCHANGED db /\ Ends(c, a)
  BY DEF ReadRoutes
<1>2. l.op # "none" /\ l.tx = "none"
  BY <1>1, CallPlace
<1>3. PICK o \in Order : a = Issued(Artifact(NewInvoice(o), NewRequest(o)))
  BY <1>1, RoutesAnswered
<1>4. a.kind = "issued"
  BY <1>3, IssuedFields
<1> QED
  BY <1>1, <1>2, <1>4, EndStep

LEMMA ReadClockKeeps ==
    ASSUME IInv, NEW c \in Calls, NEW t \in Times, ReadClock(c, t)
    PROVE  IInv'
<1> PICK l : l = call[c]
  OBVIOUS
<1>1. l.pc = "clock" /\ UNCHANGED db
  BY DEF ReadClock
<1>2. Fits(l) /\ DOMAIN l = Fields /\ l.op = "create" /\ l.tx = "none"
  BY <1>1, CallPlace
<1>3. CASE l.body.expiresAt > t
  <2> PICK m : m = [l EXCEPT !.pc = "generate", !.now = t]
    OBVIOUS
  <2>1. To(c, m)
    BY <1>3 DEF ReadClock
  <2>2. /\ DOMAIN m = Fields /\ m.op = l.op /\ m.key = l.key /\ m.body = l.body /\ m.at = l.at
        /\ m.tries = l.tries /\ m.tx = l.tx /\ m.answer = l.answer
        /\ m.pc = "generate" /\ m.now = t
    BY <1>2 DEF Fields
  <2>3. l.tries = 0 /\ IdAttempts \in Nat /\ 0 < IdAttempts
    BY <1>1, <1>2, IssuanceAssumption DEF Fits, Ready
  <2>4. Ready(m)
    BY <1>2, <1>3, <2>2, <2>3 DEF Ready
  <2>5. Fits(m)
    <3>1. GoesOn(l, m)
      BY <1>1, <1>2, <2>2, <2>4 DEF GoesOn
    <3> QED
      BY <1>1, <1>2, <2>2, <2>4, <3>1, GoesOnFits
  <2> QED
    BY <1>1, <1>2, <2>1, <2>2, <2>5, QuietStep
<1>4. CASE ~(l.body.expiresAt > t)
  <2>1. Ends(c, Refused("failed"))
    BY <1>4 DEF ReadClock
  <2>2. Refused("failed").kind = "failed"
    BY RefusedFields
  <2> QED
    BY <1>1, <1>2, <2>1, <2>2, EndStep
<1> QED
  BY <1>3, <1>4

\* What is generated may be stored: validateCashuPaymentRequest never throws.
LEMMA GeneratedStorable ==
    ASSUME IInv, NEW c \in Calls, NEW id \in Ids, Generate(c, id), NEW l, l = call[c],
           NEW m, m = [l EXCEPT !.pc = "insert", !.id = id, !.tries = @ + 1]
    PROVE  /\ Timely(OrderOf(m)) /\ Storable(m) /\ To(c, m)
           /\ l.tries \in 0..IdAttempts /\ l.tries < IdAttempts
<1>1. l.pc = "generate" /\ UNCHANGED db
  BY DEF Generate
<1>2. /\ Fits(l) /\ DOMAIN l = Fields /\ l.op = "create" /\ l.tx = "none"
      /\ l.key \in Keys /\ l.body \in Bodies /\ l.at \in Deployments
  BY <1>1, CallPlace
<1>3. /\ l.tries \in 0..IdAttempts /\ l.tries < IdAttempts
      /\ l.now \in Times /\ l.body.expiresAt > l.now
  BY <1>1, <1>2 DEF Fits, Ready
<1>4. /\ DOMAIN m = Fields /\ m.op = l.op /\ m.key = l.key /\ m.body = l.body /\ m.at = l.at
      /\ m.now = l.now /\ m.tries = l.tries + 1 /\ m.tx = l.tx /\ m.answer = l.answer
      /\ m.pc = "insert" /\ m.id = id
  BY <1>2 DEF Fields
<1>5. Timely(OrderOf(m))
  BY <1>2, <1>3, <1>4 DEF Timely, OrderOf, Order
<1>6. Storable(m)
  <2>1. AgainAccepted[m.at] = AcceptedRoutes[m.at]
    BY <1>2, <1>4, ConfigStorable
  <2>2. /\ NewInvoice(m).amount = m.body.amount /\ NewInvoice(m).createdAt = m.now
        /\ NewInvoice(m).expiresAt = m.body.expiresAt
    BY InvoiceFields
  <2>3. OrderOf(m) \in Order /\ OrderOf(m).body = m.body /\ OrderOf(m).now = m.now
    BY <1>5 DEF Timely, OrderOf
  <2>4. /\ m.now \in Nat /\ m.body.expiresAt \in Nat
        /\ m.body.amount \in Nat /\ m.body.amount > 0
    BY <2>3, OrderFields
  <2>5. m.body.expiresAt > m.now
    BY <1>3, <1>4
  <2>6. MayIssue(NewInvoice(m), m.now)
    BY <2>2, <2>4, <2>5 DEF MayIssue, ValidInvoice
  <2> QED
    BY <2>1, <2>6 DEF Storable
<1>7. To(c, m)
  BY <1>6 DEF Generate
<1> QED
  BY <1>3, <1>5, <1>6, <1>7

LEMMA GenerateKeeps ==
    ASSUME IInv, NEW c \in Calls, NEW id \in Ids, Generate(c, id)
    PROVE  IInv'
<1> PICK l : l = call[c]
  OBVIOUS
<1> PICK m : m = [l EXCEPT !.pc = "insert", !.id = id, !.tries = @ + 1]
  OBVIOUS
<1>1. l.pc = "generate" /\ UNCHANGED db
  BY DEF Generate
<1>2. /\ Fits(l) /\ DOMAIN l = Fields /\ l.op = "create" /\ l.tx = "none"
  BY <1>1, CallPlace
<1>3. /\ m.op = l.op /\ m.key = l.key /\ m.body = l.body /\ m.at = l.at
      /\ m.tries = l.tries + 1 /\ m.tx = l.tx /\ m.answer = l.answer
      /\ m.pc = "insert" /\ DOMAIN m = Fields
  BY <1>2 DEF Fields
<1>4. /\ Timely(OrderOf(m)) /\ To(c, m)
      /\ l.tries \in 0..IdAttempts /\ l.tries < IdAttempts
  BY GeneratedStorable
<1>5. Ready(m)
  <2>1. m.tries \in 0..IdAttempts
    BY <1>3, <1>4, IssuanceAssumption
  <2> QED
    BY <1>3, <1>4, <2>1 DEF Ready
<1>6. Fits(m)
  <2>1. GoesOn(l, m)
    BY <1>1, <1>2, <1>3, <1>5 DEF GoesOn
  <2> QED
    BY <1>1, <1>2, <1>3, <1>5, <2>1, GoesOnFits
<1> QED
  BY <1>1, <1>2, <1>3, <1>4, <1>6, QuietStep

-----------------------------------------------------------------------------
(* The transaction                                                         *)

\* A call whose transaction goes on, or is no more.
LEMMA TxFits ==
    ASSUME NEW l, Fits(l), l.op = "create", l.pc \in {"insert", "ended"},
           NEW tx \in {"none", "key", "id", "commit"},
           tx # "none" => l.pc = "insert",
           tx \in {"key", "id", "commit"} => creations[l.key] = Nothing,
           tx \in {"id", "commit"} => ~Taken(l.id),
           NEW m, m = [l EXCEPT !.tx = tx]
    PROVE  Fits(m) /\ m.tx = tx /\ m.key = l.key /\ m.id = l.id
<1>1. DOMAIN l = Fields
  BY IdleFields DEF Fits, Asked
<1>2. /\ DOMAIN m = Fields
      /\ m.op = l.op /\ m.key = l.key /\ m.id = l.id /\ m.body = l.body /\ m.at = l.at
      /\ m.now = l.now /\ m.tries = l.tries /\ m.answer = l.answer /\ m.pc = l.pc
      /\ m.tx = tx
  BY <1>1 DEF Fields
<1>3. OrderOf(m) = OrderOf(l)
  BY <1>2 DEF OrderOf
<1>4. Asked(m) /\ InPlace(m)
  BY <1>2, IdleFields DEF Fits, Asked, InPlace
<1>5. Ready(m) /\ RowFits(m)
  BY <1>2, <1>3 DEF Fits, Ready, RowFits
<1>6. Transacts(m)
  BY <1>2, <1>3 DEF Transacts
<1>7. Answered(m)
  BY <1>2, RefusedFields DEF Fits, Answered
<1> QED
  BY <1>2, <1>4, <1>5, <1>6, <1>7 DEF Fits

LEMMA InsertKeyKeeps ==
    ASSUME IInv, NEW c \in Calls, InsertKey(c)
    PROVE  IInv'
<1> PICK l : l = call[c]
  OBVIOUS
<1>1. l.pc = "insert" /\ l.tx = "none" /\ UNCHANGED db
  BY DEF InsertKey
<1>2. Fits(l) /\ DOMAIN l = Fields /\ l.op = "create"
  BY <1>1, CallPlace
<1>3. CASE creations[l.key] # Nothing
  <2> PICK m : m = [l EXCEPT !.pc = "replay"]
    OBVIOUS
  <2>1. To(c, m)
    BY <1>3 DEF InsertKey
  <2>2. /\ DOMAIN m = Fields /\ m.op = l.op /\ m.key = l.key /\ m.body = l.body /\ m.at = l.at
        /\ m.tries = l.tries /\ m.tx = l.tx /\ m.answer = l.answer /\ m.pc = "replay"
    BY <1>2 DEF Fields
  <2>3. Ready(m)
    BY <1>1, <1>2, <2>2 DEF Fits, Ready
  <2>4. Fits(m)
    <3>1. GoesOn(l, m)
      BY <1>1, <1>2, <1>3, <2>2, <2>3 DEF GoesOn
    <3> QED
      BY <1>1, <1>2, <1>3, <2>2, <2>3, <3>1, GoesOnFits
  <2> QED
    BY <1>1, <2>1, <2>2, <2>4, QuietStep
<1>4. CASE creations[l.key] = Nothing
  <2> PICK m : m = [l EXCEPT !.tx = "key"]
    OBVIOUS
  <2>1. To(c, m)
    BY <1>4 DEF InsertKey
  <2>2. Fits(m) /\ m.tx = "key" /\ m.key = l.key
    BY <1>1, <1>2, <1>4, TxFits
  <2>3. \A d \in Calls \ {c} : HoldsKey(d) => call[d].key # m.key
    BY <2>2 DEF InsertKey
  <2> QED
    BY <1>1, <2>1, <2>2, <2>3, CallStep
<1> QED
  BY <1>3, <1>4

LEMMA ReplayKeeps ==
    ASSUME IInv, NEW c \in Calls, Replay(c)
    PROVE  IInv'
<1> PICK l : l = call[c]
  OBVIOUS
<1>1. l.pc = "replay" /\ UNCHANGED db
  BY DEF Replay
<1>2. Fits(l) /\ l.op = "create" /\ l.key \in Keys
  BY <1>1, CallPlace
<1>3. creations[l.key] # Nothing
  BY <1>1, <1>2 DEF Fits, Transacts
<1>4. Match(c, RowOf(l.key))
  BY <1>2, <1>3, NoRow DEF Replay
<1> QED
  BY <1>1, <1>3, <1>4, MatchStep

LEMMA InsertIdKeeps ==
    ASSUME IInv, NEW c \in Calls, InsertId(c)
    PROVE  IInv'
<1> PICK l : l = call[c]
  OBVIOUS
<1>1. l.pc = "insert" /\ l.tx = "key" /\ UNCHANGED db
  BY DEF InsertId
<1>2. Fits(l) /\ DOMAIN l = Fields /\ l.op = "create"
  BY <1>1, CallPlace
<1>3. creations[l.key] = Nothing /\ Timely(OrderOf(l)) /\ l.answer = Refused("none")
  BY <1>1, <1>2 DEF Fits, Transacts, Ready, Answered
<1>4. CASE ~Taken(l.id)
  <2> PICK m : m = [l EXCEPT !.tx = "id"]
    OBVIOUS
  <2>1. To(c, m)
    BY <1>4 DEF InsertId
  <2>2. Fits(m) /\ m.tx = "id" /\ m.key = l.key /\ m.id = l.id
    BY <1>1, <1>2, <1>3, <1>4, TxFits
  <2>3. \A d \in Calls \ {c} : HoldsId(d) => call[d].id # m.id
    BY <2>2 DEF InsertId
  <2>4. \A d \in Calls \ {c} : HoldsKey(d) => call[d].key # m.key
    BY <1>1, <2>2 DEF IInv, Apart, HoldsKey
  <2> QED
    BY <1>1, <2>1, <2>2, <2>3, <2>4, CallStep
<1>5. CASE Taken(l.id) /\ l.tries < IdAttempts
  <2> PICK m : m = [l EXCEPT !.pc = "generate", !.tx = "none"]
    OBVIOUS
  <2>1. To(c, m)
    BY <1>5 DEF InsertId
  <2>2. /\ DOMAIN m = Fields /\ m.op = l.op /\ m.key = l.key /\ m.body = l.body /\ m.at = l.at
        /\ m.tries = l.tries /\ m.tx = "none" /\ m.answer = l.answer
        /\ m.pc = "generate" /\ m.now = l.now
    BY <1>2 DEF Fields
  <2>3. l.now \in Times /\ l.body.expiresAt > l.now
    BY <1>3, OrderFields DEF Timely, OrderOf
  <2>4. Ready(m)
    BY <1>2, <1>5, <2>2, <2>3 DEF Fits, Ready
  <2>5. Fits(m)
    <3>1. GoesOn(l, m)
      BY <1>1, <1>2, <2>2, <2>4 DEF GoesOn
    <3> QED
      BY <1>1, <1>2, <2>2, <2>4, <3>1, GoesOnFits
  <2> QED
    BY <1>1, <2>1, <2>2, <2>5, QuietStep
<1>6. CASE Taken(l.id) /\ ~(l.tries < IdAttempts)
  <2> PICK a : a = Refused("failed")
    OBVIOUS
  <2> PICK m : m = [l EXCEPT !.pc = "ended", !.answer = a, !.tx = "none"]
    OBVIOUS
  <2>1. To(c, m)
    BY <1>6 DEF InsertId
  <2>2. /\ DOMAIN m = Fields /\ m.op = l.op /\ m.key = l.key /\ m.body = l.body /\ m.at = l.at
        /\ m.tries = l.tries /\ m.tx = "none" /\ m.answer = a /\ m.pc = "ended"
    BY <1>2 DEF Fields
  <2>3. a.kind = "failed"
    BY RefusedFields
  <2>4. Asked(m) /\ InPlace(m)
    BY <1>2, <2>2, IdleFields DEF Fits, Asked, InPlace
  <2>5. Ready(m) /\ RowFits(m) /\ Transacts(m) /\ Answered(m)
    BY <1>2, <2>2, <2>3 DEF Fits, Ready, RowFits, Transacts, Answered
  <2>6. Fits(m)
    BY <2>4, <2>5 DEF Fits
  <2> QED
    BY <1>1, <2>1, <2>2, <2>6, QuietStep
<1> QED
  BY <1>4, <1>5, <1>6

LEMMA InsertRowsKeeps ==
    ASSUME IInv, NEW c \in Calls, InsertRows(c)
    PROVE  IInv'
<1> PICK l : l = call[c]
  OBVIOUS
<1> PICK m : m = [l EXCEPT !.tx = "commit"]
  OBVIOUS
<1>1. l.pc = "insert" /\ l.tx = "id" /\ UNCHANGED db /\ To(c, m)
  BY DEF InsertRows
<1>2. Fits(l) /\ l.op = "create"
  BY <1>1, CallPlace
<1>3. creations[l.key] = Nothing /\ ~Taken(l.id)
  BY <1>1, <1>2 DEF Fits, Transacts
<1>4. Fits(m) /\ m.tx = "commit" /\ m.key = l.key /\ m.id = l.id
  BY <1>1, <1>2, <1>3, TxFits
<1> QED
  BY <1>1, <1>4, QuietStep

LEMMA ReceiveKeeps ==
    ASSUME IInv, NEW c \in Calls, Receive(c)
    PROVE  IInv'
<1> PICK l : l = call[c]
  OBVIOUS
<1> PICK a : a = Issued(Artifact(NewInvoice(l), NewRequest(l)))
  OBVIOUS
<1>1. l.pc = "insert" /\ l.tx = "committed" /\ UNCHANGED db /\ Ends(c, a)
  BY DEF Receive
<1>2. l.op = "create" /\ a.kind = "issued"
  BY <1>1, CallPlace, IssuedFields
<1> QED
  BY <1>1, <1>2, EndStep

LEMMA AbortKeeps ==
    ASSUME IInv, NEW c \in Calls, Abort(c)
    PROVE  IInv'
<1> PICK l : l = call[c]
  OBVIOUS
<1> PICK m : m = [l EXCEPT !.tx = "none"]
  OBVIOUS
<1>1. l.pc = "ended" /\ l.tx \in {"key", "id", "commit"} /\ UNCHANGED db /\ To(c, m)
  BY DEF Abort
<1>2. Fits(l) /\ l.op = "create"
  BY <1>1, CallPlace
<1>3. Fits(m) /\ m.tx = "none"
  BY <1>1, <1>2, TxFits
<1> QED
  BY <1>1, <1>3, QuietStep

LEMMA GiveUpKeeps ==
    ASSUME IInv, NEW c \in Calls, GiveUp(c)
    PROVE  IInv'
<1> PICK l : l = call[c]
  OBVIOUS
<1> PICK a : a = Refused("failed")
  OBVIOUS
<1>1. l.pc \notin {"idle", "ended"} /\ UNCHANGED db /\ Ends(c, a)
  BY DEF GiveUp
<1>2. l.op # "none" /\ a.kind = "failed"
  BY <1>1, CallPlace, RefusedFields
<1> QED
  BY <1>1, <1>2, EndStep

-----------------------------------------------------------------------------
(* The two writes                                                          *)

LEMMA OrderIsCall ==
    ASSUME NEW l, NEW o, o = OrderOf(l)
    PROVE  /\ o.key = l.key /\ o.id = l.id /\ o.body = l.body /\ o.at = l.at /\ o.now = l.now
           /\ TermsOf(o) = TermsOf(l)
           /\ NewInvoice(o) = NewInvoice(l) /\ NewRequest(o) = NewRequest(l)
<1>1. o.key = l.key /\ o.id = l.id /\ o.body = l.body /\ o.at = l.at /\ o.now = l.now
  BY DEF OrderOf
<1>2. TermsOf(o) = TermsOf(l) /\ NewInvoice(o) = NewInvoice(l)
  BY <1>1 DEF TermsOf, NewInvoice
<1>3. NewRequest(o) = NewRequest(l)
  BY <1>1, <1>2 DEF NewRequest
<1> QED
  BY <1>1, <1>2, <1>3

\* What a commit leaves alone, and what it stores.
LEMMA CommitPlaces ==
    ASSUME IInv, NEW c \in Calls, Commit(c), NEW l, l = call[c], NEW o, o = OrderOf(l)
    PROVE  /\ Timely(o) /\ o.key = l.key /\ o.id = l.id
           /\ TermsOf(o) = TermsOf(l)
           /\ NewInvoice(o) = NewInvoice(l) /\ NewRequest(o) = NewRequest(l)
           /\ creations[o.key] = Nothing /\ ~Taken(o.id)
           /\ creations' = [creations EXCEPT ![o.key] = Creation(o)]
           /\ invoices' = [invoices EXCEPT ![o.id] = NewInvoice(o)]
           /\ requests' = [requests EXCEPT ![o.id] = StoredRequest(o)]
           /\ routes' = [routes EXCEPT ![o.id] = StoredRoutes(o)]
           /\ Placed(o.key, o)'
<1>1. l.tx = "commit" /\ Fits(l)
  BY DEF Commit, IInv
<1>2. creations[l.key] = Nothing /\ ~Taken(l.id) /\ Timely(o)
  BY <1>1 DEF Fits, Transacts, Ready
<1>3. /\ o.key = l.key /\ o.id = l.id /\ o.body = l.body /\ o.at = l.at /\ o.now = l.now
      /\ TermsOf(o) = TermsOf(l)
      /\ NewInvoice(o) = NewInvoice(l) /\ NewRequest(o) = NewRequest(l)
  BY OrderIsCall
<1>6. Creation(o) = Creation(l) /\ StoredRequest(o) = StoredRequest(l)
      /\ StoredRoutes(o) = StoredRoutes(l)
  BY <1>3 DEF Creation, StoredRequest, StoredRoutes
<1>7. /\ creations' = [creations EXCEPT ![o.key] = Creation(o)]
      /\ invoices' = [invoices EXCEPT ![o.id] = NewInvoice(o)]
      /\ requests' = [requests EXCEPT ![o.id] = StoredRequest(o)]
      /\ routes' = [routes EXCEPT ![o.id] = StoredRoutes(o)]
  BY <1>3, <1>6 DEF Commit
<1>8. o \in Order /\ o.key \in Keys /\ o.id \in Ids /\ NewInvoice(o) \in Versions(o)
  BY <1>2, OrderFields, NewIsVersion DEF Timely
<1>9. Placed(o.key, o)'
  BY <1>2, <1>7, <1>8 DEF Placed, IInv, Tables
<1> QED
  BY <1>2, <1>3, <1>7, <1>9

\* What is placed stays placed.
LEMMA PlacedStays ==
    ASSUME IInv, NEW c \in Calls, Commit(c), NEW k \in Keys, NEW p \in Order, Placed(k, p)
    PROVE  Placed(k, p)'
<1> PICK o : o = OrderOf(call[c])
  OBVIOUS
<1>1. /\ Timely(o) /\ creations[o.key] = Nothing /\ ~Taken(o.id)
      /\ creations' = [creations EXCEPT ![o.key] = Creation(o)]
      /\ invoices' = [invoices EXCEPT ![o.id] = NewInvoice(o)]
      /\ requests' = [requests EXCEPT ![o.id] = StoredRequest(o)]
      /\ routes' = [routes EXCEPT ![o.id] = StoredRoutes(o)]
  BY CommitPlaces
<1>2. creations[k] = Creation(p) /\ creations[k] # Nothing
  BY OrderRowsThere DEF Placed
<1>3. creations[k].id = p.id
  BY <1>2 DEF Creation
<1>4. k # o.key /\ p.id # o.id
  BY <1>1, <1>2, <1>3 DEF Taken
<1>5. p.id \in Ids
  BY OrderFields
<1> QED
  BY <1>1, <1>4, <1>5 DEF Placed, IInv, Tables

LEMMA CommitTables ==
    ASSUME IInv, NEW c \in Calls, Commit(c)
    PROVE  Tables'
<1> PICK o : o = OrderOf(call[c])
  OBVIOUS
<1>1. /\ Timely(o) /\ creations[o.key] = Nothing /\ ~Taken(o.id)
      /\ creations' = [creations EXCEPT ![o.key] = Creation(o)]
      /\ invoices' = [invoices EXCEPT ![o.id] = NewInvoice(o)]
      /\ requests' = [requests EXCEPT ![o.id] = StoredRequest(o)]
      /\ routes' = [routes EXCEPT ![o.id] = StoredRoutes(o)]
      /\ Placed(o.key, o)'
  BY CommitPlaces
<1>2. o \in Order /\ o.key \in Keys /\ o.id \in Ids
  BY <1>1, OrderFields DEF Timely
<1>3. /\ DOMAIN creations = Keys
      /\ DOMAIN invoices = Ids /\ DOMAIN requests = Ids /\ DOMAIN routes = Ids
  BY DEF IInv, Tables
<1>4. Creation(o) # Nothing /\ Creation(o).id = o.id
  BY <1>2, OrderRowsThere DEF Creation
<1>5. /\ DOMAIN creations' = Keys
      /\ DOMAIN invoices' = Ids /\ DOMAIN requests' = Ids /\ DOMAIN routes' = Ids
  BY <1>1, <1>3
<1>6. /\ creations'[o.key] = Creation(o)
      /\ \A k \in Keys \ {o.key} : creations'[k] = creations[k]
  BY <1>1, <1>2, <1>3
<1>7. ASSUME NEW k \in Keys, creations'[k] # Nothing
      PROVE  \E p \in Order : Placed(k, p)'
  <2>1. CASE k = o.key
    BY <1>1, <1>2, <2>1
  <2>2. CASE k # o.key
    <3>1. creations[k] # Nothing
      BY <1>6, <1>7, <2>2
    <3>2. PICK p \in Order : Placed(k, p)
      BY <3>1 DEF IInv, Tables
    <3> QED
      BY <3>2, PlacedStays
  <2> QED
    BY <2>1, <2>2
<1>8. ASSUME NEW j \in Keys, NEW k \in Keys, j # k,
             creations'[j] # Nothing, creations'[k] # Nothing
      PROVE  creations'[j].id # creations'[k].id
  BY <1>1, <1>2, <1>4, <1>6, <1>8 DEF IInv, Tables, Taken
<1>9. ASSUME NEW id \in Ids
      PROVE  Taken(id)' \/ /\ invoices'[id] = Nothing
                           /\ requests'[id] = Nothing /\ routes'[id] = Nothing
  <2>1. CASE id = o.id
    BY <1>2, <1>4, <1>6, <2>1 DEF Taken
  <2>2. CASE id # o.id /\ Taken(id)
    <3>1. PICK k \in Keys : creations[k] # Nothing /\ creations[k].id = id
      BY <2>2 DEF Taken
    <3>2. k # o.key
      BY <1>1, <3>1
    <3> QED
      BY <1>6, <3>1, <3>2 DEF Taken
  <2>3. CASE id # o.id /\ ~Taken(id)
    BY <1>1, <1>3, <2>3 DEF IInv, Tables
  <2> QED
    BY <2>1, <2>2, <2>3
<1> QED
  BY <1>5, <1>7, <1>8, <1>9 DEF Tables

LEMMA CommitFits ==
    ASSUME IInv, NEW c \in Calls, Commit(c), NEW d \in Calls
    PROVE  Fits(call[d])'
<1> PICK o : o = OrderOf(call[c])
  OBVIOUS
<1> PICK l : l = call[d]
  OBVIOUS
<1>1. /\ Timely(o) /\ o.key = call[c].key /\ o.id = call[c].id
      /\ creations[o.key] = Nothing
      /\ creations' = [creations EXCEPT ![o.key] = Creation(o)]
      /\ Placed(o.key, o)'
  BY CommitPlaces
<1>2. o \in Order /\ o.key \in Keys /\ Creation(o) # Nothing /\ Creation(o).id = o.id
  BY <1>1, OrderFields, OrderRowsThere DEF Timely, Creation
<1>3. /\ creations'[o.key] = Creation(o)
      /\ \A k \in Keys \ {o.key} : creations'[k] = creations[k]
  BY <1>1, <1>2 DEF IInv, Tables
<1>4. Fits(l) /\ DOMAIN l = Fields
  BY CallPlace
<1>5. call[c].tx = "commit" /\ To(c, [call[c] EXCEPT !.tx = "committed"])
  BY DEF Commit
<1>6. CASE d # c
  <2>1. call'[d] = l
    BY <1>5, <1>6 DEF To, IInv
  <2>2. RowFits(l)'
    <3>1. SUFFICES ASSUME l.pc = "routes"
                   PROVE  \E p \in Order :
                             /\ Placed(p.key, p)'
                             /\ l.row.invoice \in Versions(p) /\ l.row.request = StoredRequest(p)
                             /\ l.op = "create" => p.key = l.key /\ TermsOf(p) = TermsOf(l)
      BY DEF RowFits
    <3>2. PICK p \in Order :
             /\ Placed(p.key, p)
             /\ l.row.invoice \in Versions(p) /\ l.row.request = StoredRequest(p)
             /\ l.op = "create" => p.key = l.key /\ TermsOf(p) = TermsOf(l)
      BY <1>4, <3>1 DEF Fits, RowFits
    <3>3. p.key \in Keys
      BY OrderFields
    <3>4. Placed(p.key, p)'
      BY <3>2, <3>3, PlacedStays
    <3> QED
      BY <3>2, <3>4
  <2>3. l.pc = "replay" => creations'[l.key] # Nothing
    <3>1. l.pc = "replay" => l.key \in Keys /\ creations[l.key] # Nothing
      BY <1>4, CallPlace DEF Fits, Transacts
    <3> QED
      BY <1>1, <1>3, <3>1
  <2>4. l.tx # "none" => l.key \in Keys
    BY CallPlace
  <2>5. l.tx \in {"key", "id", "commit"} => creations'[l.key] = Nothing
    <3>1. l.tx \in {"key", "id", "commit"} => l.key # o.key
      BY <1>1, <1>5, <1>6 DEF IInv, Apart, HoldsKey
    <3> QED
      BY <1>3, <1>4, <2>4, <3>1 DEF Fits, Transacts
  <2>6. l.tx \in {"id", "commit"} => ~Taken(l.id)'
    <3>1. l.tx \in {"id", "commit"} => l.id # o.id
      BY <1>1, <1>5, <1>6 DEF IInv, Apart, HoldsId
    <3>2. l.tx \in {"id", "commit"} => ~Taken(l.id)
      BY <1>4 DEF Fits, Transacts
    <3> QED
      BY <1>2, <1>3, <3>1, <3>2 DEF Taken
  <2>7. l.tx = "committed" => Placed(l.key, OrderOf(l))'
    <3>1. SUFFICES ASSUME l.tx = "committed"
                   PROVE  Placed(l.key, OrderOf(l))'
      OBVIOUS
    <3> PICK p : p = OrderOf(l)
      OBVIOUS
    <3>2. Placed(l.key, p)
      BY <1>4, <3>1 DEF Fits, Transacts
    <3>3. p \in Order
      BY <3>2 DEF Placed, Timely
    <3> QED
      BY <2>4, <3>1, <3>2, <3>3, PlacedStays
  <2>8. Transacts(l)'
    BY <2>3, <2>5, <2>6, <2>7 DEF Transacts
  <2>9. Fits(l)'
    BY <1>4, <2>2, <2>8 DEF Fits, Asked, InPlace, Ready, Answered
  <2> QED
    BY <2>1, <2>9 DEF Fits, Asked, InPlace, Ready, RowFits, Transacts, Answered
<1>7. CASE d = c
  <2> PICK m : m = [l EXCEPT !.tx = "committed"]
    OBVIOUS
  <2>1. call'[d] = m
    BY <1>5, <1>7 DEF To, IInv
  <2>2. /\ DOMAIN m = Fields
        /\ m.op = l.op /\ m.key = l.key /\ m.id = l.id /\ m.body = l.body /\ m.at = l.at
        /\ m.now = l.now /\ m.tries = l.tries /\ m.answer = l.answer /\ m.pc = l.pc
        /\ m.tx = "committed"
    BY <1>4 DEF Fields
  <2>3. OrderOf(m) = OrderOf(l)
    BY <2>2 DEF OrderOf
  <2>4. l.op = "create" /\ l.tx = "commit" /\ l.pc \in {"insert", "ended"}
    BY <1>4, <1>5, <1>7, CallPlace DEF Fits, InPlace
  <2>5. Asked(m) /\ InPlace(m)
    BY <1>4, <2>2, <2>4, IdleFields DEF Fits, Asked, InPlace
  <2>6. Ready(m) /\ Answered(m)
    BY <1>4, <2>2, <2>3, <2>4 DEF Fits, Ready, Answered
  <2>7. RowFits(m)' /\ Transacts(m)'
    BY <1>1, <1>7, <2>2, <2>3, <2>4 DEF RowFits, Transacts
  <2>8. Fits(m)'
    BY <2>5, <2>6, <2>7 DEF Fits, Asked, InPlace, Ready, Answered
  <2> QED
    BY <2>1, <2>8 DEF Fits, Asked, InPlace, Ready, RowFits, Transacts, Answered
<1> QED
  BY <1>6, <1>7

LEMMA CommitKeeps ==
    ASSUME IInv, NEW c \in Calls, Commit(c)
    PROVE  IInv'
<1> PICK l : l = call[c]
  OBVIOUS
<1> PICK m : m = [l EXCEPT !.tx = "committed"]
  OBVIOUS
<1>1. DOMAIN call = Calls /\ l.tx = "commit" /\ DOMAIN l = Fields
  BY CallPlace DEF Commit, IInv
<1>2. call' = [call EXCEPT ![c] = m]
  BY DEF Commit, To
<1>3. m.tx = "committed" /\ m.key = l.key /\ m.id = l.id
  BY <1>1 DEF Fields
<1>4. DOMAIN call' = Calls /\ call'[c] = m /\ \A d \in Calls \ {c} : call'[d] = call[d]
  BY <1>1, <1>2
<1>5. Apart'
  <2>1. ~HoldsKey(c)' /\ ~HoldsId(c)'
    BY <1>3, <1>4 DEF HoldsKey, HoldsId
  <2>2. ASSUME NEW d \in Calls \ {c}
        PROVE  /\ HoldsKey(d)' = HoldsKey(d) /\ HoldsId(d)' = HoldsId(d)
               /\ call'[d] = call[d]
    BY <1>4 DEF HoldsKey, HoldsId
  <2> QED
    BY <2>1, <2>2 DEF IInv, Apart
<1> QED
  BY <1>4, <1>5, CommitTables, CommitFits DEF IInv

\* A payment makes an invoice another version of itself.
LEMMA PayPlaced ==
    ASSUME IInv, NEW id \in Ids, NEW u, NEW t \in Times, Pay(id, u, t)
    PROVE  /\ \A k \in Keys, o \in Order : Placed(k, o) => Placed(k, o)'
           /\ Taken(id)
<1>1. /\ invoices[id] # Nothing /\ AcceptedInTime(invoices[id], t)
      /\ invoices' = [invoices EXCEPT ![id] = [invoices[id] EXCEPT !.paidAt = t]]
      /\ UNCHANGED <<creations, requests, routes, call>>
  BY DEF Pay
<1>2. Taken(id) /\ DOMAIN invoices = Ids
  BY <1>1 DEF IInv, Tables
<1>3. ASSUME NEW k \in Keys, NEW o \in Order, Placed(k, o)
      PROVE  Placed(k, o)'
  <2>1. invoices[o.id] \in Versions(o) /\ o.id \in Ids
    BY <1>3, OrderFields DEF Placed
  <2>2. invoices'[o.id] \in Versions(o)
    <3>1. CASE o.id = id
      <4>1. [invoices[id] EXCEPT !.paidAt = t] \in Versions(o)
        BY <1>1, <2>1, <3>1, PaidIsVersion
      <4> QED
        BY <1>1, <1>2, <3>1, <4>1
    <3>2. CASE o.id # id
      BY <1>1, <1>2, <2>1, <3>2
    <3> QED
      BY <3>1, <3>2
  <2> QED
    BY <1>1, <1>3, <2>2 DEF Placed
<1> QED
  BY <1>2, <1>3

LEMMA PayKeeps ==
    ASSUME IInv, NEW id \in Ids, NEW u, NEW t \in Times, Pay(id, u, t)
    PROVE  IInv'
<1>1. /\ invoices' = [invoices EXCEPT ![id] = [invoices[id] EXCEPT !.paidAt = t]]
      /\ UNCHANGED <<creations, requests, routes, call>>
  BY DEF Pay
<1>2. /\ \A k \in Keys, o \in Order : Placed(k, o) => Placed(k, o)'
      /\ Taken(id)
  BY PayPlaced
<1>3. Tables'
  <2>1. DOMAIN creations' = Keys /\ DOMAIN invoices' = Ids /\ DOMAIN requests' = Ids
        /\ DOMAIN routes' = Ids
    BY <1>1 DEF IInv, Tables
  <2>2. \A k \in Keys : creations'[k] # Nothing => \E o \in Order : Placed(k, o)'
    BY <1>1, <1>2 DEF IInv, Tables
  <2>3. \A j, k \in Keys : j # k /\ creations'[j] # Nothing /\ creations'[k] # Nothing
                             => creations'[j].id # creations'[k].id
    BY <1>1 DEF IInv, Tables
  <2>4. ASSUME NEW i \in Ids
        PROVE  Taken(i)' \/ /\ invoices'[i] = Nothing
                            /\ requests'[i] = Nothing /\ routes'[i] = Nothing
    <3>1. Taken(i)' = Taken(i)
      BY <1>1 DEF Taken
    <3>2. CASE i = id
      BY <1>2, <3>1, <3>2
    <3>3. CASE i # id
      <4>1. invoices'[i] = invoices[i]
        BY <1>1, <3>3 DEF IInv, Tables
      <4> QED
        BY <1>1, <3>1, <4>1 DEF IInv, Tables
    <3> QED
      BY <3>2, <3>3
  <2> QED
    BY <2>1, <2>2, <2>3, <2>4 DEF Tables
<1>4. ASSUME NEW c \in Calls
      PROVE  Fits(call[c])'
  <2> PICK l : l = call[c]
    OBVIOUS
  <2>1. Fits(l)
    BY DEF IInv
  <2>2. \A o \in Order : Placed(o.key, o) => Placed(o.key, o)'
    BY <1>2, OrderFields
  <2>3. RowFits(l)'
    BY <2>1, <2>2 DEF Fits, RowFits
  <2>4. l.tx = "committed" => Placed(l.key, OrderOf(l))'
    <3>1. SUFFICES ASSUME l.tx = "committed"
                   PROVE  Placed(l.key, OrderOf(l))'
      OBVIOUS
    <3> PICK p : p = OrderOf(l)
      OBVIOUS
    <3>2. Placed(l.key, p)
      BY <2>1, <3>1 DEF Fits, Transacts
    <3>3. p \in Order /\ p.key = l.key
      BY <3>2 DEF Placed, Timely
    <3> QED
      BY <2>2, <3>2, <3>3
  <2>5. Transacts(l)'
    BY <1>1, <2>1, <2>4 DEF Fits, Transacts, Taken
  <2>6. Fits(l)'
    BY <2>1, <2>3, <2>5 DEF Fits, Asked, InPlace, Ready, Answered
  <2>7. call'[c] = l
    BY <1>1
  <2> QED
    BY <2>6, <2>7 DEF Fits, Asked, InPlace, Ready, RowFits, Transacts, Answered
<1>5. DOMAIN call' = Calls /\ Apart'
  BY <1>1 DEF IInv, Apart, HoldsKey, HoldsId
<1> QED
  BY <1>3, <1>4, <1>5 DEF IInv

LEMMA StutterKeeps == IInv /\ UNCHANGED vars => IInv'
<1>1. SUFFICES ASSUME IInv, UNCHANGED vars
               PROVE  IInv'
  OBVIOUS
<1>2. UNCHANGED db /\ UNCHANGED call
  BY <1>1 DEF vars
<1>3. ASSUME NEW c \in Calls
      PROVE  Fits(call[c])'
  <2> PICK l : l = call[c]
    OBVIOUS
  <2>1. Fits(l)
    BY <1>1 DEF IInv
  <2>2. Fits(l)'
    BY <1>2, <2>1, FitsKept
  <2> QED
    BY <1>2, <2>2 DEF Fits, Asked, InPlace, Ready, RowFits, Transacts, Answered
<1> QED
  BY <1>1, <1>2, <1>3, TablesKept DEF IInv, Apart, HoldsKey, HoldsId

LEMMA StepKeeps == IInv /\ [Next]_vars => IInv'
<1>1. SUFFICES ASSUME IInv, [Next]_vars
               PROVE  IInv'
  OBVIOUS
<1>2. ASSUME NEW c \in Calls, Step(c)
      PROVE  IInv'
  BY <1>1, <1>2, LookupKeeps, FindRowKeeps, ReadRoutesKeeps, ReadClockKeeps, GenerateKeeps,
     InsertKeyKeeps, ReplayKeeps, InsertIdKeeps, InsertRowsKeeps, ReceiveKeeps DEF Step
<1> QED
  BY <1>1, <1>2, CreateKeeps, FindKeeps, CommitKeeps, AbortKeeps, GiveUpKeeps, PayKeeps,
     StutterKeeps DEF Next

\* The invariant, of every behaviour.
THEOREM Inductive == Spec => []IInv
<1>1. Init => IInv
  BY InitIInv
<1> QED
  BY <1>1, StepKeeps, PTL DEF Spec

-----------------------------------------------------------------------------
(* The invariants of the run                                               *)

LEMMA TypeOKHolds == IInv => TypeOK
<1>1. SUFFICES ASSUME IInv
               PROVE  TypeOK
  OBVIOUS
<1>2. ASSUME NEW k \in Keys, creations[k] # Nothing
      PROVE  /\ creations[k].terms \in Terms /\ creations[k].id \in Ids
             /\ invoices[creations[k].id].merchant = MerchantOf[k]
             /\ \A j \in Keys \ {k} : creations[j] # Nothing => creations[j].id # creations[k].id
  <2>1. PICK o \in Order : Placed(k, o)
    BY <1>1, <1>2 DEF IInv, Tables
  <2>2. /\ creations[k] = Creation(o) /\ o.key = k /\ invoices[o.id] \in Versions(o)
    BY <2>1 DEF Placed
  <2>3. creations[k].id = o.id /\ creations[k].terms = TermsOf(o)
    BY <2>2 DEF Creation
  <2>4. TermsOf(o) \in Terms /\ o.id \in Ids
    BY OrderFields DEF TermsOf, Terms
  <2>5. invoices[o.id].merchant = MerchantOf[k]
    BY <2>2, VersionFields
  <2> QED
    BY <1>1, <1>2, <2>3, <2>4, <2>5 DEF IInv, Tables
<1>3. ASSUME NEW id \in Ids
      PROVE  /\ (invoices[id] = Nothing) = (requests[id] = Nothing)
             /\ (invoices[id] = Nothing) = (routes[id] = Nothing)
             /\ invoices[id] # Nothing => Taken(id) /\ DOMAIN routes[id] = requests[id].encoded.mints
  <2>1. CASE Taken(id)
    <3>1. PICK k \in Keys : creations[k] # Nothing /\ creations[k].id = id
      BY <2>1 DEF Taken
    <3>2. PICK o \in Order : Placed(k, o)
      BY <1>1, <3>1 DEF IInv, Tables
    <3>3. /\ o.id = id /\ invoices[id] \in Versions(o)
          /\ requests[id] = StoredRequest(o) /\ routes[id] = StoredRoutes(o)
      BY <3>1, <3>2 DEF Placed, Creation
    <3>4. invoices[id] # Nothing /\ requests[id] # Nothing /\ routes[id] # Nothing
      BY <3>3, VersionFields, OrderRowsThere
    <3>5. DOMAIN StoredRoutes(o) = StoredRequest(o).encoded.mints
      <4> PICK R : R = AcceptedRoutes[o.at]
        OBVIOUS
      <4>1. DOMAIN StoredRoutes(o) = DOMAIN R
        BY StoredFields
      <4> PICK e : e = StoredRequest(o).encoded
        OBVIOUS
      <4>2. e = [id |-> o.id, amount |-> o.body.amount, mints |-> DOMAIN R,
                 transport |-> Config[o.at].transport]
        BY StoredFields
      <4>3. e.mints = DOMAIN R
        BY <4>2
      <4> QED
        BY <4>1, <4>3
    <3> QED
      BY <2>1, <3>3, <3>4, <3>5
  <2>2. CASE ~Taken(id)
    BY <1>1, <2>2 DEF IInv, Tables
  <2> QED
    BY <2>1, <2>2
<1>4. ASSUME NEW c \in Calls
      PROVE  /\ call[c].tx \in {"none", "key", "id", "commit", "committed"}
             /\ call[c].tries \in 0..IdAttempts
             /\ (call[c].pc = "ended") = (call[c].answer.kind # "none")
  <2> PICK l : l = call[c]
    OBVIOUS
  <2>1. Fits(l)
    BY <1>1 DEF IInv
  <2>2. l.tx \in {"none", "key", "id", "commit", "committed"}
    BY <2>1, IdleFields DEF Fits, Asked, InPlace
  <2>3. (l.pc = "ended") = (l.answer.kind # "none")
    BY <2>1, RefusedFields DEF Fits, Answered
  <2> QED
    BY <2>1, <2>2, <2>3 DEF Fits, Ready
<1> QED
  BY <1>2, <1>3, <1>4 DEF TypeOK

\* Every variable holds a value of its type; the tables refer to each other as
\* their foreign keys demand, and no two keys share an invoice.
THEOREM TypeCorrect == Spec => []TypeOK
  BY Inductive, TypeOKHolds, PTL

\* No request and no reader ever meets a stored record that
\* reconstructStoredCashuPaymentRequest rejects, for any configurations that
\* the processes accept.
THEOREM RecordsStayValid == Spec => []NoInvalidRecord
<1>1. IInv => NoInvalidRecord
  <2>1. SUFFICES ASSUME IInv, NEW c \in Calls
                 PROVE  call[c].answer.kind # "invalid"
    BY DEF NoInvalidRecord
  <2> PICK l : l = call[c]
    OBVIOUS
  <2>2. Fits(l)
    BY <2>1 DEF IInv
  <2>3. l.answer.kind # "invalid"
    BY <2>2, RefusedFields DEF Fits, Answered
  <2> QED
    BY <2>3
<1> QED
  BY <1>1, Inductive, PTL

-----------------------------------------------------------------------------
(* The promise                                                             *)

\* What an order is issued as.
Published(o) == [terms |-> TermsOf(o), artifact |-> Artifact(NewInvoice(o), NewRequest(o))]

Same     == asked' = asked /\ issued' = issued /\ answered' = answered

LEMMA SameIsStutter == Same => UNCHANGED Abstract!vars
  BY DEF Same, Abstract!vars

LEMMA AskIsStep ==
    ASSUME NEW c \in Calls, NEW k \in Keys, NEW t \in Terms, asked[c] = Nothing,
           asked' = [asked EXCEPT ![c] = [key |-> k, terms |-> t]],
           issued' = issued, answered' = answered
    PROVE  Abstract!Next
<1> PICK a : a = [key |-> k, terms |-> t]
  OBVIOUS
<1>1. a \in Abstract!Asks
  BY DEF Abstract!Asks
<1>2. Abstract!Ask(c, a)
  BY DEF Abstract!Ask
<1> QED
  BY <1>1, <1>2 DEF Abstract!Next

LEMMA IssueIsStep ==
    ASSUME NEW c \in Calls, asked[c] # Nothing, answered[c].kind \in {"none", "failed"},
           NEW k, k = asked[c].key, NEW new, new # Nothing, issued'[k] = new,
           issued[k] = Nothing, new.terms = asked[c].terms,
           \A j \in Keys : issued[j] # Nothing =>
              IdOf(issued[j].artifact) # IdOf(new.artifact),
           issued' = [issued EXCEPT ![k] = new], asked' = asked, answered' = answered
    PROVE  Abstract!Next
<1>1. Abstract!Issue(c)
  BY DEF Abstract!Issue
<1> QED
  BY <1>1 DEF Abstract!Next

Answers(i, q, a) ==
    \/ i.terms = q.terms /\ a = Issued(i.artifact)
    \/ i.terms # q.terms /\ a = Refused("conflict")

LEMMA AnswerIsStep ==
    ASSUME NEW c \in Calls, asked[c] # Nothing, answered[c] = Refused("none"),
           NEW i, i = issued[asked[c].key], i # Nothing, NEW a, Answers(i, asked[c], a),
           answered' = [answered EXCEPT ![c] = a], asked' = asked, issued' = issued
    PROVE  Abstract!Next
<1>1. Abstract!Answer(c)
  BY DEF Answers, Abstract!Answer, Abstract!None, Refused, Issued
<1> QED
  BY <1>1 DEF Abstract!Next

LEMMA ReadIsStep ==
    ASSUME NEW c \in Calls, asked[c] = Nothing, answered[c] = Refused("none"),
           NEW k \in Keys, issued[k] # Nothing,
           answered' = [answered EXCEPT ![c] = Issued(issued[k].artifact)],
           asked' = asked, issued' = issued
    PROVE  Abstract!Next
<1>1. Abstract!Read(c)
  BY DEF Abstract!Read, Abstract!None, Refused, Issued
<1> QED
  BY <1>1 DEF Abstract!Next

LEMMA FailIsStep ==
    ASSUME NEW c \in Calls, asked[c] # Nothing, answered[c] = Refused("none"),
           answered' = [answered EXCEPT ![c] = Refused("failed")],
           asked' = asked, issued' = issued
    PROVE  Abstract!Next
<1>1. Abstract!Fail(c)
  BY DEF Abstract!Fail, Abstract!None, Refused
<1> QED
  BY <1>1 DEF Abstract!Next

\* A key whose order is placed shows it.
LEMMA PlacedIssued ==
    ASSUME NEW k \in Keys, NEW o \in Order, Placed(k, o)
    PROVE  IssuedTo(k) = Published(o) /\ creations[k] # Nothing
<1>1. /\ o.key = k /\ creations[k] = Creation(o) /\ invoices[o.id] \in Versions(o)
      /\ requests[o.id] = StoredRequest(o)
  BY DEF Placed
<1>2. creations[k].id = o.id /\ creations[k].terms = TermsOf(o)
  BY <1>1 DEF Creation
<1>3. creations[k] # Nothing /\ invoices[o.id] # Nothing
  BY <1>1, OrderRowsThere, VersionFields
<1>4. RowOf(k) = [terms |-> TermsOf(o), invoice |-> invoices[o.id], request |-> StoredRequest(o)]
  BY <1>1, <1>2, <1>3 DEF RowOf
<1> PICK row : row = RowOf(k)
  OBVIOUS
<1>5. row.invoice = invoices[o.id] /\ row.request = StoredRequest(o)
  BY <1>4
<1>6. row.invoice.merchant = MerchantOf[o.key] /\ NewInvoice(o).merchant = MerchantOf[o.key]
  BY <1>1, <1>5, VersionFields, InvoiceFields
<1> PICK f : f = StoredRequest(o).fingerprint
  OBVIOUS
<1>7. f = [merchant |-> MerchantOf[o.key], request |-> NewRequest(o),
           destination |-> Config[o.at].destination]
  BY StoredFields
<1>8. f.request = NewRequest(o)
  BY <1>7
<1>9. RowArtifact(row) = Artifact(NewInvoice(o), NewRequest(o))
  BY <1>5, <1>6, <1>8 DEF RowArtifact, Artifact
<1> QED
  BY <1>2, <1>3, <1>9 DEF IssuedTo, Published

\* The same of the next state.
LEMMA PlacedIssuedNext ==
    ASSUME NEW k \in Keys, NEW o \in Order, Placed(k, o)'
    PROVE  IssuedTo(k)' = Published(o) /\ creations'[k] # Nothing
<1>1. /\ o.key = k /\ creations'[k] = Creation(o) /\ invoices'[o.id] \in Versions(o)
      /\ requests'[o.id] = StoredRequest(o)
  BY DEF Placed
<1>2. creations'[k].id = o.id /\ creations'[k].terms = TermsOf(o)
  BY <1>1 DEF Creation
<1>3. creations'[k] # Nothing /\ invoices'[o.id] # Nothing
  BY <1>1, OrderRowsThere, VersionFields
<1>4. RowOf(k)' = [terms |-> TermsOf(o), invoice |-> invoices'[o.id], request |-> StoredRequest(o)]
  BY <1>1, <1>2, <1>3 DEF RowOf
<1> PICK row : row = RowOf(k)'
  OBVIOUS
<1>5. row.invoice = invoices'[o.id] /\ row.request = StoredRequest(o)
  BY <1>4
<1>6. row.invoice.merchant = MerchantOf[o.key] /\ NewInvoice(o).merchant = MerchantOf[o.key]
  BY <1>1, <1>5, VersionFields, InvoiceFields
<1> PICK f : f = StoredRequest(o).fingerprint
  OBVIOUS
<1>7. f = [merchant |-> MerchantOf[o.key], request |-> NewRequest(o),
           destination |-> Config[o.at].destination]
  BY StoredFields
<1>8. f.request = NewRequest(o)
  BY <1>7
<1>9. RowArtifact(row) = Artifact(NewInvoice(o), NewRequest(o))
  BY <1>5, <1>6, <1>8 DEF RowArtifact, Artifact
<1> QED
  BY <1>2, <1>3, <1>9 DEF IssuedTo, Published

LEMMA PublishedFields ==
    ASSUME NEW o \in Order
    PROVE  /\ Published(o) # Nothing
           /\ Published(o).terms = TermsOf(o)
           /\ Published(o).artifact = Artifact(NewInvoice(o), NewRequest(o))
           /\ IdOf(Published(o).artifact) = o.id
<1> PICK n : n = NewRequest(o)
  OBVIOUS
<1> PICK e : e = StoredRequest(o).encoded
  OBVIOUS
<1>1. e = [id |-> o.id, amount |-> o.body.amount, mints |-> DOMAIN AcceptedRoutes[o.at],
           transport |-> Config[o.at].transport]
  BY StoredFields
<1>2. n = [encoded |-> e, issuedAt |-> o.now, expiresAt |-> o.body.expiresAt,
           operators |-> AcceptedRoutes[o.at], transport |-> Config[o.at].transport]
  BY StoredFields
<1>3. n.encoded.id = o.id
  BY <1>1, <1>2
<1>4. Artifact(NewInvoice(o), n).request = n
  BY DEF Artifact
<1>5. Published(o) # Nothing
  BY NothingAssumption DEF Published
<1> QED
  BY <1>3, <1>4, <1>5 DEF Published, IdOf

\* A step of one call that writes nothing changes what that call shows.
LEMMA CallShows ==
    ASSUME IInv, NEW c \in Calls, NEW m, UNCHANGED db, To(c, m)
    PROVE  /\ issued' = issued
           /\ asked' = [asked EXCEPT ![c] = AskedBy(m)]
           /\ answered' = [answered EXCEPT ![c] = Shown(m)]
<1>1. call'[c] = m /\ \A d \in Calls \ {c} : call'[d] = call[d]
  BY DEF IInv, To
<1>2. issued' = issued
  BY DEF issued, IssuedTo, RowOf, RowArtifact, db
<1>3. \A d \in Calls : AskedBy(call[d])' = AskedBy(call'[d]) /\ Shown(call[d])' = Shown(call'[d])
  BY DEF AskedBy, Shown, TermsOf
<1>4. /\ asked' = [d \in Calls |-> AskedBy(call'[d])]
      /\ answered' = [d \in Calls |-> Shown(call'[d])]
  BY <1>3 DEF asked, answered
<1> QED
  BY <1>1, <1>2, <1>4 DEF asked, answered

\* The same, of a call that goes on asking for what it asked.
LEMMA CallShowsAnswer ==
    ASSUME IInv, NEW c \in Calls, NEW l, l = call[c], NEW m, UNCHANGED db, To(c, m),
           m.op = l.op, m.key = l.key, m.body = l.body, m.at = l.at
    PROVE  /\ issued' = issued /\ asked' = asked
           /\ answered' = [answered EXCEPT ![c] = Shown(m)]
           /\ m.answer = l.answer => Same
<1>1. /\ issued' = issued
      /\ asked' = [asked EXCEPT ![c] = AskedBy(m)]
      /\ answered' = [answered EXCEPT ![c] = Shown(m)]
  BY CallShows
<1>2. AskedBy(m) = AskedBy(l) /\ (m.answer = l.answer => Shown(m) = Shown(l))
  BY DEF AskedBy, TermsOf, Shown
<1>3. asked[c] = AskedBy(l) /\ answered[c] = Shown(l)
  BY DEF asked, answered
<1>4. asked' = asked
  BY <1>1, <1>2, <1>3 DEF asked
<1>5. m.answer = l.answer => answered' = answered
  BY <1>1, <1>2, <1>3 DEF answered
<1> QED
  BY <1>1, <1>4, <1>5 DEF Same

\* A call that ends is answered, reads, fails or shows nothing.
LEMMA EndMaps ==
    ASSUME IInv, NEW c \in Calls, UNCHANGED db, NEW l, l = call[c], l.pc \notin {"idle", "ended"},
           NEW m, To(c, m), m.op = l.op, m.key = l.key, m.body = l.body, m.at = l.at,
           NEW a, m.answer = a,
           \/ a = Refused("failed")
           \/ a = Refused("missing") /\ l.op = "find"
           \/ \E o \in Order :
                 /\ Placed(o.key, o) /\ (l.op = "create" => o.key = l.key)
                 /\ \/ a = Issued(Published(o).artifact)
                       /\ (l.op = "create" => TermsOf(o) = TermsOf(l))
                    \/ a = Refused("conflict") /\ l.op = "create" /\ TermsOf(o) # TermsOf(l)
    PROVE  Abstract!Next \/ Same
<1>1. /\ issued' = issued /\ asked' = asked
      /\ answered' = [answered EXCEPT ![c] = Shown(m)]
  BY CallShowsAnswer
<1>2. l.op \in {"create", "find"} /\ l.answer = Refused("none")
  BY CallPlace DEF Fits, Answered
<1>3. answered[c] = Refused("none") /\ asked[c] = AskedBy(l)
  BY <1>2, RefusedFields DEF answered, asked, Shown
<1>4. CASE l.op = "create"
  <2>1. asked[c] = [key |-> l.key, terms |-> TermsOf(l)] /\ Shown(m) = a
    BY <1>3, <1>4 DEF AskedBy, Shown
  <2>2. /\ l.key \in Keys /\ l.body \in Bodies /\ l.at \in Deployments
    BY <1>4, CallPlace
  <2>3. asked[c] # Nothing
    <3>1. TermsOf(l) \in Terms
      BY <2>2 DEF TermsOf, Terms
    <3> QED
      BY <2>1, <2>2, <3>1, NothingAssumption
  <2>4. CASE a = Refused("failed")
    BY <1>1, <1>3, <2>1, <2>3, <2>4, FailIsStep
  <2>5. CASE a # Refused("failed")
    <3>1. PICK o \in Order :
             /\ Placed(o.key, o) /\ o.key = l.key
             /\ \/ a = Issued(Published(o).artifact) /\ TermsOf(o) = TermsOf(l)
                \/ a = Refused("conflict") /\ TermsOf(o) # TermsOf(l)
      BY <1>4, <2>5
    <3> PICK i : i = issued[asked[c].key]
      OBVIOUS
    <3>2. i = Published(o)
      BY <2>1, <2>2, <3>1, PlacedIssued DEF issued
    <3>3. i # Nothing /\ i.terms = TermsOf(o)
      BY <3>2, PublishedFields
    <3>4. Answers(i, asked[c], a)
      BY <2>1, <3>1, <3>2, <3>3 DEF Answers
    <3> QED
      BY <1>1, <1>3, <2>1, <2>3, <3>3, <3>4, AnswerIsStep
  <2> QED
    BY <2>4, <2>5
<1>5. CASE l.op = "find"
  <2>1. asked[c] = Nothing
    BY <1>3, <1>5 DEF AskedBy
  <2>2. CASE a \in {Refused("failed"), Refused("missing")}
    <3>1. Shown(m) = Refused("none")
      BY <1>5, <2>2, RefusedFields DEF Shown
    <3> QED
      BY <1>1, <1>3, <3>1 DEF Same, answered
  <2>3. CASE a \notin {Refused("failed"), Refused("missing")}
    <3>1. PICK o \in Order : Placed(o.key, o) /\ a = Issued(Published(o).artifact)
      BY <1>5, <2>3
    <3>2. o.key \in Keys
      BY OrderFields
    <3>3. issued[o.key] = Published(o)
      BY <3>1, <3>2, PlacedIssued DEF issued
    <3>4. Shown(m) = Issued(issued[o.key].artifact)
      BY <3>1, <3>3, IssuedFields DEF Shown
    <3>5. issued[o.key] # Nothing
      BY <3>3, PublishedFields
    <3> QED
      BY <1>1, <1>3, <2>1, <3>2, <3>4, <3>5, ReadIsStep
  <2> QED
    BY <2>2, <2>3
<1> QED
  BY <1>2, <1>4, <1>5

\* Of the steps of a call, those that end it are seen.
LEMMA EndStepMaps ==
    ASSUME IInv, NEW c \in Calls, UNCHANGED db, NEW l, l = call[c], l.pc \notin {"idle", "ended"},
           NEW a, Ends(c, a),
           \/ a = Refused("failed")
           \/ a = Refused("missing") /\ l.op = "find"
           \/ \E o \in Order :
                 /\ Placed(o.key, o) /\ (l.op = "create" => o.key = l.key)
                 /\ \/ a = Issued(Published(o).artifact)
                       /\ (l.op = "create" => TermsOf(o) = TermsOf(l))
                    \/ a = Refused("conflict") /\ l.op = "create" /\ TermsOf(o) # TermsOf(l)
    PROVE  Abstract!Next \/ Same
<1> PICK m : m = Ended(l, a)
  OBVIOUS
<1>1. To(c, m)
  BY DEF Ends, Ended
<1>2. DOMAIN l = Fields
  BY CallPlace
<1>3. m.op = l.op /\ m.key = l.key /\ m.body = l.body /\ m.at = l.at /\ m.answer = a
  BY <1>2 DEF Ended, Fields
<1> QED
  BY <1>1, <1>3, EndMaps

LEMMA FailureMaps ==
    ASSUME IInv, NEW c \in Calls, UNCHANGED db, NEW l, l = call[c], l.pc \notin {"idle", "ended"},
           NEW m, To(c, m), m.op = l.op, m.key = l.key, m.body = l.body, m.at = l.at,
           m.answer = Refused("failed")
    PROVE  Abstract!Next \/ Same
  BY EndMaps

LEMMA QuietMaps ==
    ASSUME IInv, NEW c \in Calls, UNCHANGED db, NEW l, l = call[c], NEW m, To(c, m),
           m.op = l.op, m.key = l.key, m.body = l.body, m.at = l.at, m.answer = l.answer
    PROVE  Same
  BY CallShowsAnswer

LEMMA MatchMaps ==
    ASSUME IInv, NEW c \in Calls, UNCHANGED db, call[c].pc \in {"lookup", "replay"},
           creations[call[c].key] # Nothing, Match(c, RowOf(call[c].key))
    PROVE  Abstract!Next \/ Same
<1> PICK l : l = call[c]
  OBVIOUS
<1> PICK row : row = RowOf(l.key)
  OBVIOUS
<1>1. DOMAIN l = Fields /\ l.op = "create" /\ l.key \in Keys
  BY CallPlace
<1>2. PICK o \in Order :
         /\ Placed(l.key, o)
         /\ row = [terms |-> TermsOf(o), invoice |-> invoices[o.id], request |-> StoredRequest(o)]
  BY <1>1, StoredRow DEF IInv
<1>3. o.key = l.key /\ row.terms = TermsOf(o)
  BY <1>2 DEF Placed
<1>4. CASE row.terms # TermsOf(l)
  <2> PICK a : a = Refused("conflict")
    OBVIOUS
  <2>1. Ends(c, a)
    BY <1>4 DEF Match
  <2>2. Placed(o.key, o) /\ o.key = l.key /\ l.op = "create" /\ TermsOf(o) # TermsOf(l)
    BY <1>1, <1>2, <1>3, <1>4
  <2>3. l.pc \notin {"idle", "ended"}
    OBVIOUS
  <2> QED
    BY <2>1, <2>2, <2>3, EndStepMaps
<1>5. CASE row.terms = TermsOf(l)
  <2> PICK m : m = Reads(l, row)
    OBVIOUS
  <2>1. To(c, m)
    BY <1>5 DEF Match, Reads
  <2>2. m.op = l.op /\ m.key = l.key /\ m.body = l.body /\ m.at = l.at /\ m.answer = l.answer
    BY <1>1 DEF Reads, Fields
  <2> QED
    BY <2>1, <2>2, QuietMaps
<1> QED
  BY <1>4, <1>5

LEMMA CreateMaps ==
    ASSUME IInv, NEW c \in Calls, NEW k \in Keys, NEW b \in Bodies, NEW d \in Deployments,
           Create(c, k, b, d)
    PROVE  Abstract!Next
<1> PICK m : m = [Idle EXCEPT !.op = "create", !.pc = "lookup", !.key = k, !.body = b, !.at = d]
  OBVIOUS
<1>1. To(c, m) /\ UNCHANGED db /\ call[c].pc = "idle"
  BY DEF Create
<1>2. m.op = "create" /\ m.key = k /\ m.body = b /\ m.at = d /\ m.answer = Refused("none")
  BY IdleFields DEF Fields
<1>3. call[c] = Idle
  BY <1>1, CallPlace
<1>4. asked[c] = Nothing /\ answered[c] = Shown(m)
  BY <1>2, <1>3, IdleFields DEF asked, answered, AskedBy, Shown
<1> PICK t : t = TermsOf(m)
  OBVIOUS
<1>5. t \in Terms /\ AskedBy(m) = [key |-> k, terms |-> t]
  BY <1>2 DEF TermsOf, Terms, AskedBy
<1>6. /\ issued' = issued
      /\ asked' = [asked EXCEPT ![c] = [key |-> k, terms |-> t]]
      /\ answered' = [answered EXCEPT ![c] = Shown(m)]
  BY <1>1, <1>5, CallShows
<1>7. answered' = answered
  BY <1>4, <1>6 DEF answered
<1> QED
  BY <1>4, <1>5, <1>6, <1>7, AskIsStep

LEMMA FindMaps ==
    ASSUME IInv, NEW c \in Calls, NEW k \in Keys, NEW id \in Ids, Find(c, k, id)
    PROVE  Same
<1> PICK m : m = [Idle EXCEPT !.op = "find", !.pc = "find", !.key = k, !.id = id]
  OBVIOUS
<1>1. To(c, m) /\ UNCHANGED db /\ call[c].pc = "idle"
  BY DEF Find
<1>2. m.op = "find" /\ m.answer = Refused("none")
  BY IdleFields DEF Fields
<1>3. call[c] = Idle
  BY <1>1, CallPlace
<1>4. asked[c] = AskedBy(m) /\ answered[c] = Shown(m)
  BY <1>2, <1>3, IdleFields, RefusedFields DEF asked, answered, AskedBy, Shown
<1>5. /\ issued' = issued
      /\ asked' = [asked EXCEPT ![c] = AskedBy(m)]
      /\ answered' = [answered EXCEPT ![c] = Shown(m)]
  BY <1>1, CallShows
<1> QED
  BY <1>4, <1>5 DEF Same, asked, answered

LEMMA StepMaps ==
    ASSUME IInv, NEW c \in Calls, Step(c)
    PROVE  Abstract!Next \/ Same
<1> PICK l : l = call[c]
  OBVIOUS
<1>1. /\ Fits(l) /\ DOMAIN l = Fields
      /\ l.op = "create" => l.key \in Keys /\ l.body \in Bodies /\ l.at \in Deployments
  BY CallPlace
<1>2. CASE Lookup(c)
  <2>1. l.pc = "lookup" /\ UNCHANGED db /\ l.key \in Keys
    BY <1>2, CallPlace DEF Lookup
  <2>2. CASE creations[l.key] = Nothing
    <3> PICK m : m = [l EXCEPT !.pc = "clock"]
      OBVIOUS
    <3>1. To(c, m)
      BY <1>2, <2>1, <2>2, NoRow DEF Lookup
    <3>2. m.op = l.op /\ m.key = l.key /\ m.body = l.body /\ m.at = l.at /\ m.answer = l.answer
      BY <1>1 DEF Fields
    <3> QED
      BY <2>1, <3>1, <3>2, QuietMaps
  <2>3. CASE creations[l.key] # Nothing
    <3>1. Match(c, RowOf(l.key))
      BY <1>2, <2>1, <2>3, NoRow DEF Lookup
    <3> QED
      BY <2>1, <2>3, <3>1, MatchMaps
  <2> QED
    BY <2>2, <2>3
<1>3. CASE FindRow(c)
  <2> PICK row : row = OpenRowOf(l.id, MerchantOf[l.key])
    OBVIOUS
  <2>1. l.pc = "find" /\ UNCHANGED db /\ l.op = "find"
    BY <1>3, CallPlace DEF FindRow
  <2>2. CASE row = Nothing
    <3> PICK a : a = Refused("missing")
      OBVIOUS
    <3>1. Ends(c, a)
      BY <1>3, <2>2 DEF FindRow
    <3>2. l.pc \notin {"idle", "ended"}
      BY <2>1
    <3> QED
      BY <2>1, <3>1, <3>2, EndStepMaps
  <2>3. CASE row # Nothing
    <3> PICK m : m = Reads(l, row)
      OBVIOUS
    <3>1. To(c, m)
      BY <1>3, <2>3 DEF FindRow, Reads
    <3>2. m.op = l.op /\ m.key = l.key /\ m.body = l.body /\ m.at = l.at /\ m.answer = l.answer
      BY <1>1 DEF Reads, Fields
    <3> QED
      BY <2>1, <3>1, <3>2, QuietMaps
  <2> QED
    BY <2>2, <2>3
<1>4. CASE ReadRoutes(c)
  <2> PICK a : a = Answer(l.row, routes[l.row.invoice.id])
    OBVIOUS
  <2>1. l.pc = "routes" /\ UNCHANGED db /\ Ends(c, a)
    BY <1>4 DEF ReadRoutes
  <2>2. PICK o \in Order :
           /\ Placed(o.key, o)
           /\ l.op = "create" => o.key = l.key /\ TermsOf(o) = TermsOf(l)
           /\ a = Issued(Artifact(NewInvoice(o), NewRequest(o)))
    BY <2>1, RoutesAnswered
  <2>3. a = Issued(Published(o).artifact)
    BY <2>2, PublishedFields
  <2>4. l.pc \notin {"idle", "ended"}
    BY <2>1
  <2> QED
    BY <2>1, <2>2, <2>3, <2>4, EndStepMaps
<1>5. ASSUME NEW t \in Times, ReadClock(c, t)
      PROVE  Abstract!Next \/ Same
  <2>1. l.pc = "clock" /\ UNCHANGED db
    BY <1>5 DEF ReadClock
  <2>2. CASE l.body.expiresAt > t
    <3> PICK m : m = [l EXCEPT !.pc = "generate", !.now = t]
      OBVIOUS
    <3>1. To(c, m)
      BY <1>5, <2>2 DEF ReadClock
    <3>2. m.op = l.op /\ m.key = l.key /\ m.body = l.body /\ m.at = l.at /\ m.answer = l.answer
      BY <1>1 DEF Fields
    <3> QED
      BY <2>1, <3>1, <3>2, QuietMaps
  <2>3. CASE ~(l.body.expiresAt > t)
    <3> PICK a : a = Refused("failed")
      OBVIOUS
    <3>1. Ends(c, a)
      BY <1>5, <2>3 DEF ReadClock
    <3>2. l.pc \notin {"idle", "ended"}
      BY <2>1
    <3> QED
      BY <2>1, <3>1, <3>2, EndStepMaps
  <2> QED
    BY <2>2, <2>3
<1>6. ASSUME NEW id \in Ids, Generate(c, id)
      PROVE  Abstract!Next \/ Same
  <2> PICK m : m = [l EXCEPT !.pc = "insert", !.id = id, !.tries = @ + 1]
    OBVIOUS
  <2>1. l.pc = "generate" /\ UNCHANGED db
    BY <1>6 DEF Generate
  <2>2. To(c, m)
    BY <1>6, GeneratedStorable DEF Generate
  <2>3. m.op = l.op /\ m.key = l.key /\ m.body = l.body /\ m.at = l.at /\ m.answer = l.answer
    BY <1>1 DEF Fields
  <2> QED
    BY <2>1, <2>2, <2>3, QuietMaps
<1>7. CASE InsertKey(c)
  <2> PICK m : m = IF creations[l.key] # Nothing THEN [l EXCEPT !.pc = "replay"]
                   ELSE [l EXCEPT !.tx = "key"]
    OBVIOUS
  <2>1. UNCHANGED db /\ To(c, m)
    BY <1>7 DEF InsertKey
  <2>2. m.op = l.op /\ m.key = l.key /\ m.body = l.body /\ m.at = l.at /\ m.answer = l.answer
    BY <1>1 DEF Fields
  <2> QED
    BY <2>1, <2>2, QuietMaps
<1>8. CASE Replay(c)
  <2>1. l.pc = "replay" /\ UNCHANGED db
    BY <1>8 DEF Replay
  <2>2. l.key \in Keys /\ creations[l.key] # Nothing
    BY <1>1, <2>1, CallPlace DEF Fits, Transacts
  <2>3. Match(c, RowOf(l.key))
    BY <1>8, <2>2, NoRow DEF Replay
  <2> QED
    BY <2>1, <2>2, <2>3, MatchMaps
<1>9. CASE InsertId(c)
  <2>1. l.pc = "insert" /\ UNCHANGED db
    BY <1>9 DEF InsertId
  <2>2. CASE Taken(l.id) /\ ~(l.tries < IdAttempts)
    <3> PICK a : a = Refused("failed")
      OBVIOUS
    <3> PICK m : m = [l EXCEPT !.pc = "ended", !.answer = a, !.tx = "none"]
      OBVIOUS
    <3>1. To(c, m)
      BY <1>9, <2>2 DEF InsertId
    <3>2. m.op = l.op /\ m.key = l.key /\ m.body = l.body /\ m.at = l.at /\ m.answer = a
      BY <1>1 DEF Fields
    <3>3. l.pc \notin {"idle", "ended"}
      BY <2>1
    <3> QED
      BY <2>1, <3>1, <3>2, <3>3, FailureMaps
  <2>3. CASE ~Taken(l.id) \/ l.tries < IdAttempts
    <3> PICK m : m = IF ~Taken(l.id) THEN [l EXCEPT !.tx = "id"]
                     ELSE [l EXCEPT !.pc = "generate", !.tx = "none"]
      OBVIOUS
    <3>1. To(c, m)
      BY <1>9, <2>3 DEF InsertId
    <3>2. m.op = l.op /\ m.key = l.key /\ m.body = l.body /\ m.at = l.at /\ m.answer = l.answer
      BY <1>1 DEF Fields
    <3> QED
      BY <2>1, <3>1, <3>2, QuietMaps
  <2> QED
    BY <2>2, <2>3
<1>10. CASE InsertRows(c)
  <2> PICK m : m = [l EXCEPT !.tx = "commit"]
    OBVIOUS
  <2>1. UNCHANGED db /\ To(c, m)
    BY <1>10 DEF InsertRows
  <2>2. m.op = l.op /\ m.key = l.key /\ m.body = l.body /\ m.at = l.at /\ m.answer = l.answer
    BY <1>1 DEF Fields
  <2> QED
    BY <2>1, <2>2, QuietMaps
<1>11. CASE Receive(c)
  <2> PICK o : o = OrderOf(l)
    OBVIOUS
  <2> PICK a : a = Issued(Artifact(NewInvoice(l), NewRequest(l)))
    OBVIOUS
  <2>1. l.pc = "insert" /\ l.tx = "committed" /\ UNCHANGED db /\ Ends(c, a)
    BY <1>11 DEF Receive
  <2>2. Placed(l.key, o)
    BY <1>1, <2>1 DEF Fits, Transacts
  <2>3. o \in Order /\ o.key = l.key
    BY <2>2 DEF Placed, Timely
  <2>4. /\ TermsOf(o) = TermsOf(l)
        /\ NewInvoice(o) = NewInvoice(l) /\ NewRequest(o) = NewRequest(l)
    BY OrderIsCall
  <2>5. a = Issued(Published(o).artifact)
    BY <2>3, <2>4, PublishedFields
  <2>6. l.pc \notin {"idle", "ended"} /\ Placed(o.key, o)
    BY <2>1, <2>2, <2>3
  <2> QED
    BY <2>1, <2>3, <2>4, <2>5, <2>6, EndStepMaps
<1> QED
  BY <1>2, <1>3, <1>4, <1>5, <1>6, <1>7, <1>8, <1>9, <1>10, <1>11 DEF Step

LEMMA CommitMaps ==
    ASSUME IInv, NEW c \in Calls, Commit(c)
    PROVE  Abstract!Next
<1> PICK l : l = call[c]
  OBVIOUS
<1> PICK o : o = OrderOf(l)
  OBVIOUS
<1>1. /\ Timely(o) /\ o.key = l.key /\ o.id = l.id /\ TermsOf(o) = TermsOf(l)
      /\ creations[o.key] = Nothing /\ ~Taken(o.id)
      /\ creations' = [creations EXCEPT ![o.key] = Creation(o)]
      /\ Placed(o.key, o)'
  BY CommitPlaces
<1>2. o \in Order /\ o.key \in Keys
  BY <1>1, OrderFields DEF Timely
<1> PICK m : m = [l EXCEPT !.tx = "committed"]
  OBVIOUS
<1>3. l.tx = "commit" /\ To(c, m)
  BY DEF Commit
<1>4. /\ Fits(l) /\ DOMAIN l = Fields /\ l.op = "create"
      /\ l.key \in Keys /\ l.body \in Bodies /\ l.at \in Deployments
  BY <1>3, CallPlace
<1>5. /\ m.op = l.op /\ m.key = l.key /\ m.body = l.body /\ m.at = l.at /\ m.answer = l.answer
  BY <1>4 DEF Fields
<1>6. asked' = asked /\ answered' = answered
  <2>1. AskedBy(m) = AskedBy(l) /\ Shown(m) = Shown(l)
    BY <1>5 DEF AskedBy, TermsOf, Shown
  <2>2. call'[c] = m /\ \A d \in Calls \ {c} : call'[d] = call[d]
    BY <1>3 DEF To, IInv
  <2>3. ASSUME NEW d \in Calls
        PROVE  AskedBy(call[d])' = AskedBy(call[d]) /\ Shown(call[d])' = Shown(call[d])
    <3>1. AskedBy(call[d])' = AskedBy(call'[d]) /\ Shown(call[d])' = Shown(call'[d])
      BY DEF AskedBy, Shown, TermsOf
    <3> QED
      BY <2>1, <2>2, <3>1
  <2> QED
    BY <2>3 DEF asked, answered
<1>7. asked[c] = [key |-> l.key, terms |-> TermsOf(l)] /\ answered[c] = l.answer
  BY <1>4 DEF asked, answered, AskedBy, Shown
<1>8. asked[c] # Nothing
  <2>1. TermsOf(l) \in Terms
    BY <1>4 DEF TermsOf, Terms
  <2> QED
    BY <1>4, <1>7, <2>1, NothingAssumption
<1>9. answered[c].kind \in {"none", "failed"}
  BY <1>3, <1>4, <1>7 DEF Fits, Answered
<1>10. issued[o.key] = Nothing
  BY <1>1, <1>2 DEF issued, IssuedTo
<1>11. ASSUME NEW k \in Keys, k # o.key
       PROVE  /\ IssuedTo(k)' = IssuedTo(k)
              /\ IssuedTo(k) # Nothing => IdOf(IssuedTo(k).artifact) # o.id
  <2>1. creations'[k] = creations[k]
    BY <1>1, <1>11 DEF IInv, Tables
  <2>2. CASE creations[k] = Nothing
    BY <2>1, <2>2 DEF IssuedTo
  <2>3. CASE creations[k] # Nothing
    <3>1. PICK p \in Order : Placed(k, p)
      BY <2>3 DEF IInv, Tables
    <3>2. Placed(k, p)'
      BY <3>1, PlacedStays
    <3>3. IssuedTo(k) = Published(p) /\ IssuedTo(k)' = Published(p)
      BY <3>1, <3>2, PlacedIssued, PlacedIssuedNext
    <3>4. p.id # o.id
      BY <1>1, <2>3, <3>1 DEF Placed, Creation, Taken
    <3> QED
      BY <3>3, <3>4, PublishedFields
  <2> QED
    BY <2>2, <2>3
<1>12. IssuedTo(o.key)' = Published(o)
  BY <1>1, <1>2, PlacedIssuedNext
<1>13. issued' = [k \in Keys |-> IssuedTo(k)']
  BY DEF issued
<1>14. issued' = [issued EXCEPT ![o.key] = Published(o)] /\ issued'[o.key] = Published(o)
  BY <1>2, <1>11, <1>12, <1>13 DEF issued
<1>15. /\ Published(o) # Nothing /\ Published(o).terms = TermsOf(o)
       /\ IdOf(Published(o).artifact) = o.id
  BY <1>2, PublishedFields
<1>16. ASSUME NEW j \in Keys, issued[j] # Nothing
       PROVE  IdOf(issued[j].artifact) # IdOf(Published(o).artifact)
  <2>1. issued[j] = IssuedTo(j) /\ j # o.key
    BY <1>10, <1>16 DEF issued
  <2> QED
    BY <1>11, <1>15, <1>16, <2>1
<1> PICK new : new = Published(o)
  OBVIOUS
<1>17. asked[c].key = o.key /\ asked[c].terms = TermsOf(o)
  BY <1>1, <1>7
<1> QED
  BY <1>6, <1>8, <1>9, <1>10, <1>14, <1>15, <1>16, <1>17, IssueIsStep

LEMMA PayMaps ==
    ASSUME IInv, NEW id \in Ids, NEW u, NEW t \in Times, Pay(id, u, t)
    PROVE  Same
<1>1. UNCHANGED <<creations, requests, routes, call>>
  BY DEF Pay
<1>2. asked' = asked /\ answered' = answered
  BY <1>1 DEF asked, answered, AskedBy, Shown, TermsOf
<1>3. ASSUME NEW k \in Keys
      PROVE  IssuedTo(k)' = IssuedTo(k)
  <2>1. CASE creations[k] = Nothing
    BY <1>1, <2>1 DEF IssuedTo
  <2>2. CASE creations[k] # Nothing
    <3>1. PICK p \in Order : Placed(k, p)
      BY <2>2 DEF IInv, Tables
    <3>2. Placed(k, p)'
      BY <3>1, PayPlaced
    <3> QED
      BY <3>1, <3>2, PlacedIssued, PlacedIssuedNext
  <2> QED
    BY <2>1, <2>2
<1>4. issued' = [k \in Keys |-> IssuedTo(k)']
  BY DEF issued
<1> QED
  BY <1>2, <1>3, <1>4 DEF Same, issued

LEMMA AbortMaps ==
    ASSUME IInv, NEW c \in Calls, Abort(c)
    PROVE  Same
<1> PICK l : l = call[c]
  OBVIOUS
<1> PICK m : m = [l EXCEPT !.tx = "none"]
  OBVIOUS
<1>1. UNCHANGED db /\ To(c, m) /\ DOMAIN l = Fields
  BY CallPlace DEF Abort
<1>2. m.op = l.op /\ m.key = l.key /\ m.body = l.body /\ m.at = l.at /\ m.answer = l.answer
  BY <1>1 DEF Fields
<1> QED
  BY <1>1, <1>2, QuietMaps

LEMMA GiveUpMaps ==
    ASSUME IInv, NEW c \in Calls, GiveUp(c)
    PROVE  Abstract!Next \/ Same
<1> PICK l : l = call[c]
  OBVIOUS
<1> PICK a : a = Refused("failed")
  OBVIOUS
<1>1. l.pc \notin {"idle", "ended"} /\ UNCHANGED db /\ Ends(c, a)
  BY DEF GiveUp
<1> QED
  BY <1>1, EndStepMaps

LEMMA InitMaps == Init => Abstract!Init
<1>1. SUFFICES ASSUME Init
               PROVE  Abstract!Init
  OBVIOUS
<1>2. asked = [c \in Calls |-> Nothing] /\ answered = [c \in Calls |-> Refused("none")]
  BY <1>1, IdleFields DEF Init, asked, answered, AskedBy, Shown
<1>3. issued = [k \in Keys |-> Nothing]
  BY <1>1 DEF Init, issued, IssuedTo
<1> QED
  BY <1>2, <1>3 DEF Abstract!Init, Abstract!None, Refused

LEMMA NextMaps == IInv /\ [Next]_vars => [Abstract!Next]_Abstract!vars
<1>1. SUFFICES ASSUME IInv, [Next]_vars
               PROVE  Abstract!Next \/ Same
  BY SameIsStutter
<1>2. CASE UNCHANGED vars
  BY <1>2 DEF vars, db, Same, asked, issued, answered, AskedBy, Shown, TermsOf, IssuedTo,
             RowOf, RowArtifact
<1> QED
  BY <1>1, <1>2, CreateMaps, FindMaps, StepMaps, CommitMaps, AbortMaps, GiveUpMaps, PayMaps
  DEF Next

\* docs/invoice-api.md, idempotency: a key has one invoice, by one of its
\* requests, and every answer is that invoice as it was issued, or the refusal
\* of other terms, or a failure that says nothing; a GET answers what some key
\* was issued.
THEOREM PromiseKept == Spec => ImplementsIssueOnce
<1>1. Init => Abstract!Init
  BY InitMaps
<1>2. IInv /\ [Next]_vars => [Abstract!Next]_Abstract!vars
  BY NextMaps
<1> QED
  BY <1>1, <1>2, Inductive, PTL DEF Spec, ImplementsIssueOnce, Abstract!Spec

=============================================================================
