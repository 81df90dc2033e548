----------------------- MODULE ProofReservationProofs -----------------------
(***************************************************************************)
(* The safety of reservations and keyset evidence, for any number of       *)
(* concurrent calls, any payments, proofs and keysets, and a mint that     *)
(* publishes what it likes: the invariants of the run evidence, and that a *)
(* reservation made of statements is one step of PaymentEscrow.            *)
(***************************************************************************)
EXTENDS ProofReservation, FiniteSetTheorems, TLAPS

-----------------------------------------------------------------------------
(* The order in which a transaction takes the rows of a set                *)

Rank(S, k)  == Cardinality({j \in S : j < k})
Lowest(S, n) == {k \in S : Rank(S, k) < n}

LEMMA Smallest ==
  ASSUME NEW S, S \subseteq Nat, S # {}
  PROVE  \E n \in S : \A m \in S : n <= m
  <1> DEFINE R == OpToRel(<, Nat)
  <1>1. IsWellFoundedOn(R, Nat)
    BY NatLessThanWellFounded
  <1>2. \A x, y \in Nat : x < y => <<x, y>> \in R
    BY DEF OpToRel
  <1> HIDE DEF R
  <1>3. PICK n \in S : \A m \in S : <<m, n>> \notin R
    BY <1>1, WFMin
  <1>4. ASSUME NEW m \in S PROVE n <= m
    <2>1. m \in Nat /\ n \in Nat /\ ~(m < n)
      BY <1>2, <1>3
    <2> QED
      BY <2>1
  <1> QED
    BY <1>4

\* The rank of a member is a number below the size of the set, and a later
\* member has a higher one.
LEMMA Ranks ==
  ASSUME NEW S, S \subseteq Nat, IsFiniteSet(S), NEW k \in S
  PROVE  /\ Rank(S, k) \in Nat /\ Rank(S, k) < Cardinality(S)
         /\ IsFiniteSet({j \in S : j < k}) /\ Cardinality(S) \in Nat
         /\ \A i \in S : i < k => Rank(S, i) < Rank(S, k)
  <1> DEFINE Below(x) == {j \in S : j < x}
  <1>1. \A x \in S : Below(x) \subseteq S /\ x \notin Below(x)
    OBVIOUS
  <1>2. ASSUME NEW i \in S, i < k
        PROVE  Below(i) \subseteq Below(k) /\ i \in Below(k)
    <2>1. \A j \in S : j < i => j < k
      BY <1>2
    <2> QED
      BY <1>2, <2>1
  <1>3. \A x : Rank(S, x) = Cardinality(Below(x))
    BY DEF Rank
  <1>4. Below(k) = {j \in S : j < k}
    OBVIOUS
  <1> HIDE DEF Below
  <1>5. \A x \in S : /\ IsFiniteSet(Below(x)) /\ Cardinality(Below(x)) \in Nat
                     /\ Cardinality(Below(x)) < Cardinality(S) /\ Cardinality(S) \in Nat
    <2> TAKE x \in S
    <2>1. Below(x) \subseteq S /\ Below(x) # S
      BY <1>1
    <2>2. IsFiniteSet(Below(x)) /\ Cardinality(Below(x)) <= Cardinality(S)
          /\ (Cardinality(Below(x)) = Cardinality(S) => Below(x) = S)
      BY <2>1, FS_Subset
    <2>3. Cardinality(Below(x)) \in Nat /\ Cardinality(S) \in Nat
      BY <2>2, FS_CardinalityType
    <2> QED
      BY <2>1, <2>2, <2>3
  <1>6. ASSUME NEW i \in S, i < k
        PROVE  Cardinality(Below(i)) < Cardinality(Below(k))
    <2>1. Below(i) \subseteq Below(k) /\ Below(i) # Below(k)
      BY <1>1, <1>2, <1>6
    <2>2. /\ Cardinality(Below(i)) <= Cardinality(Below(k))
          /\ Cardinality(Below(i)) = Cardinality(Below(k)) => Below(i) = Below(k)
      BY <1>5, <2>1, FS_Subset
    <2> QED
      BY <1>5, <2>1, <2>2
  <1>7. /\ Rank(S, k) \in Nat /\ Rank(S, k) < Cardinality(S)
        /\ Cardinality(S) \in Nat
    BY <1>3, <1>5
  <1>8. IsFiniteSet({j \in S : j < k})
    BY <1>4, <1>5
  <1>9. \A i \in S : i < k => Rank(S, i) < Rank(S, k)
    BY <1>3, <1>6
  <1> QED
    BY <1>7, <1>8, <1>9

\* Every number below the size of the set is the rank of a member.
LEMMA EveryRank ==
  ASSUME NEW S, S \subseteq Nat, IsFiniteSet(S), NEW n \in Nat, n < Cardinality(S)
  PROVE  \E k \in S : Rank(S, k) = n
  <1> DEFINE Missing == {i \in 0..n : \A k \in S : Rank(S, k) # i}
  <1>1. Cardinality(S) \in Nat /\ S # {}
    BY FS_CardinalityType, FS_EmptySet
  <1>2. \A i \in Missing : i \in 0..n /\ \A k \in S : Rank(S, k) # i
    OBVIOUS
  <1>3. \A i \in 0..n : i \notin Missing => \E k \in S : Rank(S, k) = i
    OBVIOUS
  <1> HIDE DEF Missing
  <1>4. Missing \subseteq Nat
    BY <1>2
  <1>5. ASSUME Missing # {} PROVE FALSE
    <2>1. PICK i \in Missing : \A j \in Missing : i <= j
      BY <1>4, <1>5, Smallest
    <2>2. i \in 0..n /\ \A k \in S : Rank(S, k) # i
      BY <1>2
    <2>3. CASE i = 0
      <3>1. PICK k \in S : \A j \in S : k <= j
        BY <1>1, Smallest
      <3>2. {j \in S : j < k} = {}
        <4>1. \A j \in S : ~(j < k)
          BY <3>1
        <4> QED
          BY <4>1
      <3>3. Rank(S, k) = 0
        BY <3>2, FS_EmptySet DEF Rank
      <3> QED
        BY <2>2, <2>3, <3>3
    <2>4. CASE i # 0
      <3>1. i \in Nat /\ i - 1 \in 0..n /\ ~(i <= i - 1) /\ i < Cardinality(S)
        BY <1>1, <2>2, <2>4
      <3>2. i - 1 \notin Missing
        BY <2>1, <3>1
      <3>3. PICK k \in S : Rank(S, k) = i - 1
        BY <1>3, <3>1, <3>2
      <3> DEFINE Below == {j \in S : j < k}
                 Above == {j \in S : j > k}
      <3>4. IsFiniteSet(Below) /\ Cardinality(Below) = i - 1 /\ k \notin Below
        <4>1. Rank(S, k) = Cardinality(Below)
          BY DEF Rank
        <4>2. IsFiniteSet(Below)
          BY Ranks
        <4>3. k \in Nat
          BY <3>3
        <4> QED
          BY <3>3, <4>1, <4>2, <4>3
      <3>5. Above \subseteq Nat /\ Above \subseteq S
        OBVIOUS
      <3>6. ASSUME Above = {} PROVE S = Below \cup {k}
        <4>1. \A j \in S : j \in Nat /\ k \in Nat /\ ~(j > k)
          BY <3>3, <3>6
        <4>2. \A j \in S : j < k \/ j = k
          BY <4>1
        <4> QED
          BY <3>3, <4>2
      <3>7. ASSUME NEW m \in Above, \A j \in Above : m <= j
            PROVE  {j \in S : j < m} = Below \cup {k}
        <4>1. m \in Nat /\ k \in Nat /\ m > k
          BY <3>3
        <4>2. ASSUME NEW j \in S PROVE j < m <=> j < k \/ j = k
          <5>1. j \in Nat /\ (j > k => m <= j)
            BY <3>7
          <5> QED
            BY <4>1, <5>1
        <4> QED
          BY <3>3, <4>2
      <3> HIDE DEF Below, Above
      <3>8. Cardinality(Below \cup {k}) = i
        <4>1. Cardinality(Below \cup {k}) = Cardinality(Below) + 1
          BY <3>4, FS_AddElement
        <4> QED
          BY <3>1, <3>4, <4>1
      <3>9. Above # {}
        BY <3>1, <3>6, <3>8
      <3>10. PICK m \in Above : \A j \in Above : m <= j
        BY <3>5, <3>9, Smallest
      <3>11. Rank(S, m) = i
        BY <3>7, <3>8, <3>10 DEF Rank
      <3> QED
        BY <2>2, <3>5, <3>10, <3>11
    <2> QED
      BY <2>3, <2>4
  <1> QED
    BY <1>3, <1>5

\* What Nth adds to the first members of a set.
LEMMA NextOfSet ==
  ASSUME NEW S, S \subseteq Nat, IsFiniteSet(S), NEW n \in Nat, n < Cardinality(S)
  PROVE  /\ Nth(S, n) \in S /\ Nth(S, n) \notin Lowest(S, n)
         /\ Lowest(S, n + 1) = Lowest(S, n) \cup {Nth(S, n)}
         /\ \A k \in Lowest(S, n) : k < Nth(S, n)
  <1> DEFINE x == Nth(S, n)
  <1>1. x = CHOOSE k \in S : Rank(S, k) = n
    BY DEF Nth, Rank
  <1> HIDE DEF x
  <1>2. x \in S /\ Rank(S, x) = n
    BY <1>1, EveryRank
  <1>3. ASSUME NEW k \in S
        PROVE  /\ Rank(S, k) \in Nat
               /\ Rank(S, k) < n => k < x
               /\ Rank(S, k) = n => k = x
    <2>1. k \in Nat /\ x \in Nat
      BY <1>2
    <2>2. Rank(S, k) \in Nat /\ (k < x => Rank(S, k) < Rank(S, x))
      BY <1>2, Ranks
    <2>3. x < k => Rank(S, x) < Rank(S, k)
      BY <1>2, Ranks
    <2>4. Rank(S, x) = n
      BY <1>2
    <2> QED
      BY <2>1, <2>2, <2>3, <2>4
  <1>4. \A k : k \in Lowest(S, n) <=> k \in S /\ Rank(S, k) < n
    BY DEF Lowest
  <1>5. \A k : k \in Lowest(S, n + 1) <=> k \in S /\ Rank(S, k) < n + 1
    BY DEF Lowest
  <1>6. x \notin Lowest(S, n) /\ \A k \in Lowest(S, n) : k < x
    <2>1. ~(n < n)
      OBVIOUS
    <2> QED
      BY <1>2, <1>3, <1>4, <2>1
  <1>7. ASSUME NEW k PROVE k \in Lowest(S, n + 1) <=> k \in Lowest(S, n) \cup {x}
    <2>1. CASE k \in S
      BY <1>2, <1>3, <1>4, <1>5, <2>1
    <2>2. CASE k \notin S
      BY <1>2, <1>4, <1>5, <2>2
    <2> QED
      BY <2>1, <2>2
  <1> QED
    BY <1>2, <1>6, <1>7 DEF x

LEMMA EndsOfSet ==
  ASSUME NEW S, S \subseteq Nat, IsFiniteSet(S)
  PROVE  /\ Lowest(S, 0) = {} /\ Lowest(S, Cardinality(S)) = S /\ Cardinality(S) \in Nat
         /\ \A n : Lowest(S, n) \subseteq S
  <1>1. \A k \in S : /\ Rank(S, k) \in Nat /\ Rank(S, k) < Cardinality(S)
    BY Ranks
  <1>2. Cardinality(S) \in Nat
    BY FS_CardinalityType
  <1>3. \A k \in S : ~(Rank(S, k) < 0)
    BY <1>1
  <1> QED
    BY <1>1, <1>2, <1>3 DEF Lowest

-----------------------------------------------------------------------------
(* The inductive invariant                                                 *)

Offers == {Nothing} \cup {Terms(ProofsOf[p], v) : p \in Payments, v \in Versions}

Stages ==
    {"idle", "metadata", "keys", "again", "stamp", "persist", "committing", "gone",
     "find", "reserve", "invoice", "evidence", "insert", "proofs"}

CallRecord ==
    [pc : Stages, answer : {"over"}, at : Times \cup {Nothing},
     meta : Versions \cup {Nothing}, got : SUBSET (Keysets \cup {"invoice", "payment"}),
     current : BOOLEAN, time : Times \cup {Nothing}, held : SUBSET (Keysets \cup Proofs),
     done : Nat, payment : Payments \cup {Nothing}, terms : Offers, tx : {"none", "open", "commit"}]

Types ==
    /\ mint \in Versions
    /\ keysets \in [Keysets -> Material \cup {Nothing}]
    /\ observations \in [Times -> {Nothing} \cup {ObservationRow(v) : v \in Versions}]
    /\ reservations \in [Payments -> Row \cup {Nothing}]
    /\ terms \in [Payments -> Offers]
    /\ claims \in [Proofs -> Payments \cup {NoPayment}]
    /\ journal \in [Invoices -> Payments \cup {NoPayment}]
    /\ call \in [Calls -> CallRecord]

\* Where a call is, and what it then holds and knows.
Resting(l) == l.pc = "idle" /\ l.tx = "none"
Asking(l) ==
    /\ l.pc \in {"metadata", "keys", "again", "stamp"} /\ l.payment = Nothing
    /\ l.tx = "none" /\ l.held = {} /\ l.done = 0
    /\ l.pc # "metadata" => l.meta \in Versions
Persisting(l) ==
    /\ l.pc = "persist" /\ l.payment = Nothing /\ l.meta \in Versions /\ l.time \in Times
    /\ l.tx \in {"none", "open"} /\ (l.tx = "none" => l.held = {})
    /\ l.done <= Cardinality(DOMAIN l.meta) /\ l.held \subseteq Lowest(DOMAIN l.meta, l.done)
Preparing(l) ==
    /\ l.pc \in {"find", "reserve", "invoice"} /\ l.payment \in Payments /\ l.at \in Times
    /\ l.tx = "none" /\ l.held = {} /\ l.done = 0
    /\ l.pc # "find" => l.time \in Times
Reserving(l) ==
    /\ l.pc \in {"evidence", "insert", "proofs"} /\ l.payment \in Payments
    /\ l.at \in Times /\ l.time \in Times /\ l.tx = "open"
    /\ IF l.pc = "proofs"
       THEN /\ l.got = {"invoice", "payment"} /\ l.done <= Cardinality(ProofsOf[l.payment])
            /\ l.held = Lowest(ProofsOf[l.payment], l.done)
       ELSE l.got = {"invoice"} /\ l.held = {} /\ l.done = 0
Committing(l) ==
    /\ l.pc \in {"committing", "gone"} /\ l.tx = "commit" /\ l.time \in Times
    /\ IF l.payment = Nothing
       THEN /\ l.meta \in Versions /\ l.done = Cardinality(DOMAIN l.meta)
            /\ l.held \subseteq DOMAIN l.meta
       ELSE /\ l.at \in Times /\ l.got = {"invoice", "payment"}
            /\ l.held = ProofsOf[l.payment]
Leaving(l) ==
    /\ l.pc = "gone" /\ l.tx = "open"
    /\ l.payment # Nothing /\ "payment" \in l.got => "invoice" \in l.got

Placed(l) ==
    \/ Resting(l) \/ Asking(l) \/ Persisting(l) \/ Preparing(l) \/ Reserving(l)
    \/ Committing(l) \/ Leaving(l)

\* A snapshot about to be stamped is current.
Current(l) ==
    /\ l.pc = "again" /\ mint = l.meta => l.current
    /\ l.pc = "stamp" => l.current

\* Of the identities gone through, those not held are stored as they were read.
Identified(l) ==
    l.pc = "persist" \/ (l.tx = "commit" /\ l.payment = Nothing) =>
        \A k \in Lowest(DOMAIN l.meta, l.done) \ l.held : keysets[k] = l.meta[k].of

\* Proofs were validated against an observation that is stored.
ValidAt(p, t, now, offer) ==
    LET v == observations[t].fingerprint IN
    /\ observations[t] # Nothing
    /\ ValidFor(ProofsOf[p], v, now) /\ offer = Terms(ProofsOf[p], v)

Validated(l) ==
    \/ l.pc \in {"reserve", "invoice", "evidence", "insert", "proofs"}
    \/ l.tx = "commit" /\ l.payment # Nothing
    => ValidAt(l.payment, l.time, l.at, l.terms)

CallsFit ==
    \A c \in Calls : /\ Placed(call[c]) /\ Current(call[c])
                     /\ Identified(call[c]) /\ Validated(call[c])

\* The rows a transaction has locked or not yet committed.
Locks(l) ==
    IF l.tx = "none" THEN {}
    ELSE IF l.payment = Nothing
    THEN {<<"keyset", k>> : k \in l.held} \cup
         {<<"time", t>> : t \in {u \in {l.time} : l.tx = "commit"}}
    ELSE {<<"invoice", InvoiceOf[l.payment]>> : g \in l.got \cap {"invoice"}} \cup
         {<<"payment", l.payment>> : g \in l.got \cap {"payment"}} \cup
         {<<"claim", y>> : y \in l.held}

\* The rows that no committed transaction has written.
Absent ==
    {<<"keyset", k>> : k \in {j \in Keysets : keysets[j] = Nothing}} \cup
    {<<"time", t>> : t \in {u \in Times : observations[u] = Nothing}} \cup
    {<<"invoice", i>> : i \in {j \in Invoices : journal[j] = NoPayment}} \cup
    {<<"payment", p>> : p \in {q \in Payments : reservations[q] = Nothing}} \cup
    {<<"claim", y>> : y \in {z \in Proofs : claims[z] = NoPayment}}

\* No two transactions hold the same row, and none holds one that is written.
Locking ==
    \A c \in Calls :
        /\ Locks(call[c]) \subseteq Absent
        /\ \A d \in Calls \ {c} : Locks(call[c]) \cap Locks(call[d]) = {}

\* The keysets of a stored observation are stored as it saw them.
ObservationsFit ==
    \A t \in Times : observations[t] # Nothing =>
        \A k \in DOMAIN observations[t].fingerprint :
            keysets[k] = observations[t].fingerprint[k].of

\* A reservation is covered by its evidence, and claims its proofs until it is
\* released.
ReservationsFit ==
    \A p \in Payments :
        /\ reservations[p] # Nothing =>
              ValidAt(p, reservations[p].evidence, reservations[p].reservedAt, terms[p])
        /\ {y \in Proofs : claims[y] = p} =
               IF StateOf(p) \in {"idle", "returned"} THEN {} ELSE ProofsOf[p]

IInv == Types /\ CallsFit /\ Locking /\ ObservationsFit /\ ReservationsFit

-----------------------------------------------------------------------------
(* What the invariant says of single values                                *)

LEMMA VersionFacts ==
  ASSUME NEW v \in Versions
  PROVE  /\ DOMAIN v \subseteq Keysets /\ DOMAIN v \subseteq Nat /\ DOMAIN v # {}
         /\ IsFiniteSet(DOMAIN v) /\ IsSnapshot(v)
         /\ \A k \in DOMAIN v : v[k] = [active |-> v[k].active, of |-> v[k].of]
         /\ \A k \in DOMAIN v : v[k].of \in Material /\ v[k].of # Nothing
         /\ v = [k \in DOMAIN v |-> v[k]]
         /\ v # Nothing
  <1>1. IsSnapshot(v)
    BY KeysetAssumption
  <1>2. DOMAIN v \subseteq Keysets /\ DOMAIN v # {} /\ v \in [DOMAIN v -> Keyset]
    BY <1>1 DEF IsSnapshot
  <1>3. DOMAIN v \subseteq Nat /\ IsFiniteSet(DOMAIN v)
    BY <1>2, KeysetAssumption, FS_Subset
  <1>4. \A k \in DOMAIN v : v[k] \in [active : BOOLEAN, of : Material]
    BY <1>2 DEF Keyset
  <1> HIDE DEF Material
  <1>5. \A k \in DOMAIN v : /\ v[k] = [active |-> v[k].active, of |-> v[k].of]
                            /\ v[k].of \in Material
    BY <1>4
  <1>6. Nothing \notin Material /\ v # Nothing
    BY RowsAssumption
  <1> QED
    BY <1>1, <1>2, <1>3, <1>5, <1>6

LEMMA RowFacts ==
  ASSUME NEW v \in Versions
  PROVE  /\ ObservationRow(v).fingerprint = v /\ DOMAIN ObservationRow(v).active = DOMAIN v
         /\ \A k \in DOMAIN v : ObservationRow(v).active[k] = v[k].active
         /\ ObservationRow(v) # Nothing
  BY RowsAssumption DEF ObservationRow, Entries

\* A stored observation is read back as it was made.
LEMMA StoredObservation ==
  ASSUME Types, ObservationsFit, NEW t \in Times, observations[t] # Nothing
  PROVE  /\ observations[t].fingerprint \in Versions
         /\ DOMAIN observations[t].active = DOMAIN observations[t].fingerprint
         /\ DOMAIN observations[t].active \subseteq Observed
         /\ Rebuilt(observations[t]) = observations[t].fingerprint
         /\ Readable(observations[t])
  <1>1. PICK v \in Versions : observations[t] = ObservationRow(v)
    BY DEF Types
  <1>2. observations[t].fingerprint = v /\ DOMAIN observations[t].active = DOMAIN v
        /\ \A k \in DOMAIN v : observations[t].active[k] = v[k].active
    BY <1>1, RowFacts
  <1>3. \A k \in DOMAIN v : keysets[k] = v[k].of
    BY <1>2 DEF ObservationsFit
  <1>4. DOMAIN v \subseteq Observed
    BY <1>3, VersionFacts DEF Observed
  <1>5. Rebuilt(observations[t]) = [k \in DOMAIN v |-> [active |-> v[k].active, of |-> v[k].of]]
    <2>1. DOMAIN observations[t].active \cap Observed = DOMAIN v
      BY <1>2, <1>4
    <2> QED
      BY <1>2, <1>3, <2>1 DEF Rebuilt
  <1>6. Rebuilt(observations[t]) = v
    BY <1>5, VersionFacts
  <1> QED
    BY <1>2, <1>4, <1>6, VersionFacts DEF Readable

\* The largest member of a finite set of numbers.
LEMMA Largest ==
  ASSUME NEW S, S \subseteq Nat, IsFiniteSet(S), S # {}
  PROVE  \E n \in S : \A m \in S : m <= n
  <1>1. Cardinality(S) \in Nat /\ Cardinality(S) # 0
    BY FS_CardinalityType, FS_EmptySet
  <1>2. PICK k \in S : Rank(S, k) = Cardinality(S) - 1
    <2>1. Cardinality(S) - 1 \in Nat /\ Cardinality(S) - 1 < Cardinality(S)
      BY <1>1
    <2> QED
      BY <2>1, EveryRank
  <1>3. ASSUME NEW m \in S PROVE m <= k
    <2>1. Rank(S, m) \in Nat /\ Rank(S, m) < Cardinality(S)
          /\ (k < m => Rank(S, k) < Rank(S, m))
      BY Ranks
    <2>2. ~(k < m)
      BY <1>1, <1>2, <2>1
    <2> QED
      BY <2>2
  <1> QED
    BY <1>3

LEMMA LatestFound ==
  ASSUME NEW a \in Int, NEW b \in Times
  PROVE  /\ LatestWithin(a, b) # Nothing =>
                LatestWithin(a, b) \in Times /\ observations[LatestWithin(a, b)] # Nothing
         /\ observations[b] # Nothing => LatestWithin(b, b) = b
  <1>1. b \in Nat /\ b \in Int /\ IsFiniteSet(0..b)
    BY KeysetAssumption, FS_Interval
  <1>2. \A t \in Times : t \in Nat /\ t # Nothing
    BY KeysetAssumption, RowsAssumption
  <1>3. ASSUME NEW x \in Int
        PROVE  /\ LatestWithin(x, b) # Nothing =>
                     /\ LatestWithin(x, b) \in Times /\ observations[LatestWithin(x, b)] # Nothing
                     /\ x <= LatestWithin(x, b) /\ LatestWithin(x, b) <= b
               /\ x = b /\ observations[b] # Nothing => LatestWithin(x, b) # Nothing
    <2> DEFINE fit == {t \in Times : t >= x /\ t <= b /\ observations[t] # Nothing}
    <2>1. LatestWithin(x, b) = IF fit = {} THEN Nothing ELSE CHOOSE t \in fit : \A u \in fit : u <= t
      BY DEF LatestWithin
    <2>2. \A t \in fit : t \in Times /\ x <= t /\ t <= b /\ observations[t] # Nothing
      BY <1>1, <1>2
    <2>3. x = b /\ observations[b] # Nothing => b \in fit
      BY <1>1
    <2> HIDE DEF fit
    <2>4. ASSUME NEW t \in fit PROVE t \in Nat /\ t \in 0..b /\ t # Nothing
      <3>1. t \in Nat /\ t # Nothing /\ t <= b
        BY <1>2, <2>2
      <3> QED
        BY <1>1, <3>1
    <2>5. IsFiniteSet(fit) /\ fit \subseteq Nat
      <3>1. fit \subseteq 0..b
        BY <2>4
      <3> QED
        BY <1>1, <2>4, <3>1, FS_Subset
    <2>6. fit # {} => \E t \in fit : \A u \in fit : u <= t
      BY <2>5, Largest
    <2>7. fit # {} => LatestWithin(x, b) \in fit
      BY <2>1, <2>6
    <2> QED
      BY <2>1, <2>2, <2>3, <2>4, <2>7
  <1>4. ASSUME observations[b] # Nothing PROVE LatestWithin(b, b) = b
    <2>1. LatestWithin(b, b) \in Times /\ b <= LatestWithin(b, b) /\ LatestWithin(b, b) <= b
      BY <1>1, <1>3, <1>4
    <2>2. LatestWithin(b, b) \in Nat
      BY <1>2, <2>1
    <2> QED
      BY <1>1, <2>1, <2>2
  <1> QED
    BY <1>3, <1>4

LEMMA LocksOf ==
  ASSUME NEW l, NEW r
  PROVE  r \in Locks(l) <=>
            /\ l.tx # "none"
            /\ IF l.payment = Nothing
               THEN \/ \E k \in l.held : r = <<"keyset", k>>
                    \/ l.tx = "commit" /\ r = <<"time", l.time>>
               ELSE \/ "invoice" \in l.got /\ r = <<"invoice", InvoiceOf[l.payment]>>
                    \/ "payment" \in l.got /\ r = <<"payment", l.payment>>
                    \/ \E y \in l.held : r = <<"claim", y>>
  BY DEF Locks

LEMMA AbsentRows ==
  /\ \A k : <<"keyset", k>> \in Absent <=> k \in Keysets /\ keysets[k] = Nothing
  /\ \A t : <<"time", t>> \in Absent <=> t \in Times /\ observations[t] = Nothing
  /\ \A i : <<"invoice", i>> \in Absent <=> i \in Invoices /\ journal[i] = NoPayment
  /\ \A p : <<"payment", p>> \in Absent <=> p \in Payments /\ reservations[p] = Nothing
  /\ \A y : <<"claim", y>> \in Absent <=> y \in Proofs /\ claims[y] = NoPayment
  BY DEF Absent

\* What is said of a call of its own record, and of it with the variables.
Fits(l) == Placed(l) /\ Current(l) /\ Identified(l) /\ Validated(l)

\* What a call's fitness rests on is only ever added to.
LEMMA FitsOn ==
  ASSUME NEW l \in CallRecord, Fits(l), Types, mint' = mint,
         \A k \in Keysets : keysets[k] # Nothing => keysets'[k] = keysets[k],
         \A t \in Times : observations[t] # Nothing => observations'[t] = observations[t]
  PROVE  Fits(l)'
  <1>1. Placed(l)' /\ Current(l)'
    BY DEF Fits, Current, Placed, Resting, Asking, Persisting, Preparing, Reserving, Committing,
           Leaving
  <1>2. Identified(l)'
    <2> SUFFICES ASSUME l.pc = "persist" \/ (l.tx = "commit" /\ l.payment = Nothing),
                        NEW k \in Lowest(DOMAIN l.meta, l.done) \ l.held
                 PROVE  keysets'[k] = l.meta[k].of
      BY DEF Identified
    <2>1. l.meta \in Versions /\ k \in DOMAIN l.meta
      BY DEF Fits, Placed, Resting, Asking, Persisting, Preparing, Reserving, Committing, Leaving,
             Lowest
    <2>2. k \in Keysets /\ l.meta[k].of # Nothing
      BY <2>1, VersionFacts
    <2>3. keysets[k] = l.meta[k].of
      BY DEF Fits, Identified
    <2> QED
      BY <2>2, <2>3
  <1>3. Validated(l)'
    <2> SUFFICES ASSUME \/ l.pc \in {"reserve", "invoice", "evidence", "insert", "proofs"}
                        \/ l.tx = "commit" /\ l.payment # Nothing
                 PROVE  ValidAt(l.payment, l.time, l.at, l.terms)'
      BY DEF Validated
    <2>1. l.time \in Times
      BY DEF Fits, Placed, Resting, Asking, Persisting, Preparing, Reserving, Committing, Leaving
    <2>2. ValidAt(l.payment, l.time, l.at, l.terms)
      BY DEF Fits, Validated
    <2> QED
      BY <2>1, <2>2 DEF ValidAt
  <1> QED
    BY <1>1, <1>2, <1>3 DEF Fits

\* A step of one call that changes nothing else.
LEMMA MovesOne ==
  ASSUME IInv, NEW c \in Calls, NEW m \in CallRecord, To(c, m),
         UNCHANGED <<mint, evidence, record>>,
         Fits(m), Locks(m) \subseteq Absent,
         \A d \in Calls \ {c} : Locks(m) \cap Locks(call[d]) = {}
  PROVE  IInv'
  <1>1. \A d \in Calls : call'[d] = IF d = c THEN m ELSE call[d]
    BY DEF To, IInv, Types
  <1>2. call' \in [Calls -> CallRecord]
    BY DEF To, IInv, Types
  <1>3. Types'
    BY <1>2 DEF IInv, Types, evidence, record
  <1>4. ASSUME NEW d \in Calls PROVE Fits(call[d])'
    <2>1. PICK l : l = call'[d]
      OBVIOUS
    <2>2. Fits(l)
      BY <1>1, <2>1 DEF IInv, CallsFit, Fits
    <2>3. l \in CallRecord
      BY <1>2, <2>1
    <2>4. Fits(l)'
      BY <2>2, <2>3, FitsOn DEF IInv, evidence
    <2> QED
      BY <2>1, <2>4 DEF Fits, Placed, Current, Identified, Validated, Resting, Asking, Persisting,
                        Preparing, Reserving, Committing, Leaving, ValidAt
  <1>5. CallsFit'
    BY <1>4 DEF CallsFit, Fits
  <1>6. Absent' = Absent
    BY DEF Absent, evidence, record
  <1>7. Locking'
    <2>1. \A d \in Calls : Locks(call'[d]) = IF d = c THEN Locks(m) ELSE Locks(call[d])
      BY <1>1
    <2> QED
      BY <1>6, <2>1 DEF IInv, Locking
  <1>8. ObservationsFit' /\ ReservationsFit'
    BY DEF IInv, ObservationsFit, ReservationsFit, evidence, record, ValidAt, StateOf
  <1> QED
    BY <1>3, <1>5, <1>7, <1>8 DEF IInv

LEMMA IdleFits ==
  /\ Idle \in CallRecord /\ Fits(Idle) /\ Locks(Idle) = {}
  /\ [Idle EXCEPT !.answer = "over"] = Idle
  <1>1. Idle \in CallRecord
    <2>1. Nothing \in Offers
      BY DEF Offers
    <2> QED
      BY <2>1 DEF Idle, CallRecord, Stages
  <1>2. Fits(Idle)
    BY DEF Idle, Fits, Placed, Resting, Current, Identified, Validated
  <1>3. Locks(Idle) = {}
    BY DEF Idle, Locks
  <1>4. [Idle EXCEPT !.answer = "over"] = Idle
    <2>1. Idle = [f \in {"pc", "answer", "at", "meta", "got", "current", "time", "held", "done",
                         "payment", "terms", "tx"} |-> Idle[f]]
      BY DEF Idle
    <2>2. Idle.answer = "over"
      BY DEF Idle
    <2> QED
      BY <2>1, <2>2
  <1> QED
    BY <1>1, <1>2, <1>3, <1>4

LEMMA EndsKeeps ==
  ASSUME IInv, NEW c \in Calls, NEW a, a # "invalid", Ends(c, a),
         UNCHANGED <<mint, evidence, record>>
  PROVE  IInv'
  <1>1. To(c, Idle)
    BY IdleFits DEF Ends
  <1> QED
    BY <1>1, IdleFits, MovesOne

LEMMA CallFacts ==
  ASSUME IInv, NEW c \in Calls
  PROVE  /\ call[c] \in CallRecord /\ Fits(call[c])
         /\ Locks(call[c]) \subseteq Absent
         /\ \A d \in Calls \ {c} : Locks(call[c]) \cap Locks(call[d]) = {}
         /\ call[c].tx = "none" => Locks(call[c]) = {}
  BY DEF IInv, Types, CallsFit, Fits, Locking, Locks

\* A call that takes no row, and one that takes a row which is free.
LEMMA MovesOn ==
  ASSUME IInv, NEW c \in Calls, NEW m \in CallRecord, To(c, m),
         UNCHANGED <<mint, evidence, record>>,
         Fits(m), Locks(m) \subseteq Locks(call[c])
  PROVE  IInv'
  <1>1. Locks(m) \subseteq Absent /\ \A d \in Calls \ {c} : Locks(m) \cap Locks(call[d]) = {}
    BY CallFacts
  <1> QED
    BY <1>1, MovesOne

LEMMA TakesRow ==
  ASSUME IInv, NEW c \in Calls, NEW m \in CallRecord, To(c, m),
         UNCHANGED <<mint, evidence, record>>, Fits(m),
         NEW r \in Absent, \A d \in Calls \ {c} : r \notin Locks(call[d]),
         Locks(m) \subseteq Locks(call[c]) \cup {r}
  PROVE  IInv'
  <1>1. Locks(m) \subseteq Absent /\ \A d \in Calls \ {c} : Locks(m) \cap Locks(call[d]) = {}
    BY CallFacts
  <1> QED
    BY <1>1, MovesOne

-----------------------------------------------------------------------------
(* An observation                                                          *)

LEMMA ObserveKeeps ==
  ASSUME IInv, NEW c \in Calls, NEW t \in Times, Observe(c, t), UNCHANGED record
  PROVE  IInv'
  <1>1. PICK m : m = [Idle EXCEPT !.pc = "metadata", !.at = t]
    OBVIOUS
  <1>2. m \in CallRecord
    BY <1>1, IdleFits DEF CallRecord, Stages
  <1>3. Fits(m) /\ Locks(m) = {}
    BY <1>1 DEF Idle, Fits, Placed, Asking, Current, Identified, Validated, Locks
  <1> QED
    BY <1>1, <1>2, <1>3, MovesOn DEF Observe

LEMMA ReadMetadataKeeps ==
  ASSUME IInv, NEW c \in Calls, ReadMetadata(c), UNCHANGED record
  PROVE  IInv'
  <1>1. PICK l : l = call[c]
    OBVIOUS
  <1>2. l \in CallRecord /\ Fits(l) /\ l.pc = "metadata"
    BY <1>1, CallFacts DEF ReadMetadata
  <1>3. PICK m : m = [l EXCEPT !.pc = "keys", !.meta = mint]
    OBVIOUS
  <1>4. mint \in Versions
    BY DEF IInv, Types
  <1>5. m \in CallRecord
    BY <1>2, <1>3, <1>4 DEF CallRecord, Stages
  <1>6. Asking(l)
    BY <1>2 DEF Fits, Placed, Resting, Asking, Persisting, Preparing, Reserving, Committing, Leaving
  <1>7. Fits(m) /\ Locks(m) = {}
    BY <1>2, <1>3, <1>4, <1>6
       DEF CallRecord, Fits, Placed, Asking, Current, Identified, Validated, Locks
  <1> QED
    BY <1>1, <1>3, <1>5, <1>7, MovesOn DEF ReadMetadata

LEMMA ReadKeysKeeps ==
  ASSUME IInv, NEW c \in Calls, NEW k \in Keysets, NEW complete \in BOOLEAN,
         ReadKeys(c, k, complete), UNCHANGED record
  PROVE  IInv'
  <1>1. PICK l : l = call[c]
    OBVIOUS
  <1>2. l \in CallRecord /\ Fits(l) /\ l.pc = "keys"
    BY <1>1, CallFacts DEF ReadKeys
  <1>3. Asking(l)
    BY <1>2 DEF Fits, Placed, Resting, Asking, Persisting, Preparing, Reserving, Committing, Leaving
  <1>4. CASE ~Matches(k, l.meta[k], complete)
    BY <1>1, <1>4, EndsKeeps DEF ReadKeys
  <1>5. CASE Matches(k, l.meta[k], complete) /\ l.got \cup {k} = DOMAIN l.meta
    <2>1. PICK m : m = [l EXCEPT !.pc = "again", !.got = {}, !.current = (mint = l.meta)]
      OBVIOUS
    <2>2. To(c, m)
      BY <1>1, <1>5, <2>1 DEF ReadKeys
    <2>3. m \in CallRecord
      <3>1. "again" \in Stages /\ (mint = l.meta) \in BOOLEAN
        BY DEF Stages
      <3> QED
        BY <1>2, <2>1, <3>1 DEF CallRecord
    <2>4. Fits(m) /\ Locks(m) = {}
      BY <1>2, <1>3, <2>1
         DEF CallRecord, Fits, Placed, Asking, Current, Identified, Validated, Locks
    <2> QED
      BY <2>2, <2>3, <2>4, MovesOn DEF ReadKeys
  <1>6. CASE Matches(k, l.meta[k], complete) /\ l.got \cup {k} # DOMAIN l.meta
    <2>1. PICK m : m = [l EXCEPT !.got = l.got \cup {k}]
      OBVIOUS
    <2>2. To(c, m)
      BY <1>1, <1>6, <2>1 DEF ReadKeys
    <2>3. m \in CallRecord
      BY <1>2, <2>1 DEF CallRecord
    <2>4. Fits(m) /\ Locks(m) = {}
      BY <1>2, <1>3, <2>1
         DEF CallRecord, Fits, Placed, Asking, Current, Identified, Validated, Locks
    <2> QED
      BY <2>2, <2>3, <2>4, MovesOn DEF ReadKeys
  <1> QED
    BY <1>4, <1>5, <1>6

LEMMA ReadMetadataAgainKeeps ==
  ASSUME IInv, NEW c \in Calls, ReadMetadataAgain(c), UNCHANGED record
  PROVE  IInv'
  <1>1. PICK l : l = call[c]
    OBVIOUS
  <1>2. l \in CallRecord /\ Fits(l) /\ l.pc = "again"
    BY <1>1, CallFacts DEF ReadMetadataAgain
  <1>3. CASE mint = l.meta
    <2>1. PICK m : m = [l EXCEPT !.pc = "stamp"]
      OBVIOUS
    <2>2. To(c, m)
      BY <1>1, <1>3, <2>1 DEF ReadMetadataAgain
    <2>3. m \in CallRecord
      BY <1>2, <2>1 DEF CallRecord, Stages
    <2>4. Asking(l) /\ l.current
      BY <1>2, <1>3 DEF Fits, Current, Placed, Resting, Asking, Persisting, Preparing, Reserving,
                        Committing, Leaving
    <2>5. Fits(m) /\ Locks(m) = {}
      BY <1>2, <2>1, <2>4
         DEF CallRecord, Fits, Placed, Asking, Current, Identified, Validated, Locks
    <2> QED
      BY <2>2, <2>3, <2>5, MovesOn DEF ReadMetadataAgain
  <1>4. CASE mint # l.meta
    BY <1>1, <1>4, EndsKeeps DEF ReadMetadataAgain
  <1> QED
    BY <1>3, <1>4

LEMMA StampKeeps ==
  ASSUME IInv, NEW c \in Calls, NEW t \in Times, Stamp(c, t), UNCHANGED record
  PROVE  IInv'
  <1>1. PICK l : l = call[c]
    OBVIOUS
  <1>2. l \in CallRecord /\ Fits(l) /\ l.pc = "stamp"
    BY <1>1, CallFacts DEF Stamp
  <1>3. CASE t >= l.at
    <2>1. PICK m : m = [l EXCEPT !.pc = "persist", !.time = t, !.at = Nothing]
      OBVIOUS
    <2>2. To(c, m)
      BY <1>1, <1>3, <2>1 DEF Stamp
    <2>3. m \in CallRecord
      BY <1>2, <2>1 DEF CallRecord, Stages
    <2>4. Asking(l)
      BY <1>2 DEF Fits, Placed, Resting, Asking, Persisting, Preparing, Reserving, Committing,
                  Leaving
    <2>5. /\ m.pc = "persist" /\ m.payment = Nothing /\ m.meta \in Versions /\ m.time = t
          /\ m.tx = "none" /\ m.held = {} /\ m.done = 0
      BY <1>2, <2>1, <2>4 DEF Asking, CallRecord
    <2>6. /\ Lowest(DOMAIN m.meta, 0) = {} /\ 0 <= Cardinality(DOMAIN m.meta)
      BY <2>5, VersionFacts, EndsOfSet
    <2>7. Fits(m) /\ Locks(m) = {}
      BY <2>5, <2>6 DEF Fits, Placed, Persisting, Current, Identified, Validated, Locks
    <2> QED
      BY <2>2, <2>3, <2>7, MovesOn DEF Stamp
  <1>4. CASE ~(t >= l.at)
    BY <1>1, <1>4, EndsKeeps DEF Stamp
  <1> QED
    BY <1>3, <1>4

LEMMA PersistKeysetIdentityKeeps ==
  ASSUME IInv, NEW c \in Calls, PersistKeysetIdentity(c), UNCHANGED record
  PROVE  IInv'
  <1>1. PICK l : l = call[c]
    OBVIOUS
  <1>2. l \in CallRecord /\ Fits(l) /\ l.pc = "persist" /\ l.done < Cardinality(DOMAIN l.meta)
    BY <1>1, CallFacts DEF PersistKeysetIdentity
  <1>3. Persisting(l)
    BY <1>2 DEF Fits, Placed, Resting, Asking, Persisting, Preparing, Reserving, Committing, Leaving
  <1>4. l.meta \in Versions /\ l.time \in Times /\ l.payment = Nothing
        /\ l.tx \in {"none", "open"} /\ (l.tx = "none" => l.held = {})
        /\ l.held \subseteq Lowest(DOMAIN l.meta, l.done)
    BY <1>3 DEF Persisting
  <1>5. PICK S : S = DOMAIN l.meta
    OBVIOUS
  <1>6. S \subseteq Nat /\ S \subseteq Keysets /\ IsFiniteSet(S) /\ Cardinality(S) \in Nat
        /\ l.done \in Nat /\ l.done < Cardinality(S)
    BY <1>2, <1>4, <1>5, VersionFacts, FS_CardinalityType DEF CallRecord
  <1>7. PICK k : k = Nth(S, l.done)
    OBVIOUS
  <1>8. k \in S /\ k \notin Lowest(S, l.done) /\ Lowest(S, l.done + 1) = Lowest(S, l.done) \cup {k}
    BY <1>6, <1>7, NextOfSet
  <1>9. \A d \in Calls \ {c} : ~HoldsKeyset(d, k)
    BY <1>1, <1>5, <1>7 DEF PersistKeysetIdentity
  <1>10. \A j \in Lowest(S, l.done) \ l.held : keysets[j] = l.meta[j].of
    BY <1>2, <1>5 DEF Fits, Identified
  <1>11. CASE keysets[k] = Nothing
    <2>1. PICK m : m = [l EXCEPT !.tx = "open", !.done = l.done + 1, !.current = FALSE,
                                 !.held = l.held \cup {k}]
      OBVIOUS
    <2>2. To(c, m)
      BY <1>1, <1>5, <1>7, <1>11, <2>1 DEF PersistKeysetIdentity
    <2>3. m \in CallRecord
      <3>1. l.done + 1 \in Nat
        BY <1>6
      <3>2. l.held \cup {k} \in SUBSET (Keysets \cup Proofs)
        BY <1>2, <1>6, <1>8 DEF CallRecord
      <3> QED
        BY <1>2, <2>1, <3>1, <3>2 DEF CallRecord
    <2>4. /\ m.pc = "persist" /\ m.payment = Nothing /\ m.meta = l.meta /\ m.time = l.time
          /\ m.tx = "open" /\ m.held = l.held \cup {k} /\ m.done = l.done + 1
      BY <1>2, <1>4, <2>1 DEF CallRecord
    <2>5. Persisting(m)
      BY <1>4, <1>5, <1>6, <1>8, <2>4 DEF Persisting
    <2>6. Fits(m)
      BY <1>5, <1>8, <1>10, <2>4, <2>5 DEF Fits, Placed, Current, Identified, Validated
    <2>7. <<"keyset", k>> \in Absent
      BY <1>6, <1>8, <1>11, AbsentRows
    <2>8. \A d \in Calls \ {c} : <<"keyset", k>> \notin Locks(call[d])
      <3> TAKE d \in Calls \ {c}
      <3>1. call[d].tx \in {"none", "open", "commit"}
        BY CallFacts DEF CallRecord
      <3>2. ~HoldsKeyset(d, k)
        BY <1>9
      <3> QED
        BY <3>1, <3>2, LocksOf DEF HoldsKeyset, InTx
    <2>9. Locks(m) \subseteq Locks(call[c]) \cup {<<"keyset", k>>}
      <3> SUFFICES ASSUME NEW r \in Locks(m) PROVE r \in Locks(l) \/ r = <<"keyset", k>>
        BY <1>1
      <3>1. PICK j \in m.held : r = <<"keyset", j>>
        BY <2>4, LocksOf
      <3>2. l.tx = "none" => j = k
        BY <1>4, <2>4
      <3> QED
        BY <1>4, <2>4, <3>1, <3>2, LocksOf
    <2> QED
      BY <2>2, <2>3, <2>6, <2>7, <2>8, <2>9, TakesRow DEF PersistKeysetIdentity
  <1>12. CASE keysets[k] # Nothing /\ keysets[k] = l.meta[k].of
    <2>1. PICK m : m = [l EXCEPT !.tx = "open", !.done = l.done + 1, !.current = FALSE,
                                 !.held = l.held]
      OBVIOUS
    <2>2. To(c, m)
      BY <1>1, <1>5, <1>7, <1>12, <2>1 DEF PersistKeysetIdentity
    <2>3. m \in CallRecord
      <3>1. l.done + 1 \in Nat
        BY <1>6
      <3> QED
        BY <1>2, <2>1, <3>1 DEF CallRecord
    <2>4. /\ m.pc = "persist" /\ m.payment = Nothing /\ m.meta = l.meta /\ m.time = l.time
          /\ m.tx = "open" /\ m.held = l.held /\ m.done = l.done + 1
      BY <1>2, <1>4, <2>1 DEF CallRecord
    <2>5. Persisting(m)
      BY <1>4, <1>5, <1>6, <1>8, <2>4 DEF Persisting
    <2>6. Fits(m)
      BY <1>5, <1>8, <1>10, <1>12, <2>4, <2>5 DEF Fits, Placed, Current, Identified, Validated
    <2>7. Locks(m) \subseteq Locks(call[c])
      <3> SUFFICES ASSUME NEW r \in Locks(m) PROVE r \in Locks(l)
        BY <1>1
      <3>1. PICK j \in m.held : r = <<"keyset", j>>
        BY <2>4, LocksOf
      <3> QED
        BY <1>4, <2>4, <3>1, LocksOf
    <2> QED
      BY <2>2, <2>3, <2>6, <2>7, MovesOn DEF PersistKeysetIdentity
  <1>13. CASE ~(keysets[k] = Nothing \/ keysets[k] = l.meta[k].of)
    <2>1. Ends(c, "refused")
      BY <1>1, <1>5, <1>7, <1>13 DEF PersistKeysetIdentity
    <2> QED
      BY <2>1, EndsKeeps DEF PersistKeysetIdentity
  <1> QED
    BY <1>11, <1>12, <1>13

LEMMA InsertObservationKeeps ==
  ASSUME IInv, NEW c \in Calls, InsertObservation(c), UNCHANGED record
  PROVE  IInv'
  <1>1. PICK l : l = call[c]
    OBVIOUS
  <1>2. l \in CallRecord /\ Fits(l) /\ l.pc = "persist" /\ l.done = Cardinality(DOMAIN l.meta)
    BY <1>1, CallFacts DEF InsertObservation
  <1>3. Persisting(l)
    BY <1>2 DEF Fits, Placed, Resting, Asking, Persisting, Preparing, Reserving, Committing, Leaving
  <1>4. l.meta \in Versions /\ l.time \in Times /\ l.payment = Nothing
        /\ l.tx \in {"none", "open"} /\ (l.tx = "none" => l.held = {})
        /\ l.held \subseteq Lowest(DOMAIN l.meta, l.done)
    BY <1>3 DEF Persisting
  <1>5. CASE observations[l.time] = Nothing
    <2>1. PICK m : m = [l EXCEPT !.pc = "committing", !.tx = "commit"]
      OBVIOUS
    <2>2. To(c, m)
      BY <1>1, <1>5, <2>1 DEF InsertObservation
    <2>3. m \in CallRecord
      BY <1>2, <2>1 DEF CallRecord, Stages
    <2>4. /\ m.pc = "committing" /\ m.payment = Nothing /\ m.meta = l.meta /\ m.time = l.time
          /\ m.tx = "commit" /\ m.held = l.held /\ m.done = l.done
      BY <1>2, <1>4, <2>1 DEF CallRecord
    <2>5. Committing(m)
      BY <1>2, <1>4, <2>4 DEF Committing, Lowest
    <2>6. Identified(m)
      BY <1>2, <2>4 DEF Fits, Identified
    <2>7. Fits(m)
      BY <2>4, <2>5, <2>6 DEF Fits, Placed, Current, Validated
    <2>8. <<"time", l.time>> \in Absent
      BY <1>4, <1>5, AbsentRows
    <2>9. \A d \in Calls \ {c} : <<"time", l.time>> \notin Locks(call[d])
      <3> TAKE d \in Calls \ {c}
      <3>1. ~HoldsTime(d, l.time)
        BY <1>1 DEF InsertObservation
      <3> QED
        BY <3>1, LocksOf DEF HoldsTime, InTx
    <2>10. Locks(m) \subseteq Locks(call[c]) \cup {<<"time", l.time>>}
      <3> SUFFICES ASSUME NEW r \in Locks(m) PROVE r \in Locks(l) \/ r = <<"time", l.time>>
        BY <1>1
      <3>1. (\E j \in l.held : r = <<"keyset", j>>) \/ r = <<"time", l.time>>
        BY <2>4, LocksOf
      <3> QED
        BY <1>4, <3>1, LocksOf
    <2> QED
      BY <2>2, <2>3, <2>7, <2>8, <2>9, <2>10, TakesRow DEF InsertObservation
  <1>6. CASE observations[l.time] # Nothing
    <2>1. Readable(observations[l.time])
      BY <1>4, <1>6, StoredObservation DEF IInv
    <2>2. Ends(c, "refused") \/ Ends(c, "done")
      BY <1>1, <1>6, <2>1 DEF InsertObservation
    <2> QED
      BY <2>2, EndsKeeps DEF InsertObservation
  <1> QED
    BY <1>5, <1>6

-----------------------------------------------------------------------------
(* The end of a call                                                       *)

LEMMA GiveUpKeeps ==
  ASSUME IInv, NEW c \in Calls, GiveUp(c), UNCHANGED record
  PROVE  IInv'
  <1>1. PICK l : l = call[c]
    OBVIOUS
  <1>2. l \in CallRecord /\ Fits(l) /\ l.pc # "idle" /\ l.pc # "gone"
    BY <1>1, CallFacts DEF GiveUp
  <1>3. CASE l.tx = "none"
    BY <1>1, <1>3, EndsKeeps DEF GiveUp, GivesUp
  <1>4. CASE l.tx = "commit"
    <2>1. PICK m : m = [l EXCEPT !.pc = "gone"]
      OBVIOUS
    <2>2. To(c, m)
      BY <1>1, <1>4, <2>1 DEF GiveUp, GivesUp
    <2>3. m \in CallRecord
      BY <1>2, <2>1 DEF CallRecord, Stages
    <2>4. /\ m.pc = "gone" /\ m.payment = l.payment /\ m.meta = l.meta /\ m.time = l.time
          /\ m.tx = l.tx /\ m.held = l.held /\ m.done = l.done /\ m.got = l.got /\ m.at = l.at
          /\ m.terms = l.terms
      BY <1>2, <2>1 DEF CallRecord
    <2>5. Committing(l)
      BY <1>2, <1>4
         DEF Fits, Placed, Resting, Asking, Persisting, Preparing, Reserving, Committing, Leaving
    <2>6. Committing(m)
      BY <2>4, <2>5 DEF Committing
    <2>7. Identified(m) /\ Validated(m)
      BY <1>2, <1>4, <2>4 DEF Fits, Identified, Validated
    <2>8. Fits(m)
      BY <2>4, <2>6, <2>7 DEF Fits, Placed, Current
    <2>9. Locks(m) = Locks(l)
      BY <2>4 DEF Locks
    <2> QED
      BY <1>1, <2>2, <2>3, <2>8, <2>9, MovesOn DEF GiveUp
  <1>5. CASE l.tx = "open"
    <2>1. PICK m : m = [Idle EXCEPT !.pc = "gone", !.tx = "open", !.payment = l.payment,
                                    !.got = l.got, !.held = l.held]
      OBVIOUS
    <2>2. To(c, m)
      BY <1>1, <1>5, <2>1 DEF GiveUp, GivesUp
    <2>3. m \in CallRecord
      BY <1>2, <2>1, IdleFits DEF CallRecord, Stages
    <2>4. /\ m.pc = "gone" /\ m.payment = l.payment /\ m.tx = "open" /\ m.held = l.held
          /\ m.got = l.got
      BY <2>1 DEF Idle
    <2>5. l.payment # Nothing /\ "payment" \in l.got => "invoice" \in l.got
      BY <1>2, <1>5
         DEF Fits, Placed, Resting, Asking, Persisting, Preparing, Reserving, Committing, Leaving
    <2>6. Fits(m)
      BY <2>4, <2>5 DEF Fits, Placed, Leaving, Current, Identified, Validated
    <2>7. Locks(m) = Locks(l)
      BY <1>5, <2>4 DEF Locks
    <2> QED
      BY <1>1, <2>2, <2>3, <2>6, <2>7, MovesOn DEF GiveUp
  <1> QED
    BY <1>2, <1>3, <1>4, <1>5 DEF CallRecord

LEMMA AbortKeeps ==
  ASSUME IInv, NEW c \in Calls, Abort(c), UNCHANGED record
  PROVE  IInv'
  BY EndsKeeps DEF Abort

-----------------------------------------------------------------------------
(* The commits, and the mint                                               *)

\* A transaction that ends leaves the others' rows as they were.
LEMMA LockingStays ==
  ASSUME IInv, NEW c \in Calls, To(c, Idle),
         \A r \in Absent : r \in Absent' \/ r \in Locks(call[c])
  PROVE  Locking'
  <1>1. \A d \in Calls : Locks(call'[d]) = IF d = c THEN {} ELSE Locks(call[d])
    BY IdleFits DEF To, IInv, Types
  <1>2. ASSUME NEW d \in Calls PROVE Locks(call'[d]) \subseteq Absent'
    <2>1. CASE d = c
      BY <1>1, <2>1
    <2>2. CASE d # c
      <3>1. Locks(call[d]) \subseteq Absent /\ Locks(call[d]) \cap Locks(call[c]) = {}
        BY <2>2, CallFacts
      <3> QED
        BY <1>1, <2>2, <3>1
    <2> QED
      BY <2>1, <2>2
  <1>3. ASSUME NEW d \in Calls, NEW e \in Calls \ {d}
        PROVE  Locks(call'[d]) \cap Locks(call'[e]) = {}
    BY <1>1, CallFacts
  <1> QED
    BY <1>2, <1>3 DEF Locking

LEMMA CallsStay ==
  ASSUME IInv, NEW c \in Calls, To(c, Idle), mint' = mint,
         \A k \in Keysets : keysets[k] # Nothing => keysets'[k] = keysets[k],
         \A t \in Times : observations[t] # Nothing => observations'[t] = observations[t]
  PROVE  call' \in [Calls -> CallRecord] /\ CallsFit'
  <1>1. \A d \in Calls : call'[d] = IF d = c THEN Idle ELSE call[d]
    BY DEF To, IInv, Types
  <1>2. call' \in [Calls -> CallRecord]
    BY IdleFits DEF To, IInv, Types
  <1>3. ASSUME NEW d \in Calls PROVE Fits(call[d])'
    <2>1. PICK l : l = call'[d]
      OBVIOUS
    <2>2. Fits(l) /\ l \in CallRecord
      BY <1>1, <2>1, CallFacts, IdleFits
    <2>3. Fits(l)'
      BY <2>2, FitsOn DEF IInv
    <2> QED
      BY <2>1, <2>3 DEF Fits, Placed, Current, Identified, Validated, Resting, Asking, Persisting,
                        Preparing, Reserving, Committing, Leaving, ValidAt
  <1> QED
    BY <1>2, <1>3 DEF CallsFit, Fits

LEMMA CommitObservationKeeps ==
  ASSUME IInv, NEW c \in Calls, CommitObservation(c), UNCHANGED record
  PROVE  IInv'
  <1>1. PICK l : l = call[c]
    OBVIOUS
  <1>2. l \in CallRecord /\ Fits(l) /\ l.tx = "commit" /\ l.payment = Nothing
    BY <1>1, CallFacts DEF CommitObservation
  <1>3. Committing(l)
    BY <1>2 DEF Fits, Placed, Resting, Asking, Persisting, Preparing, Reserving, Committing, Leaving
  <1>4. /\ l.meta \in Versions /\ l.time \in Times /\ l.held \subseteq DOMAIN l.meta
        /\ l.done = Cardinality(DOMAIN l.meta)
    BY <1>2, <1>3 DEF Committing
  <1>5. To(c, Idle)
    <2>1. Ends(c, "refused") \/ Ends(c, "done")
      BY DEF CommitObservation
    <2> QED
      BY <2>1, IdleFits DEF Ends
  <1>6. /\ \A k \in Keysets : keysets'[k] = IF k \in l.held THEN l.meta[k].of ELSE keysets[k]
        /\ keysets' = [k \in Keysets |-> IF k \in l.held THEN l.meta[k].of ELSE keysets[k]]
    BY <1>1 DEF CommitObservation
  <1>7. observations' = [observations EXCEPT ![l.time] = ObservationRow(l.meta)]
    BY <1>1 DEF CommitObservation
  <1>8. \A t \in Times :
            observations'[t] = IF t = l.time THEN ObservationRow(l.meta) ELSE observations[t]
    BY <1>4, <1>7 DEF IInv, Types
  <1>9. /\ \A k \in l.held : keysets[k] = Nothing
        /\ observations[l.time] = Nothing
    <2>1. Locks(l) \subseteq Absent
      BY <1>1, CallFacts
    <2>2. \A k \in l.held : <<"keyset", k>> \in Absent
      BY <1>2, <2>1, LocksOf
    <2>3. <<"time", l.time>> \in Absent
      BY <1>2, <2>1, LocksOf
    <2> QED
      BY <2>2, <2>3, AbsentRows
  <1>10. \A k \in Keysets : keysets[k] # Nothing => keysets'[k] = keysets[k]
    BY <1>6, <1>9
  <1>11. \A t \in Times : observations[t] # Nothing => observations'[t] = observations[t]
    BY <1>8, <1>9
  <1>12. \A k \in DOMAIN l.meta : k \in Keysets /\ keysets'[k] = l.meta[k].of
    <2>1. \A k \in DOMAIN l.meta \ l.held : keysets[k] = l.meta[k].of
      <3>1. DOMAIN l.meta = Lowest(DOMAIN l.meta, l.done)
        BY <1>4, VersionFacts, EndsOfSet
      <3> QED
        BY <1>2, <3>1 DEF Fits, Identified
    <2>2. DOMAIN l.meta \subseteq Keysets
      BY <1>4, VersionFacts
    <2> QED
      BY <1>6, <2>1, <2>2
  <1>13. mint' = mint
    BY DEF CommitObservation
  <1>14. call' \in [Calls -> CallRecord] /\ CallsFit'
    BY <1>5, <1>10, <1>11, <1>13, CallsStay
  <1>15. Types'
    <2>1. keysets' \in [Keysets -> Material \cup {Nothing}]
      <3>1. \A k \in l.held : l.meta[k].of \in Material
        BY <1>4, VersionFacts
      <3> HIDE DEF Material
      <3>2. \A k \in Keysets : keysets'[k] \in Material \cup {Nothing}
        BY <1>6, <3>1 DEF IInv, Types
      <3> QED
        BY <1>6, <3>2
    <2>2. observations' \in [Times -> {Nothing} \cup {ObservationRow(v) : v \in Versions}]
      BY <1>4, <1>7 DEF IInv, Types
    <2> QED
      BY <1>13, <1>14, <2>1, <2>2 DEF IInv, Types, record
  <1>16. Locking'
    <2>1. \A k : <<"keyset", k>> \in Absent => <<"keyset", k>> \in Absent' \/ k \in l.held
      BY <1>6, AbsentRows DEF Absent
    <2>2. \A t : <<"time", t>> \in Absent => <<"time", t>> \in Absent' \/ t = l.time
      BY <1>8, AbsentRows DEF Absent
    <2>3. ASSUME NEW r \in Absent PROVE r \in Absent' \/ r \in Locks(l)
      <3>1. CASE \E k \in Keysets : r = <<"keyset", k>>
        BY <1>2, <2>1, <3>1, LocksOf
      <3>2. CASE \E t \in Times : r = <<"time", t>>
        BY <1>2, <2>2, <3>2, LocksOf
      <3>3. CASE \/ \E i \in Invoices : journal[i] = NoPayment /\ r = <<"invoice", i>>
                 \/ \E p \in Payments : reservations[p] = Nothing /\ r = <<"payment", p>>
                 \/ \E y \in Proofs : claims[y] = NoPayment /\ r = <<"claim", y>>
        BY <3>3 DEF Absent, record
      <3> QED
        BY <3>1, <3>2, <3>3 DEF Absent
    <2> QED
      BY <1>1, <1>5, <2>3, LockingStays
  <1>17. ObservationsFit'
    <2> SUFFICES ASSUME NEW t \in Times, observations'[t] # Nothing,
                        NEW k \in DOMAIN observations'[t].fingerprint
                 PROVE  keysets'[k] = observations'[t].fingerprint[k].of
      BY DEF ObservationsFit
    <2>1. CASE t = l.time
      BY <1>4, <1>8, <1>12, <2>1, RowFacts
    <2>2. CASE t # l.time
      <3>1. observations'[t] = observations[t] /\ observations[t] # Nothing
        BY <1>8, <2>2
      <3>2. observations[t].fingerprint \in Versions
        BY <3>1, StoredObservation DEF IInv
      <3>3. k \in Keysets /\ observations[t].fingerprint[k].of # Nothing
        BY <3>1, <3>2, VersionFacts
      <3>4. keysets[k] = observations[t].fingerprint[k].of
        BY <3>1 DEF IInv, ObservationsFit
      <3> QED
        BY <1>10, <3>1, <3>3, <3>4
    <2> QED
      BY <2>1, <2>2
  <1>18. ReservationsFit'
    <2> SUFFICES ASSUME NEW p \in Payments, reservations[p] # Nothing
                 PROVE  ValidAt(p, reservations[p].evidence, reservations[p].reservedAt, terms[p])'
      BY DEF ReservationsFit, IInv, record, StateOf
    <2>1. ValidAt(p, reservations[p].evidence, reservations[p].reservedAt, terms[p])
          /\ reservations[p].evidence \in Times
      BY DEF IInv, ReservationsFit, Types, Row
    <2> QED
      BY <1>11, <2>1 DEF ValidAt, record
  <1> QED
    BY <1>14, <1>15, <1>16, <1>17, <1>18 DEF IInv

LEMMA PublishKeeps ==
  ASSUME IInv, NEW v \in Versions, Publish(v), UNCHANGED record
  PROVE  IInv'
  <1>1. \A d \in Calls : call'[d] = IF call[d].pc = "again" /\ call[d].meta = v
                                    THEN [call[d] EXCEPT !.current = TRUE] ELSE call[d]
    BY DEF Publish
  <1>2. ASSUME NEW d \in Calls
        PROVE  call'[d] \in CallRecord /\ Fits(call[d])' /\ Locks(call'[d]) = Locks(call[d])
    <2>1. PICK l : l = call[d]
      OBVIOUS
    <2>2. PICK m : m = call'[d]
      OBVIOUS
    <2>3. l \in CallRecord /\ Fits(l)
      BY <2>1, CallFacts
    <2>4. /\ m \in CallRecord
          /\ m.pc = l.pc /\ m.answer = l.answer /\ m.at = l.at /\ m.meta = l.meta /\ m.got = l.got
          /\ m.time = l.time /\ m.held = l.held /\ m.done = l.done /\ m.payment = l.payment
          /\ m.terms = l.terms /\ m.tx = l.tx
          /\ m.current = IF l.pc = "again" /\ l.meta = v THEN TRUE ELSE l.current
      <3>1. CASE l.pc = "again" /\ l.meta = v
        <4>1. m = [l EXCEPT !.current = TRUE]
          BY <1>1, <2>1, <2>2, <3>1
        <4> QED
          BY <2>3, <3>1, <4>1 DEF CallRecord
      <3>2. CASE ~(l.pc = "again" /\ l.meta = v)
        BY <1>1, <2>1, <2>2, <2>3, <3>2
      <3> QED
        BY <3>1, <3>2
    <2>5. Placed(m)
      BY <2>3, <2>4 DEF Fits, Placed, Resting, Asking, Persisting, Preparing, Reserving, Committing,
                        Leaving
    <2>6. Identified(m) /\ Validated(m)
      BY <2>3, <2>4 DEF Fits, Identified, Validated
    <2>7. (m.pc = "again" /\ v = m.meta => m.current) /\ (m.pc = "stamp" => m.current)
      BY <2>3, <2>4 DEF Fits, Current
    <2>8. mint' = v /\ keysets' = keysets /\ observations' = observations
      BY DEF Publish, evidence
    <2>9. Fits(m)'
      BY <2>5, <2>6, <2>7, <2>8
         DEF Fits, Placed, Current, Identified, Validated, Resting, Asking, Persisting, Preparing,
             Reserving, Committing, Leaving, ValidAt
    <2>10. Fits(call[d])'
      BY <2>2, <2>9 DEF Fits, Placed, Current, Identified, Validated, Resting, Asking, Persisting,
                        Preparing, Reserving, Committing, Leaving, ValidAt
    <2> QED
      BY <2>1, <2>2, <2>4, <2>10 DEF Locks
  <1>3. Types'
    <2>1. call' \in [Calls -> CallRecord]
      <3>1. call' = [d \in Calls |-> call'[d]]
        BY DEF Publish
      <3> QED
        BY <1>2, <3>1
    <2> QED
      BY <2>1 DEF IInv, Types, Publish, evidence, record
  <1>4. CallsFit'
    BY <1>2 DEF CallsFit, Fits
  <1>5. Absent' = Absent
    BY DEF Absent, Publish, evidence, record
  <1>6. Locking'
    BY <1>2, <1>5 DEF IInv, Locking
  <1>7. ObservationsFit' /\ ReservationsFit'
    BY DEF IInv, ObservationsFit, ReservationsFit, Publish, evidence, record, ValidAt, StateOf
  <1> QED
    BY <1>3, <1>4, <1>6, <1>7 DEF IInv

-----------------------------------------------------------------------------
(* A payment                                                               *)

LEMMA PaymentFacts ==
  ASSUME NEW p \in Payments
  PROVE  /\ p # Nothing /\ InvoiceOf[p] \in Invoices
         /\ ProofsOf[p] \subseteq Proofs /\ ProofsOf[p] \subseteq Nat /\ ProofsOf[p] # {}
         /\ IsFiniteSet(ProofsOf[p]) /\ Cardinality(ProofsOf[p]) \in Nat
         /\ Lowest(ProofsOf[p], 0) = {}
         /\ Lowest(ProofsOf[p], Cardinality(ProofsOf[p])) = ProofsOf[p]
  <1>1. /\ p # Nothing /\ InvoiceOf[p] \in Invoices
        /\ ProofsOf[p] \subseteq Proofs /\ ProofsOf[p] \subseteq Nat /\ ProofsOf[p] # {}
        /\ IsFiniteSet(ProofsOf[p])
    BY ReservationAssumption
  <1> QED
    BY <1>1, EndsOfSet

LEMMA IntakeKeeps ==
  ASSUME IInv, NEW c \in Calls, NEW p \in Payments, NEW t \in Times, Intake(c, p, t)
  PROVE  IInv'
  <1>1. PICK m : m = [Idle EXCEPT !.pc = "find", !.payment = p, !.at = t]
    OBVIOUS
  <1>2. m \in CallRecord
    BY <1>1, IdleFits DEF CallRecord, Stages
  <1>3. Fits(m) /\ Locks(m) = {}
    BY <1>1 DEF Idle, Fits, Placed, Preparing, Current, Identified, Validated, Locks
  <1> QED
    BY <1>1, <1>2, <1>3, MovesOn DEF Intake

LEMMA ValidateKeeps ==
  ASSUME IInv, NEW c \in Calls, Validate(c)
  PROVE  IInv'
  <1>1. PICK l : l = call[c]
    OBVIOUS
  <1>2. l \in CallRecord /\ Fits(l) /\ l.pc = "find"
    BY <1>1, CallFacts DEF Validate
  <1>3. Preparing(l)
    BY <1>2 DEF Fits, Placed, Resting, Asking, Persisting, Preparing, Reserving, Committing, Leaving
  <1>4. l.payment \in Payments /\ l.at \in Times /\ l.tx = "none" /\ l.held = {} /\ l.done = 0
    BY <1>3 DEF Preparing
  <1>5. PICK t : t = LatestWithin(l.at - MaxAge, l.at)
    OBVIOUS
  <1>6. t # Nothing => t \in Times /\ observations[t] # Nothing
    <2>1. l.at - MaxAge \in Int
      <3>1. l.at \in Nat /\ MaxAge \in Nat
        BY <1>4, KeysetAssumption, ReservationAssumption
      <3> QED
        BY <3>1
    <2> QED
      BY <1>4, <1>5, <2>1, LatestFound
  <1>7. CASE t = Nothing
    <2>1. Ends(c, "refused")
      BY <1>1, <1>5, <1>7 DEF Validate
    <2> QED
      BY <2>1, EndsKeeps DEF Validate
  <1>8. CASE t # Nothing
    <2>1. /\ t \in Times /\ observations[t] # Nothing /\ Readable(observations[t])
          /\ Rebuilt(observations[t]) = observations[t].fingerprint
          /\ observations[t].fingerprint \in Versions
      BY <1>6, <1>8, StoredObservation DEF IInv
    <2>2. PICK v \in Versions : v = observations[t].fingerprint
      BY <2>1
    <2>3. CASE ValidFor(ProofsOf[l.payment], v, l.at)
      <3>1. PICK m : m = [l EXCEPT !.pc = "reserve", !.time = t,
                                   !.terms = Terms(ProofsOf[l.payment], v)]
        OBVIOUS
      <3>2. To(c, m)
        BY <1>1, <1>5, <1>8, <2>1, <2>2, <2>3, <3>1 DEF Validate
      <3>3. Terms(ProofsOf[l.payment], v) \in Offers
        BY <1>4 DEF Offers
      <3>4. m \in CallRecord
        BY <1>2, <2>1, <3>1, <3>3 DEF CallRecord, Stages
      <3>5. /\ m.pc = "reserve" /\ m.payment = l.payment /\ m.time = t /\ m.at = l.at
            /\ m.terms = Terms(ProofsOf[l.payment], v)
            /\ m.tx = "none" /\ m.held = {} /\ m.done = 0
        BY <1>2, <1>4, <3>1 DEF CallRecord
      <3>6. Preparing(m)
        BY <1>4, <2>1, <3>5 DEF Preparing
      <3>7. Validated(m)
        BY <2>1, <2>2, <2>3, <3>5 DEF Validated, ValidAt
      <3>8. Fits(m) /\ Locks(m) = {}
        BY <3>5, <3>6, <3>7 DEF Fits, Placed, Current, Identified, Locks
      <3> QED
        BY <3>2, <3>4, <3>8, MovesOn DEF Validate
    <2>4. CASE ~ValidFor(ProofsOf[l.payment], v, l.at)
      <3>1. Ends(c, "refused")
        BY <1>1, <1>5, <1>8, <2>1, <2>2, <2>4 DEF Validate
      <3> QED
        BY <3>1, EndsKeeps DEF Validate
    <2> QED
      BY <2>3, <2>4
  <1> QED
    BY <1>7, <1>8

\* A payment met again has its claims, unless it was released.
LEMMA ReplaysKeep ==
  ASSUME IInv, NEW c \in Calls, call[c].payment \in Payments,
         reservations[call[c].payment] # Nothing, Replays(c),
         UNCHANGED <<mint, evidence, record>>
  PROVE  IInv'
  <1>1. PICK p \in Payments : p = call[c].payment
    OBVIOUS
  <1>2. reservations[p] \in Row /\ StateOf(p) = reservations[p].state /\ StateOf(p) # "idle"
    BY <1>1 DEF IInv, Types, StateOf, Row, States
  <1>3. StateOf(p) # "returned" => {y \in Proofs : claims[y] = p} = ProofsOf[p]
    BY <1>2 DEF IInv, ReservationsFit
  <1>4. StateOf(p) # "returned" => \A y \in ProofsOf[p] : claims[y] = p
    BY <1>3
  <1>5. Ends(c, "refused") \/ Ends(c, "done")
    BY <1>1, <1>2, <1>4 DEF Replays
  <1> QED
    BY <1>5, EndsKeeps

LEMMA FindReservationKeeps ==
  ASSUME IInv, NEW c \in Calls, FindReservation(c)
  PROVE  IInv'
  <1>1. PICK l : l = call[c]
    OBVIOUS
  <1>2. l \in CallRecord /\ Fits(l) /\ l.pc = "reserve"
    BY <1>1, CallFacts DEF FindReservation
  <1>3. Preparing(l)
    BY <1>2 DEF Fits, Placed, Resting, Asking, Persisting, Preparing, Reserving, Committing, Leaving
  <1>4. /\ l.payment \in Payments /\ l.at \in Times /\ l.tx = "none" /\ l.held = {} /\ l.done = 0
        /\ l.time \in Times
    BY <1>2, <1>3 DEF Preparing
  <1>5. CASE reservations[l.payment] # Nothing
    BY <1>1, <1>4, <1>5, ReplaysKeep DEF FindReservation
  <1>6. CASE reservations[l.payment] = Nothing
    <2>1. PICK m : m = [l EXCEPT !.pc = "invoice"]
      OBVIOUS
    <2>2. To(c, m)
      BY <1>1, <1>6, <2>1 DEF FindReservation
    <2>3. m \in CallRecord
      BY <1>2, <2>1 DEF CallRecord, Stages
    <2>4. /\ m.pc = "invoice" /\ m.payment = l.payment /\ m.time = l.time /\ m.at = l.at
          /\ m.terms = l.terms /\ m.tx = "none" /\ m.held = {} /\ m.done = 0
      BY <1>2, <1>4, <2>1 DEF CallRecord
    <2>5. Preparing(m)
      BY <1>4, <2>4 DEF Preparing
    <2>6. Validated(m)
      BY <1>2, <2>4 DEF Fits, Validated
    <2>7. Fits(m) /\ Locks(m) = {}
      BY <2>4, <2>5, <2>6 DEF Fits, Placed, Current, Identified, Locks
    <2> QED
      BY <2>2, <2>3, <2>7, MovesOn DEF FindReservation
  <1> QED
    BY <1>5, <1>6

LEMMA LockInvoiceKeeps ==
  ASSUME IInv, NEW c \in Calls, LockInvoice(c)
  PROVE  IInv'
  <1>1. PICK l : l = call[c]
    OBVIOUS
  <1>2. l \in CallRecord /\ Fits(l) /\ l.pc = "invoice"
    BY <1>1, CallFacts DEF LockInvoice
  <1>3. Preparing(l)
    BY <1>2 DEF Fits, Placed, Resting, Asking, Persisting, Preparing, Reserving, Committing, Leaving
  <1>4. /\ l.payment \in Payments /\ l.at \in Times /\ l.tx = "none" /\ l.held = {} /\ l.done = 0
        /\ l.time \in Times /\ l.payment # Nothing
    BY <1>2, <1>3, PaymentFacts DEF Preparing
  <1>5. PICK i : i = InvoiceOf[l.payment]
    OBVIOUS
  <1>6. CASE journal[i] = NoPayment /\ l.at >= WindowOf[i].from /\ l.at < WindowOf[i].to
    <2>1. PICK m : m = [l EXCEPT !.pc = "evidence", !.tx = "open", !.got = {"invoice"}]
      OBVIOUS
    <2>2. To(c, m)
      BY <1>1, <1>5, <1>6, <2>1 DEF LockInvoice
    <2>3. m \in CallRecord
      BY <1>2, <2>1 DEF CallRecord, Stages
    <2>4. /\ m.pc = "evidence" /\ m.payment = l.payment /\ m.time = l.time /\ m.at = l.at
          /\ m.terms = l.terms /\ m.tx = "open" /\ m.held = {} /\ m.done = 0 /\ m.got = {"invoice"}
      BY <1>2, <1>4, <2>1 DEF CallRecord
    <2>5. Reserving(m)
      BY <1>4, <2>4 DEF Reserving
    <2>6. Validated(m)
      BY <1>2, <2>4 DEF Fits, Validated
    <2>7. Fits(m)
      BY <2>4, <2>5, <2>6 DEF Fits, Placed, Current, Identified
    <2>8. <<"invoice", i>> \in Absent
      BY <1>4, <1>5, <1>6, PaymentFacts, AbsentRows
    <2>9. \A d \in Calls \ {c} : <<"invoice", i>> \notin Locks(call[d])
      <3> TAKE d \in Calls \ {c}
      <3>1. call[d].tx \in {"none", "open", "commit"}
        BY CallFacts DEF CallRecord
      <3>2. ~HoldsInvoice(d, i)
        BY <1>1, <1>5 DEF LockInvoice
      <3> QED
        BY <3>1, <3>2, LocksOf DEF HoldsInvoice, Reserves, InTx
    <2>10. Locks(m) \subseteq Locks(call[c]) \cup {<<"invoice", i>>}
      <3> SUFFICES ASSUME NEW r \in Locks(m) PROVE r = <<"invoice", i>>
        OBVIOUS
      <3> QED
        BY <1>4, <1>5, <2>4, LocksOf
    <2> QED
      BY <2>2, <2>3, <2>7, <2>8, <2>9, <2>10, TakesRow DEF LockInvoice
  <1>7. CASE ~(journal[i] = NoPayment /\ l.at >= WindowOf[i].from /\ l.at < WindowOf[i].to)
    <2>1. Ends(c, "refused")
      BY <1>1, <1>5, <1>7 DEF LockInvoice
    <2> QED
      BY <2>1, EndsKeeps DEF LockInvoice
  <1> QED
    BY <1>6, <1>7

\* The evidence that proofs were validated against has their keysets.
LEMMA ValidIsEvident ==
  ASSUME IInv, NEW p \in Payments, NEW t \in Times, NEW now, NEW offer, ValidAt(p, t, now, offer)
  PROVE  Evident(p, t)
  <1>1. observations[t] # Nothing
        /\ ValidFor(ProofsOf[p], observations[t].fingerprint, now)
    BY DEF ValidAt
  <1>2. DOMAIN observations[t].active = DOMAIN observations[t].fingerprint
    BY <1>1, StoredObservation DEF IInv
  <1> QED
    BY <1>1, <1>2 DEF Evident, ValidFor, Unexpired

LEMMA AssertKeysetEvidenceKeeps ==
  ASSUME IInv, NEW c \in Calls, AssertKeysetEvidence(c)
  PROVE  IInv'
  <1>1. PICK l : l = call[c]
    OBVIOUS
  <1>2. l \in CallRecord /\ Fits(l) /\ l.pc = "evidence"
    BY <1>1, CallFacts DEF AssertKeysetEvidence
  <1>3. Reserving(l)
    BY <1>2 DEF Fits, Placed, Resting, Asking, Persisting, Preparing, Reserving, Committing, Leaving
  <1>4. /\ l.payment \in Payments /\ l.at \in Times /\ l.tx = "open" /\ l.held = {} /\ l.done = 0
        /\ l.time \in Times /\ l.got = {"invoice"}
    BY <1>2, <1>3 DEF Reserving
  <1>5. Evident(l.payment, l.time)
    BY <1>2, <1>4, ValidIsEvident DEF Fits, Validated
  <1>6. PICK m : m = [l EXCEPT !.pc = "insert"]
    OBVIOUS
  <1>7. To(c, m)
    BY <1>1, <1>5, <1>6 DEF AssertKeysetEvidence
  <1>8. m \in CallRecord
    BY <1>2, <1>6 DEF CallRecord, Stages
  <1>9. /\ m.pc = "insert" /\ m.payment = l.payment /\ m.time = l.time /\ m.at = l.at
        /\ m.terms = l.terms /\ m.tx = "open" /\ m.held = {} /\ m.done = 0 /\ m.got = {"invoice"}
    BY <1>2, <1>4, <1>6 DEF CallRecord
  <1>10. Reserving(m)
    BY <1>4, <1>9 DEF Reserving
  <1>11. Validated(m)
    BY <1>2, <1>9 DEF Fits, Validated
  <1>12. Fits(m)
    BY <1>9, <1>10, <1>11 DEF Fits, Placed, Current, Identified
  <1>13. Locks(m) = Locks(l)
    BY <1>4, <1>9 DEF Locks
  <1> QED
    BY <1>1, <1>7, <1>8, <1>12, <1>13, MovesOn DEF AssertKeysetEvidence

LEMMA InsertReservationKeeps ==
  ASSUME IInv, NEW c \in Calls, InsertReservation(c)
  PROVE  IInv'
  <1>1. PICK l : l = call[c]
    OBVIOUS
  <1>2. l \in CallRecord /\ Fits(l) /\ l.pc = "insert"
    BY <1>1, CallFacts DEF InsertReservation
  <1>3. Reserving(l)
    BY <1>2 DEF Fits, Placed, Resting, Asking, Persisting, Preparing, Reserving, Committing, Leaving
  <1>4. /\ l.payment \in Payments /\ l.at \in Times /\ l.tx = "open" /\ l.held = {} /\ l.done = 0
        /\ l.time \in Times /\ l.got = {"invoice"} /\ l.payment # Nothing
    BY <1>2, <1>3, PaymentFacts DEF Reserving
  <1>5. CASE reservations[l.payment] # Nothing
    BY <1>1, <1>4, <1>5, ReplaysKeep DEF InsertReservation
  <1>6. CASE reservations[l.payment] = Nothing
    <2>1. PICK m : m = [l EXCEPT !.pc = "proofs", !.got = l.got \cup {"payment"}]
      OBVIOUS
    <2>2. To(c, m)
      BY <1>1, <1>6, <2>1 DEF InsertReservation
    <2>3. m \in CallRecord
      BY <1>2, <2>1 DEF CallRecord, Stages
    <2>4. /\ m.pc = "proofs" /\ m.payment = l.payment /\ m.time = l.time /\ m.at = l.at
          /\ m.terms = l.terms /\ m.tx = "open" /\ m.held = {} /\ m.done = 0
          /\ m.got = {"invoice", "payment"}
      BY <1>2, <1>4, <2>1 DEF CallRecord
    <2>5. Reserving(m)
      BY <1>4, <2>4, PaymentFacts DEF Reserving
    <2>6. Validated(m)
      BY <1>2, <2>4 DEF Fits, Validated
    <2>7. Fits(m)
      BY <2>4, <2>5, <2>6 DEF Fits, Placed, Current, Identified
    <2>8. <<"payment", l.payment>> \in Absent
      BY <1>4, <1>6, AbsentRows
    <2>9. \A d \in Calls \ {c} : <<"payment", l.payment>> \notin Locks(call[d])
      <3> TAKE d \in Calls \ {c}
      <3>1. call[d].tx \in {"none", "open", "commit"}
        BY CallFacts DEF CallRecord
      <3>2. ~HoldsPayment(d, l.payment)
        BY <1>1 DEF InsertReservation
      <3> QED
        BY <3>1, <3>2, LocksOf DEF HoldsPayment, Reserves, InTx
    <2>10. Locks(m) \subseteq Locks(call[c]) \cup {<<"payment", l.payment>>}
      <3> SUFFICES ASSUME NEW r \in Locks(m) PROVE r \in Locks(l) \/ r = <<"payment", l.payment>>
        BY <1>1
      <3>1. r = <<"invoice", InvoiceOf[l.payment]>> \/ r = <<"payment", l.payment>>
        BY <1>4, <2>4, LocksOf
      <3> QED
        BY <1>4, <3>1, LocksOf
    <2> QED
      BY <2>2, <2>3, <2>7, <2>8, <2>9, <2>10, TakesRow DEF InsertReservation
  <1> QED
    BY <1>5, <1>6

LEMMA InsertProofKeeps ==
  ASSUME IInv, NEW c \in Calls, InsertProof(c)
  PROVE  IInv'
  <1>1. PICK l : l = call[c]
    OBVIOUS
  <1>2. l \in CallRecord /\ Fits(l) /\ l.pc = "proofs"
        /\ l.done < Cardinality(ProofsOf[l.payment])
    BY <1>1, CallFacts DEF InsertProof
  <1>3. Reserving(l)
    BY <1>2 DEF Fits, Placed, Resting, Asking, Persisting, Preparing, Reserving, Committing, Leaving
  <1>4. /\ l.payment \in Payments /\ l.at \in Times /\ l.tx = "open" /\ l.time \in Times
        /\ l.got = {"invoice", "payment"} /\ l.payment # Nothing
        /\ l.held = Lowest(ProofsOf[l.payment], l.done)
    BY <1>2, <1>3, PaymentFacts DEF Reserving
  <1>5. PICK S : S = ProofsOf[l.payment]
    OBVIOUS
  <1>6. S \subseteq Nat /\ S \subseteq Proofs /\ IsFiniteSet(S) /\ Cardinality(S) \in Nat
        /\ l.done \in Nat /\ l.done < Cardinality(S)
    BY <1>2, <1>4, <1>5, PaymentFacts DEF CallRecord
  <1>7. PICK y : y = Nth(S, l.done)
    OBVIOUS
  <1>8. y \in S /\ Lowest(S, l.done + 1) = Lowest(S, l.done) \cup {y}
    BY <1>6, <1>7, NextOfSet
  <1>9. y = NextProof(l)
    BY <1>5, <1>7 DEF NextProof
  <1>10. CASE claims[y] # NoPayment
    <2>1. Ends(c, "refused")
      BY <1>1, <1>9, <1>10 DEF InsertProof
    <2> QED
      BY <2>1, EndsKeeps DEF InsertProof
  <1>11. CASE claims[y] = NoPayment
    <2>1. PICK m : m = [l EXCEPT !.held = l.held \cup {y}, !.done = l.done + 1]
      OBVIOUS
    <2>2. To(c, m)
      BY <1>1, <1>9, <1>11, <2>1 DEF InsertProof
    <2>3. m \in CallRecord
      <3>1. l.done + 1 \in Nat
        BY <1>6
      <3>2. l.held \cup {y} \in SUBSET (Keysets \cup Proofs)
        BY <1>2, <1>6, <1>8 DEF CallRecord
      <3> QED
        BY <1>2, <2>1, <3>1, <3>2 DEF CallRecord
    <2>4. /\ m.pc = "proofs" /\ m.payment = l.payment /\ m.time = l.time /\ m.at = l.at
          /\ m.terms = l.terms /\ m.tx = "open" /\ m.held = l.held \cup {y} /\ m.done = l.done + 1
          /\ m.got = {"invoice", "payment"}
      BY <1>2, <1>4, <2>1 DEF CallRecord
    <2>5. Reserving(m)
      <3>1. m.done <= Cardinality(S)
        BY <1>6, <2>4
      <3> QED
        BY <1>4, <1>5, <1>8, <2>4, <3>1 DEF Reserving
    <2>6. Validated(m)
      BY <1>2, <2>4 DEF Fits, Validated
    <2>7. Fits(m)
      BY <2>4, <2>5, <2>6 DEF Fits, Placed, Current, Identified
    <2>8. <<"claim", y>> \in Absent
      BY <1>6, <1>8, <1>11, AbsentRows
    <2>9. \A d \in Calls \ {c} : <<"claim", y>> \notin Locks(call[d])
      <3> TAKE d \in Calls \ {c}
      <3>1. call[d].tx \in {"none", "open", "commit"}
        BY CallFacts DEF CallRecord
      <3>2. ~HoldsClaim(d, y)
        BY <1>1, <1>9 DEF InsertProof
      <3> QED
        BY <3>1, <3>2, LocksOf DEF HoldsClaim, Reserves, InTx
    <2>10. Locks(m) \subseteq Locks(call[c]) \cup {<<"claim", y>>}
      <3> SUFFICES ASSUME NEW r \in Locks(m) PROVE r \in Locks(l) \/ r = <<"claim", y>>
        BY <1>1
      <3>1. \/ r = <<"invoice", InvoiceOf[l.payment]>> \/ r = <<"payment", l.payment>>
            \/ \E z \in m.held : r = <<"claim", z>>
        BY <1>4, <2>4, LocksOf
      <3> QED
        BY <1>4, <2>4, <3>1, LocksOf
    <2> QED
      BY <2>2, <2>3, <2>7, <2>8, <2>9, <2>10, TakesRow DEF InsertProof
  <1> QED
    BY <1>10, <1>11

LEMMA AskCommitKeeps ==
  ASSUME IInv, NEW c \in Calls, AskCommit(c)
  PROVE  IInv'
  <1>1. PICK l : l = call[c]
    OBVIOUS
  <1>2. l \in CallRecord /\ Fits(l) /\ l.pc = "proofs"
        /\ l.done = Cardinality(ProofsOf[l.payment])
    BY <1>1, CallFacts DEF AskCommit
  <1>3. Reserving(l)
    BY <1>2 DEF Fits, Placed, Resting, Asking, Persisting, Preparing, Reserving, Committing, Leaving
  <1>4. /\ l.payment \in Payments /\ l.at \in Times /\ l.tx = "open" /\ l.time \in Times
        /\ l.got = {"invoice", "payment"} /\ l.payment # Nothing
        /\ l.held = ProofsOf[l.payment]
    BY <1>2, <1>3, PaymentFacts DEF Reserving
  <1>5. PICK m : m = [l EXCEPT !.pc = "committing", !.tx = "commit"]
    OBVIOUS
  <1>6. To(c, m)
    BY <1>1, <1>5 DEF AskCommit
  <1>7. m \in CallRecord
    BY <1>2, <1>5 DEF CallRecord, Stages
  <1>8. /\ m.pc = "committing" /\ m.payment = l.payment /\ m.time = l.time /\ m.at = l.at
        /\ m.terms = l.terms /\ m.tx = "commit" /\ m.held = l.held /\ m.got = l.got
    BY <1>2, <1>5 DEF CallRecord
  <1>9. Committing(m)
    BY <1>4, <1>8 DEF Committing
  <1>10. Validated(m)
    BY <1>2, <1>8 DEF Fits, Validated
  <1>11. Fits(m)
    BY <1>4, <1>8, <1>9, <1>10 DEF Fits, Placed, Current, Identified
  <1>12. Locks(m) = Locks(l)
    BY <1>4, <1>8 DEF Locks
  <1> QED
    BY <1>1, <1>6, <1>7, <1>11, <1>12, MovesOn DEF AskCommit

LEMMA CommitReservationKeeps ==
  ASSUME IInv, NEW c \in Calls, CommitReservation(c)
  PROVE  /\ IInv'
         /\ call[c].payment \in Payments /\ call[c].held = ProofsOf[call[c].payment]
         /\ reservations[call[c].payment] = Nothing
         /\ \A y \in ProofsOf[call[c].payment] : claims[y] = NoPayment
         /\ journal[InvoiceOf[call[c].payment]] = NoPayment
         /\ reservations' = [reservations EXCEPT ![call[c].payment] =
                [evidence |-> call[c].time, reservedAt |-> call[c].at, state |-> "held"]]
  <1>1. PICK l : l = call[c]
    OBVIOUS
  <1>2. l \in CallRecord /\ Fits(l) /\ l.tx = "commit" /\ l.payment # Nothing
    BY <1>1, CallFacts DEF CommitReservation
  <1>3. Committing(l)
    BY <1>2 DEF Fits, Placed, Resting, Asking, Persisting, Preparing, Reserving, Committing, Leaving
  <1>4. PICK p \in Payments : p = l.payment
    BY <1>2 DEF CallRecord
  <1>5. /\ l.at \in Times /\ l.time \in Times /\ l.got = {"invoice", "payment"}
        /\ l.held = ProofsOf[p] /\ p # Nothing /\ l.held \subseteq Proofs
    BY <1>2, <1>3, <1>4, PaymentFacts DEF Committing
  <1>6. /\ reservations[p] = Nothing /\ journal[InvoiceOf[p]] = NoPayment
        /\ \A y \in ProofsOf[p] : claims[y] = NoPayment
    <2>1. Locks(l) \subseteq Absent
      BY <1>1, CallFacts
    <2>2. <<"payment", p>> \in Absent /\ <<"invoice", InvoiceOf[p]>> \in Absent
      BY <1>2, <1>4, <1>5, <2>1, LocksOf
    <2>3. \A y \in l.held : <<"claim", y>> \in Absent
      BY <1>2, <1>4, <1>5, <2>1, LocksOf
    <2> QED
      BY <1>5, <2>2, <2>3, AbsentRows
  <1>7. ValidAt(p, l.time, l.at, l.terms)
    BY <1>2, <1>4 DEF Fits, Validated
  <1>8. Consistent(l)
    BY <1>4, <1>5, <1>6, <1>7, ValidIsEvident DEF Consistent
  <1>9. PICK row : row = [evidence |-> l.time, reservedAt |-> l.at, state |-> "held"]
    OBVIOUS
  <1>10. row \in Row /\ row.evidence = l.time /\ row.reservedAt = l.at /\ row.state = "held"
         /\ row # Nothing
    BY <1>5, <1>9, ReservationRowsAssumption DEF Row, States
  <1>11. /\ reservations' = [reservations EXCEPT ![p] = row]
         /\ terms' = [terms EXCEPT ![p] = l.terms]
         /\ claims' = [y \in Proofs |-> IF y \in l.held THEN p ELSE claims[y]]
         /\ Ends(c, IF l.pc = "gone" THEN "refused" ELSE "done")
         /\ UNCHANGED <<mint, evidence, journal>>
    BY <1>1, <1>4, <1>8, <1>9 DEF CommitReservation
  <1>12. To(c, Idle)
    <2>1. Ends(c, "refused") \/ Ends(c, "done")
      BY <1>11
    <2> QED
      BY <2>1, IdleFits DEF Ends
  <1>13. call' \in [Calls -> CallRecord] /\ CallsFit'
    BY <1>11, <1>12, CallsStay DEF evidence
  <1>14. Types'
    <2>1. reservations' \in [Payments -> Row \cup {Nothing}] /\ terms' \in [Payments -> Offers]
      BY <1>2, <1>10, <1>11 DEF IInv, Types, CallRecord
    <2>2. claims' \in [Proofs -> Payments \cup {NoPayment}]
      BY <1>11 DEF IInv, Types
    <2> QED
      BY <1>11, <1>13, <2>1, <2>2 DEF IInv, Types, evidence
  <1>15. \A q \in Payments :
             /\ reservations'[q] = IF q = p THEN row ELSE reservations[q]
             /\ terms'[q] = IF q = p THEN l.terms ELSE terms[q]
    BY <1>11 DEF IInv, Types
  <1>16. \A y \in Proofs : claims'[y] = IF y \in ProofsOf[p] THEN p ELSE claims[y]
    BY <1>5, <1>11
  <1>17. Locking'
    <2>1. ASSUME NEW r \in Absent PROVE r \in Absent' \/ r \in Locks(l)
      <3>1. CASE \/ \E k \in Keysets : keysets[k] = Nothing /\ r = <<"keyset", k>>
                 \/ \E t \in Times : observations[t] = Nothing /\ r = <<"time", t>>
                 \/ \E i \in Invoices : journal[i] = NoPayment /\ r = <<"invoice", i>>
        BY <1>11, <3>1 DEF Absent, evidence
      <3>2. ASSUME NEW q \in Payments, reservations[q] = Nothing, r = <<"payment", q>>
            PROVE  r \in Absent' \/ r \in Locks(l)
        <4>1. CASE q = p
          BY <1>2, <1>4, <1>5, <3>2, <4>1, LocksOf
        <4>2. CASE q # p
          BY <1>15, <3>2, <4>2 DEF Absent
        <4> QED
          BY <4>1, <4>2
      <3>3. ASSUME NEW y \in Proofs, claims[y] = NoPayment, r = <<"claim", y>>
            PROVE  r \in Absent' \/ r \in Locks(l)
        <4>1. CASE y \in ProofsOf[p]
          BY <1>2, <1>4, <1>5, <3>3, <4>1, LocksOf
        <4>2. CASE y \notin ProofsOf[p]
          BY <1>16, <3>3, <4>2 DEF Absent
        <4> QED
          BY <4>1, <4>2
      <3> QED
        BY <3>1, <3>2, <3>3 DEF Absent
    <2> QED
      BY <1>1, <1>12, <2>1, LockingStays
  <1>18. ObservationsFit'
    BY <1>11 DEF IInv, ObservationsFit, evidence
  <1>19. ReservationsFit'
    <2>1. ASSUME NEW q \in Payments, reservations'[q] # Nothing
          PROVE  ValidAt(q, reservations[q].evidence, reservations[q].reservedAt, terms[q])'
      <3>1. CASE q = p
        BY <1>7, <1>10, <1>11, <1>15, <3>1 DEF ValidAt, evidence
      <3>2. CASE q # p
        BY <1>11, <1>15, <2>1, <3>2 DEF IInv, ReservationsFit, ValidAt, evidence
      <3> QED
        BY <3>1, <3>2
    <2>2. ASSUME NEW q \in Payments
          PROVE  {y \in Proofs : claims'[y] = q} =
                     IF StateOf(q)' \in {"idle", "returned"} THEN {} ELSE ProofsOf[q]
      <3>1. CASE q = p
        <4>1. {y \in Proofs : claims[y] = p} = {}
          BY <1>6 DEF IInv, ReservationsFit, StateOf
        <4>2. {y \in Proofs : claims'[y] = p} = ProofsOf[p]
          BY <1>5, <1>16, <4>1
        <4>3. StateOf(p)' = "held"
          BY <1>10, <1>15 DEF StateOf
        <4> QED
          BY <3>1, <4>2, <4>3
      <3>2. CASE q # p
        <4>1. StateOf(q)' = StateOf(q)
          BY <1>15, <3>2 DEF StateOf
        <4>2. \A y \in Proofs : claims'[y] = q <=> claims[y] = q
          BY <1>6, <1>16, <3>2, ReservationAssumption
        <4>3. {y \in Proofs : claims[y] = q} =
                  IF StateOf(q) \in {"idle", "returned"} THEN {} ELSE ProofsOf[q]
          BY DEF IInv, ReservationsFit
        <4>4. {y \in Proofs : claims'[y] = q} = {y \in Proofs : claims[y] = q}
          BY <4>2
        <4> QED
          BY <4>1, <4>3, <4>4
      <3> QED
        BY <3>1, <3>2
    <2> QED
      BY <2>1, <2>2 DEF ReservationsFit
  <1>20. IInv'
    BY <1>13, <1>14, <1>17, <1>18, <1>19 DEF IInv
  <1> QED
    BY <1>1, <1>4, <1>5, <1>6, <1>9, <1>11, <1>20

-----------------------------------------------------------------------------
(* What follows a reservation                                              *)

LEMMA SetStateFacts ==
  ASSUME IInv, NEW p \in Payments, StateOf(p) # "idle", NEW s \in States, SetState(p, s)
  PROVE  /\ reservations' \in [Payments -> Row \cup {Nothing}]
         /\ \A q \in Payments :
               /\ reservations'[q] = Nothing <=> reservations[q] = Nothing
               /\ reservations[q] # Nothing =>
                     /\ reservations'[q].evidence = reservations[q].evidence
                     /\ reservations'[q].reservedAt = reservations[q].reservedAt
               /\ StateOf(q)' = IF q = p THEN s ELSE StateOf(q)
  <1>1. PICK r : r = reservations[p]
    OBVIOUS
  <1>2. r \in Row
    BY <1>1 DEF IInv, Types, StateOf
  <1>3. PICK n : n = [r EXCEPT !.state = s]
    OBVIOUS
  <1>4. n \in Row /\ n.evidence = r.evidence /\ n.reservedAt = r.reservedAt /\ n.state = s
    BY <1>2, <1>3 DEF Row
  <1>5. reservations' = [reservations EXCEPT ![p] = n]
    BY <1>1, <1>3 DEF SetState
  <1>6. r # Nothing /\ n # Nothing
    BY <1>2, <1>4, ReservationRowsAssumption
  <1>7. \A q \in Payments : reservations'[q] = IF q = p THEN n ELSE reservations[q]
    BY <1>5 DEF IInv, Types
  <1>8. reservations' \in [Payments -> Row \cup {Nothing}]
    BY <1>4, <1>5 DEF IInv, Types
  <1>9. ASSUME NEW q \in Payments
        PROVE  /\ reservations'[q] = Nothing <=> reservations[q] = Nothing
               /\ reservations[q] # Nothing =>
                     /\ reservations'[q].evidence = reservations[q].evidence
                     /\ reservations'[q].reservedAt = reservations[q].reservedAt
               /\ StateOf(q)' = IF q = p THEN s ELSE StateOf(q)
    <2>1. CASE q = p
      BY <1>1, <1>4, <1>6, <1>7, <2>1 DEF StateOf
    <2>2. CASE q # p
      BY <1>7, <2>2 DEF StateOf
    <2> QED
      BY <2>1, <2>2
  <1> QED
    BY <1>8, <1>9

\* Calls neither see nor are seen by what follows a reservation, but for the
\* rows it writes.
LEMMA Afterwards ==
  ASSUME IInv, NEW p \in Payments, StateOf(p) # "idle", NEW s \in States, SetState(p, s),
         UNCHANGED <<mint, evidence, call, terms>>,
         claims' \in [Proofs -> Payments \cup {NoPayment}],
         journal' \in [Invoices -> Payments \cup {NoPayment}],
         \A y \in Proofs : claims[y] = NoPayment => claims'[y] = NoPayment,
         \A i \in Invoices : journal[i] = NoPayment =>
             journal'[i] = NoPayment \/ \A c \in Calls : <<"invoice", i>> \notin Locks(call[c]),
         \A q \in Payments : {y \in Proofs : claims'[y] = q} =
             IF StateOf(q)' \in {"idle", "returned"} THEN {} ELSE ProofsOf[q]
  PROVE  IInv'
  <1>1. Types'
    BY SetStateFacts DEF IInv, Types, evidence
  <1>2. CallsFit'
    <2>1. ASSUME NEW d \in Calls PROVE Fits(call[d])'
      <3>1. PICK l : l = call[d]
        OBVIOUS
      <3>2. Fits(l) /\ l \in CallRecord
        BY <3>1, CallFacts
      <3>3. Fits(l)'
        BY <3>2, FitsOn DEF IInv, evidence
      <3> QED
        BY <3>1, <3>3 DEF Fits, Placed, Current, Identified, Validated, Resting, Asking,
                          Persisting, Preparing, Reserving, Committing, Leaving, ValidAt
    <2> QED
      BY <2>1 DEF CallsFit, Fits
  <1>3. Locking'
    <2>1. ASSUME NEW c \in Calls, NEW r \in Locks(call[c]) PROVE r \in Absent'
      <3>1. r \in Absent
        BY <2>1, CallFacts
      <3>2. CASE \/ \E k \in Keysets : keysets[k] = Nothing /\ r = <<"keyset", k>>
                 \/ \E t \in Times : observations[t] = Nothing /\ r = <<"time", t>>
        BY <3>2 DEF Absent, evidence
      <3>3. CASE \E i \in Invoices : journal[i] = NoPayment /\ r = <<"invoice", i>>
        BY <2>1, <3>3 DEF Absent
      <3>4. CASE \E q \in Payments : reservations[q] = Nothing /\ r = <<"payment", q>>
        <4>1. PICK q \in Payments : reservations[q] = Nothing /\ r = <<"payment", q>>
          BY <3>4
        <4>2. reservations'[q] = Nothing
          BY <4>1, SetStateFacts
        <4> QED
          BY <4>1, <4>2 DEF Absent
      <3>5. CASE \E y \in Proofs : claims[y] = NoPayment /\ r = <<"claim", y>>
        BY <3>5 DEF Absent
      <3> QED
        BY <3>1, <3>2, <3>3, <3>4, <3>5 DEF Absent
    <2> QED
      BY <2>1 DEF IInv, Locking
  <1>4. ObservationsFit'
    BY DEF IInv, ObservationsFit, evidence
  <1>5. ReservationsFit'
    <2>1. ASSUME NEW q \in Payments, reservations'[q] # Nothing
          PROVE  ValidAt(q, reservations[q].evidence, reservations[q].reservedAt, terms[q])'
      <3>1. /\ reservations[q] # Nothing
            /\ reservations'[q].evidence = reservations[q].evidence
            /\ reservations'[q].reservedAt = reservations[q].reservedAt
        BY <2>1, SetStateFacts
      <3>2. ValidAt(q, reservations[q].evidence, reservations[q].reservedAt, terms[q])
        BY <3>1 DEF IInv, ReservationsFit
      <3> QED
        BY <3>1, <3>2 DEF ValidAt, evidence
    <2> QED
      BY <2>1 DEF ReservationsFit
  <1> QED
    BY <1>1, <1>2, <1>3, <1>4, <1>5 DEF IInv

LEMMA DispatchKeeps ==
  ASSUME IInv, NEW p \in Payments, NEW preparedAt, NEW startedAt,
         Dispatch(p, preparedAt, startedAt)
  PROVE  IInv'
  <1>1. StateOf(p) = "held" /\ SetState(p, "committed") /\ "committed" \in States
        /\ UNCHANGED <<mint, evidence, call, terms, claims, journal>>
    BY DEF Dispatch, States
  <1>2. \A q \in Payments : StateOf(q)' = IF q = p THEN "committed" ELSE StateOf(q)
    BY <1>1, SetStateFacts
  <1>3. \A q \in Payments : {y \in Proofs : claims'[y] = q} =
            IF StateOf(q)' \in {"idle", "returned"} THEN {} ELSE ProofsOf[q]
    BY <1>1, <1>2 DEF IInv, ReservationsFit
  <1>4. claims' \in [Proofs -> Payments \cup {NoPayment}]
        /\ journal' \in [Invoices -> Payments \cup {NoPayment}]
    BY <1>1 DEF IInv, Types
  <1> QED
    BY <1>1, <1>3, <1>4, Afterwards

LEMMA AcceptKeeps ==
  ASSUME IInv, NEW p \in Payments, Accept(p)
  PROVE  IInv'
  <1>1. /\ StateOf(p) = "committed" /\ SetState(p, "spent") /\ "spent" \in States
        /\ InvoiceUnlocked(p) /\ journal' = [journal EXCEPT ![InvoiceOf[p]] = p]
        /\ UNCHANGED <<mint, evidence, call, terms, claims>>
    BY DEF Accept, States
  <1>2. \A q \in Payments : StateOf(q)' = IF q = p THEN "spent" ELSE StateOf(q)
    BY <1>1, SetStateFacts
  <1>3. \A q \in Payments : {y \in Proofs : claims'[y] = q} =
            IF StateOf(q)' \in {"idle", "returned"} THEN {} ELSE ProofsOf[q]
    BY <1>1, <1>2 DEF IInv, ReservationsFit
  <1>4. claims' \in [Proofs -> Payments \cup {NoPayment}]
        /\ journal' \in [Invoices -> Payments \cup {NoPayment}]
    BY <1>1, PaymentFacts DEF IInv, Types
  <1>5. \A c \in Calls : <<"invoice", InvoiceOf[p]>> \notin Locks(call[c])
    <2> TAKE c \in Calls
    <2>1. call[c].tx \in {"none", "open", "commit"}
      BY CallFacts DEF CallRecord
    <2>2. ~HoldsInvoice(c, InvoiceOf[p])
      BY <1>1 DEF InvoiceUnlocked
    <2> QED
      BY <2>1, <2>2, LocksOf DEF HoldsInvoice, Reserves, InTx
  <1>6. \A i \in Invoices : journal'[i] = journal[i] \/ i = InvoiceOf[p]
    BY <1>1 DEF IInv, Types
  <1> QED
    BY <1>1, <1>3, <1>4, <1>5, <1>6, Afterwards

LEMMA ReleaseKeeps ==
  ASSUME IInv, NEW p \in Payments, Release(p)
  PROVE  IInv'
  <1>1. /\ StateOf(p) \in {"held", "committed"} /\ SetState(p, "returned") /\ "returned" \in States
        /\ claims' = [y \in Proofs |-> IF claims[y] = p THEN NoPayment ELSE claims[y]]
        /\ UNCHANGED <<mint, evidence, call, terms, journal>>
    BY DEF Release, States
  <1>2. \A q \in Payments : StateOf(q)' = IF q = p THEN "returned" ELSE StateOf(q)
    BY <1>1, SetStateFacts
  <1>3. \A y \in Proofs : claims'[y] = IF claims[y] = p THEN NoPayment ELSE claims[y]
    BY <1>1
  <1>4. ASSUME NEW q \in Payments
        PROVE  {y \in Proofs : claims'[y] = q} =
                   IF StateOf(q)' \in {"idle", "returned"} THEN {} ELSE ProofsOf[q]
    <2>1. q # NoPayment
      BY ReservationAssumption
    <2>2. CASE q = p
      BY <1>2, <1>3, <2>1, <2>2
    <2>3. CASE q # p
      <3>1. \A y \in Proofs : claims'[y] = q <=> claims[y] = q
        BY <1>3, <2>1, <2>3
      <3>2. {y \in Proofs : claims'[y] = q} = {y \in Proofs : claims[y] = q}
        BY <3>1
      <3> QED
        BY <1>2, <2>3, <3>2 DEF IInv, ReservationsFit
    <2> QED
      BY <2>2, <2>3
  <1>5. claims' \in [Proofs -> Payments \cup {NoPayment}]
        /\ journal' \in [Invoices -> Payments \cup {NoPayment}]
    BY <1>1 DEF IInv, Types
  <1> QED
    BY <1>1, <1>3, <1>4, <1>5, Afterwards

-----------------------------------------------------------------------------
(* The invariant is inductive                                              *)

LEMMA InitIInv == Init => IInv
  <1> SUFFICES ASSUME Init PROVE IInv
    OBVIOUS
  <1>1. \A c \in Calls : call[c] = Idle
    BY DEF Init
  <1>2. Types
    BY IdleFits DEF Init, EvidenceInit, Types, Offers
  <1>3. CallsFit /\ Locking
    BY <1>1, IdleFits DEF CallsFit, Locking, Fits
  <1>4. ObservationsFit
    BY DEF Init, EvidenceInit, ObservationsFit
  <1>5. ReservationsFit
    BY ReservationAssumption DEF Init, ReservationsFit, StateOf
  <1> QED
    BY <1>2, <1>3, <1>4, <1>5 DEF IInv

LEMMA NextIInv == IInv /\ [Next]_vars => IInv'
  <1> SUFFICES ASSUME IInv, [Next]_vars PROVE IInv'
    OBVIOUS
  <1>1. ASSUME NEW c \in Calls, NEW t \in Times, Observe(c, t), UNCHANGED record PROVE IInv'
    BY <1>1, ObserveKeeps
  <1>2. ASSUME NEW c \in Calls, NEW p \in Payments, NEW t \in Times, Intake(c, p, t) PROVE IInv'
    BY <1>2, IntakeKeeps
  <1>3. ASSUME NEW c \in Calls, ObserverStep(c), UNCHANGED record PROVE IInv'
    BY <1>3, ReadMetadataKeeps, ReadKeysKeeps, ReadMetadataAgainKeeps, StampKeeps,
       PersistKeysetIdentityKeeps, InsertObservationKeeps, CommitObservationKeeps DEF ObserverStep
  <1>4. ASSUME NEW c \in Calls, GiveUp(c) \/ Abort(c), UNCHANGED record PROVE IInv'
    BY <1>4, GiveUpKeeps, AbortKeeps
  <1>5. ASSUME NEW c \in Calls, PaymentStep(c) PROVE IInv'
    BY <1>5, ValidateKeeps, FindReservationKeeps, LockInvoiceKeeps, AssertKeysetEvidenceKeeps,
       InsertReservationKeeps, InsertProofKeeps, AskCommitKeeps, CommitReservationKeeps
       DEF PaymentStep
  <1>6. ASSUME NEW v \in Versions, Publish(v), UNCHANGED record PROVE IInv'
    BY <1>6, PublishKeeps
  <1>7. ASSUME NEW p \in Payments,
               \/ \E preparedAt, startedAt \in Times : Dispatch(p, preparedAt, startedAt)
               \/ Accept(p) \/ Release(p)
        PROVE  IInv'
    BY <1>7, DispatchKeeps, AcceptKeeps, ReleaseKeeps
  <1>8. CASE UNCHANGED vars
    <2>1. /\ mint' = mint /\ keysets' = keysets /\ observations' = observations
          /\ call' = call /\ reservations' = reservations /\ terms' = terms
          /\ claims' = claims /\ journal' = journal
      BY <1>8 DEF vars, evidence, record
    <2>2. Types' /\ ObservationsFit' /\ ReservationsFit'
      BY <2>1 DEF IInv, Types, ObservationsFit, ReservationsFit, ValidAt, StateOf
    <2>3. Locking'
      BY <2>1 DEF IInv, Locking, Absent
    <2>4. CallsFit'
      <3>1. ASSUME NEW c \in Calls PROVE Fits(call[c])'
        <4>1. PICK l : l = call[c]
          OBVIOUS
        <4>2. l \in CallRecord /\ Fits(l)
          BY <4>1, CallFacts
        <4>3. Fits(l)'
          BY <2>1, <4>2, FitsOn DEF IInv
        <4>4. l = call'[c]
          BY <2>1, <4>1
        <4> QED
          BY <4>3, <4>4 DEF Fits, Placed, Current, Identified, Validated, Resting, Asking,
                            Persisting, Preparing, Reserving, Committing, Leaving, ValidAt
      <3> QED
        BY <3>1 DEF CallsFit, Fits
    <2> QED
      BY <2>2, <2>3, <2>4 DEF IInv
  <1> QED
    BY <1>1, <1>2, <1>3, <1>4, <1>5, <1>6, <1>7, <1>8 DEF Next

LEMMA Inductive == Spec => []IInv
  BY InitIInv, NextIInv, PTL DEF Spec

-----------------------------------------------------------------------------
(* The theorems                                                            *)

\* Every variable holds a value of its type, and the active claims are at any
\* time exactly the proofs of the payments that were not released.
THEOREM TypeCorrect == Spec => []TypeOK
  <1>1. IInv => TypeOK
    <2> SUFFICES ASSUME IInv PROVE TypeOK
      OBVIOUS
    <2>1. EvidenceTypeOK
      <3>1. \A t \in Times : observations[t] # Nothing =>
                DOMAIN observations[t].active \subseteq Observed
        BY StoredObservation DEF IInv
      <3>2. \A c \in Calls : call[c].tx \in {"none", "open", "commit"}
        BY CallFacts DEF CallRecord
      <3> QED
        BY <3>1, <3>2 DEF IInv, Types, EvidenceTypeOK
    <2> QED
      BY <2>1 DEF IInv, Types, ReservationsFit, TypeOK
  <1> QED
    BY Inductive, <1>1, PTL

\* Evidence, once stored, is read back as it was observed.  A dispatch derives
\* from it the fee that its payment was validated with, at every time before
\* the final expiry of the keysets it was validated with, and nothing from then
\* on: neither what the mint publishes nor what others observe lengthens or
\* shortens that.  No call meets a record it must reject.
THEOREM EvidenceAlwaysStands == Spec => []EvidenceStands
  <1>1. IInv => EvidenceStands
    <2> SUFFICES ASSUME IInv PROVE EvidenceStands
      OBVIOUS
    <2>1. SnapshotsAreCurrent
      BY CallFacts DEF SnapshotsAreCurrent, Fits, Current
    <2>2. ObservationsStand
      BY StoredObservation DEF ObservationsStand, IInv
    <2>3. ASSUME NEW p \in Payments, NEW now \in Times, reservations[p] # Nothing
          PROVE  FeeOf(p, now) = IF Honoured(p, now) THEN terms[p].fee ELSE Nothing
      <3>1. PICK r : r = reservations[p]
        OBVIOUS
      <3>2. r \in Row /\ ValidAt(p, r.evidence, r.reservedAt, terms[p])
        BY <2>3, <3>1 DEF IInv, Types, ReservationsFit
      <3>3. PICK t \in Times : t = r.evidence
        BY <3>2 DEF Row
      <3>4. PICK v : v = observations[t].fingerprint
        OBVIOUS
      <3>5. /\ observations[t] # Nothing /\ Unexpired(ProofsOf[p], v, r.reservedAt)
            /\ terms[p] = Terms(ProofsOf[p], v)
        BY <3>2, <3>3, <3>4 DEF ValidAt, ValidFor
      <3>6. ExactObservation(p) = t /\ t # Nothing
        <4>1. t \in Int
          BY KeysetAssumption
        <4>2. LatestWithin(t, t) = t
          BY <3>5, <4>1, LatestFound
        <4> QED
          BY <3>1, <3>3, <4>2, RowsAssumption DEF ExactObservation
      <3>7. Readable(observations[t]) /\ Rebuilt(observations[t]) = v
        BY <3>4, <3>5, StoredObservation DEF IInv
      <3>8. terms[p].fee = InputFee(ProofsOf[p], v) /\ terms[p].expiries = Expiries(ProofsOf[p], v)
        BY <3>5 DEF Terms
      <3>9. Unexpired(ProofsOf[p], v, now) <=> \A e \in terms[p].expiries : now < e
        BY <3>5, <3>8 DEF Unexpired
      <3> QED
        BY <3>6, <3>7, <3>8, <3>9 DEF FeeOf, Honoured
    <2>4. NoneInvalid
      BY CallFacts DEF NoneInvalid, CallRecord
    <2> QED
      BY <2>1, <2>2, <2>3, <2>4 DEF EvidenceStands, TermsStand
  <1> QED
    BY Inductive, <1>1, PTL

\* A call that waits is at a statement that takes a row, for a call that holds it.
LEMMA Waiting ==
  ASSUME IInv, NEW c \in Calls, NEW d \in WaitsFor(c)
  PROVE  /\ d \in Calls \ {c} /\ call[d].tx # "none"
         /\ \/ /\ Persisting(call[c]) /\ call[c].done < Cardinality(DOMAIN call[c].meta)
               /\ call[d].payment = Nothing
               /\ Nth(DOMAIN call[c].meta, call[c].done) \in call[d].held
            \/ Persisting(call[c]) /\ call[d].tx = "commit"
            \/ call[c].pc = "invoice" /\ call[d].payment # Nothing /\ "invoice" \in call[d].got
            \/ /\ Reserving(call[c]) /\ call[c].pc = "proofs"
               /\ call[c].done < Cardinality(ProofsOf[call[c].payment])
               /\ call[d].payment # Nothing /\ NextProof(call[c]) \in call[d].held
  <1>1. PICK l : l = call[c]
    OBVIOUS
  <1>2. PICK e : e = call[d]
    OBVIOUS
  <1>3. d \in Calls \ {c}
    BY DEF WaitsFor, WaitsForObserver
  <1>4. l \in CallRecord /\ e \in CallRecord /\ Fits(l) /\ Fits(e)
    BY <1>1, <1>2, <1>3, CallFacts
  <1>5. \/ /\ l.pc = "persist" /\ l.done < Cardinality(DOMAIN l.meta)
           /\ HoldsKeyset(d, Nth(DOMAIN l.meta, l.done))
        \/ l.pc = "persist" /\ HoldsTime(d, l.time)
        \/ l.pc = "invoice" /\ HoldsInvoice(d, InvoiceOf[l.payment])
        \/ l.pc = "insert" /\ HoldsPayment(d, l.payment)
        \/ /\ l.pc = "proofs" /\ l.done < Cardinality(ProofsOf[l.payment])
           /\ HoldsClaim(d, NextProof(l))
    BY <1>1, <1>3 DEF WaitsFor, WaitsForObserver
  <1>6. CASE l.pc = "persist"
    <2>1. Persisting(l)
      BY <1>4, <1>6
         DEF Fits, Placed, Resting, Asking, Persisting, Preparing, Reserving, Committing, Leaving
    <2> QED
      BY <1>1, <1>2, <1>3, <1>5, <1>6, <2>1 DEF HoldsKeyset, HoldsTime, InTx
  <1>7. CASE l.pc = "invoice"
    BY <1>1, <1>2, <1>3, <1>5, <1>7 DEF HoldsInvoice, Reserves, InTx
  <1>8. CASE l.pc = "insert"
    <2>1. Reserving(l)
      BY <1>4, <1>8
         DEF Fits, Placed, Resting, Asking, Persisting, Preparing, Reserving, Committing, Leaving
    <2>2. l.payment # Nothing /\ l.tx = "open" /\ l.got = {"invoice"}
      BY <1>8, <2>1, PaymentFacts DEF Reserving
    <2>3. e.payment = l.payment /\ "payment" \in e.got /\ e.tx # "none"
      BY <1>2, <1>5, <1>8 DEF HoldsPayment, Reserves, InTx
    <2>4. "invoice" \in e.got
      BY <1>4, <2>2, <2>3
         DEF Fits, Placed, Resting, Asking, Persisting, Preparing, Reserving, Committing, Leaving
    <2>5. <<"invoice", InvoiceOf[l.payment]>> \in Locks(l)
          /\ <<"invoice", InvoiceOf[l.payment]>> \in Locks(e)
      BY <2>2, <2>3, <2>4, LocksOf
    <2> QED
      BY <1>1, <1>2, <1>3, <2>5, CallFacts
  <1>9. CASE l.pc = "proofs"
    <2>1. Reserving(l)
      BY <1>4, <1>9
         DEF Fits, Placed, Resting, Asking, Persisting, Preparing, Reserving, Committing, Leaving
    <2> QED
      BY <1>1, <1>2, <1>3, <1>5, <1>9, <2>1 DEF HoldsClaim, Reserves, InTx
  <1> QED
    BY <1>5, <1>6, <1>7, <1>8, <1>9

\* The row an observer or a payment waits for: rows are taken in their order.
Wanted(c) ==
    IF call[c].pc = "persist" THEN Nth(DOMAIN call[c].meta, call[c].done) ELSE NextProof(call[c])

\* Who waits has not asked for its commit.
LEMMA WaitsUncommitted ==
  ASSUME IInv, NEW c \in Calls, WaitsFor(c) # {}
  PROVE  call[c].tx # "commit"
  <1>1. PICK d : d \in WaitsFor(c)
    OBVIOUS
  <1>2. Persisting(call[c]) \/ call[c].pc = "invoice" \/ Reserving(call[c])
    BY <1>1, Waiting
  <1>3. Fits(call[c])
    BY CallFacts
  <1> QED
    BY <1>2, <1>3
       DEF Fits, Placed, Resting, Asking, Persisting, Preparing, Reserving, Committing, Leaving

\* Who waits for a row of a call that waits itself, wants a lower row than it,
\* unless that is the last a call waits for.
LEMMA WantsLess ==
  ASSUME IInv, NEW c \in Calls, NEW d \in WaitsFor(c), NEW e \in WaitsFor(d), WaitsFor(e) # {}
  PROVE  /\ call[c].pc \in {"persist", "proofs", "invoice"}
         /\ call[c].pc = "persist" =>
               call[d].pc = "persist" /\ Wanted(c) \in Nat /\ Wanted(d) \in Nat /\ Wanted(c) < Wanted(d)
         /\ call[c].pc = "proofs" =>
               call[d].pc = "proofs" /\ Wanted(c) \in Nat /\ Wanted(d) \in Nat /\ Wanted(c) < Wanted(d)
         /\ call[c].pc = "invoice" => call[d].pc = "proofs"
  <1>1. PICK l : l = call[c]
    OBVIOUS
  <1>2. PICK m : m = call[d]
    OBVIOUS
  <1>3. d \in Calls /\ m.tx # "none" /\ l \in CallRecord /\ m \in CallRecord
    BY <1>1, <1>2, CallFacts, Waiting
  <1>4. \/ /\ Persisting(l) /\ l.done < Cardinality(DOMAIN l.meta)
           /\ m.payment = Nothing /\ Nth(DOMAIN l.meta, l.done) \in m.held
        \/ Persisting(l) /\ m.tx = "commit"
        \/ l.pc = "invoice" /\ m.payment # Nothing /\ "invoice" \in m.got
        \/ /\ Reserving(l) /\ l.pc = "proofs" /\ l.done < Cardinality(ProofsOf[l.payment])
           /\ m.payment # Nothing /\ NextProof(l) \in m.held
    BY <1>1, <1>2, Waiting
  <1>5. Fits(m)
    BY <1>2, <1>3, CallFacts
  <1>6. \/ Persisting(m) /\ m.done < Cardinality(DOMAIN m.meta)
        \/ m.pc = "invoice"
        \/ Reserving(m) /\ m.pc = "proofs" /\ m.done < Cardinality(ProofsOf[m.payment])
    <2>1. e \in Calls
      BY <1>3, Waiting
    <2>2. call[e].tx # "commit"
      BY <2>1, WaitsUncommitted
    <2> QED
      BY <1>2, <1>3, <2>2, Waiting
  <1>7. m.pc # "invoice" /\ m.tx = "open"
    BY <1>3, <1>5, <1>6
       DEF Fits, Placed, Resting, Asking, Persisting, Preparing, Reserving, Committing, Leaving
  <1>8. CASE l.pc = "persist"
    <2>1. Persisting(l) /\ l.done < Cardinality(DOMAIN l.meta)
          /\ m.payment = Nothing /\ Nth(DOMAIN l.meta, l.done) \in m.held
      BY <1>4, <1>7, <1>8
    <2>2. Persisting(m)
      BY <1>6, <1>7, <2>1, PaymentFacts DEF Reserving
    <2>3. PICK S : S = DOMAIN l.meta
      OBVIOUS
    <2>4. PICK T : T = DOMAIN m.meta
      OBVIOUS
    <2>5. /\ S \subseteq Nat /\ IsFiniteSet(S) /\ l.done \in Nat /\ l.done < Cardinality(S)
          /\ T \subseteq Nat /\ IsFiniteSet(T) /\ m.done \in Nat /\ m.done <= Cardinality(T)
          /\ Cardinality(T) \in Nat
      BY <1>3, <2>1, <2>2, <2>3, <2>4, VersionFacts, FS_CardinalityType DEF Persisting, CallRecord
    <2>6. Nth(S, l.done) \in Nat /\ Nth(S, l.done) \in Lowest(T, m.done)
      BY <2>1, <2>2, <2>3, <2>4, <2>5, NextOfSet DEF Persisting
    <2>7. m.done < Cardinality(T)
      BY <1>6, <1>7, <2>1, <2>4, PaymentFacts DEF Reserving
    <2>8. Nth(T, m.done) \in Nat /\ Nth(S, l.done) < Nth(T, m.done)
      BY <2>5, <2>6, <2>7, NextOfSet
    <2>9. m.pc = "persist"
      BY <2>2 DEF Persisting
    <2> QED
      BY <1>1, <1>2, <1>8, <2>3, <2>4, <2>6, <2>8, <2>9 DEF Wanted
  <1>9. CASE l.pc = "invoice"
    <2>1. m.payment # Nothing
      BY <1>4, <1>9 DEF Persisting, Reserving
    <2> QED
      BY <1>1, <1>2, <1>6, <1>7, <1>9, <2>1 DEF Persisting
  <1>10. CASE l.pc = "proofs"
    <2>1. Reserving(l) /\ l.done < Cardinality(ProofsOf[l.payment])
          /\ m.payment # Nothing /\ NextProof(l) \in m.held
      BY <1>4, <1>10 DEF Persisting
    <2>2. Reserving(m) /\ m.pc = "proofs" /\ m.done < Cardinality(ProofsOf[m.payment])
      BY <1>6, <1>7, <2>1 DEF Persisting
    <2>3. PICK S : S = ProofsOf[l.payment]
      OBVIOUS
    <2>4. PICK T : T = ProofsOf[m.payment]
      OBVIOUS
    <2>5. /\ S \subseteq Nat /\ IsFiniteSet(S) /\ l.done \in Nat /\ l.done < Cardinality(S)
          /\ T \subseteq Nat /\ IsFiniteSet(T) /\ m.done \in Nat /\ m.done < Cardinality(T)
      BY <1>3, <2>1, <2>2, <2>3, <2>4, PaymentFacts DEF Reserving, CallRecord
    <2>6. Nth(S, l.done) \in Nat /\ Nth(S, l.done) \in Lowest(T, m.done)
      BY <2>1, <2>2, <2>3, <2>4, <2>5, NextOfSet DEF Reserving, NextProof
    <2>7. Nth(T, m.done) \in Nat /\ Nth(S, l.done) < Nth(T, m.done)
      BY <2>5, <2>6, NextOfSet
    <2> QED
      BY <1>1, <1>2, <1>10, <2>2, <2>3, <2>4, <2>6, <2>7 DEF Wanted, NextProof
  <1> QED
    BY <1>1, <1>4, <1>8, <1>9, <1>10 DEF Persisting

\* However observers and payments interleave, no set of calls waits for one
\* another in a circle: some call of every set waits for none of them.
THEOREM NeverACycle == Spec => []NoWaitCycle
  <1>1. IInv => NoWaitCycle
    <2> SUFFICES ASSUME IInv, NEW S \in SUBSET Calls, S # {},
                        \A c \in S : WaitsFor(c) \cap S # {}
                 PROVE  FALSE
      BY DEF NoWaitCycle
    <2>1. ASSUME NEW c \in S
          PROVE  \E d \in S : d \in WaitsFor(c) /\ \E e \in S : e \in WaitsFor(d) /\ WaitsFor(e) # {}
      <3>1. PICK d : d \in WaitsFor(c) \cap S
        OBVIOUS
      <3>2. PICK e : e \in WaitsFor(d) \cap S
        BY <3>1
      <3>3. WaitsFor(e) # {}
        BY <3>2
      <3> QED
        BY <3>1, <3>2, <3>3
    <2>2. ASSUME NEW A, A \subseteq S, A # {},
                 \A c \in A : \E d \in A : Wanted(c) \in Nat /\ Wanted(d) \in Nat
                                           /\ Wanted(c) < Wanted(d)
          PROVE  FALSE
      <3> DEFINE W == {Wanted(c) : c \in A}
      <3>1. W \subseteq Nat /\ W # {}
        BY <2>2
      <3>2. IsFiniteSet(W)
        <4>1. IsFiniteSet(A)
          BY <2>2, KeysetAssumption, FS_Subset
        <4>2. [c \in A |-> Wanted(c)] \in Surjection(A, W)
          BY DEF Surjection
        <4> QED
          BY <4>1, <4>2, FS_Surjection
      <3>3. \A n \in W : \E c \in A : n = Wanted(c)
        OBVIOUS
      <3>4. \A c \in A : Wanted(c) \in W
        OBVIOUS
      <3> HIDE DEF W
      <3>5. PICK n \in W : \A k \in W : k <= n
        BY <3>1, <3>2, Largest
      <3>6. PICK c \in A : n = Wanted(c)
        BY <3>3
      <3>7. PICK d \in A : Wanted(d) \in Nat /\ Wanted(c) \in Nat /\ Wanted(c) < Wanted(d)
        BY <2>2
      <3>8. Wanted(d) <= Wanted(c)
        BY <3>4, <3>5, <3>6
      <3> QED
        BY <3>7, <3>8
    <2>3. PICK Observers : Observers = {c \in S : call[c].pc = "persist"}
      OBVIOUS
    <2>4. PICK Payers : Payers = {c \in S : call[c].pc = "proofs"}
      OBVIOUS
    <2>5. Observers = {}
      <3> SUFFICES ASSUME Observers # {} PROVE FALSE
        OBVIOUS
      <3>1. ASSUME NEW c \in Observers
            PROVE  \E d \in Observers : Wanted(c) \in Nat /\ Wanted(d) \in Nat /\ Wanted(c) < Wanted(d)
        <4>1. c \in S /\ c \in Calls /\ call[c].pc = "persist"
          BY <2>3
        <4>2. PICK d \in S : d \in WaitsFor(c) /\ \E e \in S : e \in WaitsFor(d) /\ WaitsFor(e) # {}
          BY <2>1, <4>1
        <4>3. call[d].pc = "persist" /\ Wanted(c) \in Nat /\ Wanted(d) \in Nat
              /\ Wanted(c) < Wanted(d)
          BY <4>1, <4>2, WantsLess
        <4> QED
          BY <2>3, <4>3
      <3> QED
        BY <2>2, <2>3, <3>1
    <2>6. Payers = {}
      <3> SUFFICES ASSUME Payers # {} PROVE FALSE
        OBVIOUS
      <3>1. ASSUME NEW c \in Payers
            PROVE  \E d \in Payers : Wanted(c) \in Nat /\ Wanted(d) \in Nat /\ Wanted(c) < Wanted(d)
        <4>1. c \in S /\ c \in Calls /\ call[c].pc = "proofs"
          BY <2>4
        <4>2. PICK d \in S : d \in WaitsFor(c) /\ \E e \in S : e \in WaitsFor(d) /\ WaitsFor(e) # {}
          BY <2>1, <4>1
        <4>3. call[d].pc = "proofs" /\ Wanted(c) \in Nat /\ Wanted(d) \in Nat
              /\ Wanted(c) < Wanted(d)
          BY <4>1, <4>2, WantsLess
        <4> QED
          BY <2>4, <4>3
      <3> QED
        BY <2>2, <2>4, <3>1
    <2>7. PICK c \in S : TRUE
      OBVIOUS
    <2>8. PICK d \in S : d \in WaitsFor(c) /\ \E e \in S : e \in WaitsFor(d) /\ WaitsFor(e) # {}
      BY <2>1
    <2>9. call[c].pc \in {"persist", "proofs"} \/ call[d].pc = "proofs"
      BY <2>8, WantsLess
    <2> QED
      BY <2>3, <2>4, <2>5, <2>6, <2>9
  <1> QED
    BY Inductive, <1>1, PTL

-----------------------------------------------------------------------------
(* A reservation made of statements is one step                            *)

LEMMA StaysTheSame ==
  ASSUME UNCHANGED <<reservations, journal>>
  PROVE  UNCHANGED Escrow!vars
  BY DEF Escrow!vars, StateOf

\* What payments promise is kept by the statements that interleave with
\* others': only the commit of a reservation, with the claims it then has, is
\* a step of a payment.
THEOREM EscrowImplemented == Spec => ImplementsEscrow
  <1>1. Init => Escrow!Init
    BY DEF Init, Escrow!Init, StateOf
  <1>2. IInv /\ [Next]_vars => [Escrow!Next]_(Escrow!vars)
    <2> SUFFICES ASSUME IInv, [Next]_vars PROVE Escrow!Next \/ UNCHANGED Escrow!vars
      OBVIOUS
    <2> DEFINE phase == [p \in Payments |-> StateOf(p)]
    <2>1. ASSUME NEW c \in Calls, CommitReservation(c) PROVE Escrow!Next
      <3>1. PICK p \in Payments : p = call[c].payment
        BY <2>1, CommitReservationKeeps
      <3>2. PICK row : row = [evidence |-> call[c].time, reservedAt |-> call[c].at, state |-> "held"]
        OBVIOUS
      <3>3. /\ reservations[p] = Nothing /\ journal[InvoiceOf[p]] = NoPayment
            /\ \A y \in ProofsOf[p] : claims[y] = NoPayment
            /\ reservations' = [reservations EXCEPT ![p] = row] /\ journal' = journal
        BY <2>1, <3>1, <3>2, CommitReservationKeeps DEF CommitReservation
      <3>4. row.state = "held" /\ row # Nothing
        <4>1. row \in Row
          <5>1. reservations'[p] = row
            BY <3>3 DEF IInv, Types
          <5>2. reservations' \in [Payments -> Row \cup {Nothing}]
            BY <2>1, CommitReservationKeeps DEF IInv, Types
          <5>3. call[c].time \in Times /\ call[c].at \in Times
            BY <2>1, <3>1, CallFacts, PaymentFacts
               DEF CommitReservation, Fits, Placed, Resting, Asking, Persisting, Preparing,
                   Reserving, Committing, Leaving
          <5> QED
            BY <3>2, <5>3 DEF Row, States
        <4> QED
          BY <3>2, <4>1, ReservationRowsAssumption
      <3>5. \A q \in Payments : StateOf(q)' = IF q = p THEN "held" ELSE StateOf(q)
        BY <3>3, <3>4 DEF IInv, Types, StateOf
      <3>6. StateOf(p) = "idle"
        BY <3>3 DEF StateOf
      <3>7. phase' = [phase EXCEPT ![p] = "held"]
        BY <3>5
      <3>8. ASSUME NEW q \in Payments, StateOf(q) \in {"held", "committed", "spent"}
            PROVE  ProofsOf[q] \cap ProofsOf[p] = {}
        <4>1. {y \in Proofs : claims[y] = q} = ProofsOf[q]
          BY <3>8 DEF IInv, ReservationsFit
        <4>2. q # NoPayment
          BY ReservationAssumption
        <4> QED
          BY <3>3, <4>1, <4>2
      <3> QED
        BY <3>3, <3>6, <3>7, <3>8 DEF Escrow!Next, Escrow!Hold, Escrow!Live
    <2>2. ASSUME NEW p \in Payments, NEW preparedAt, NEW startedAt,
                 Dispatch(p, preparedAt, startedAt)
          PROVE  Escrow!Next
      <3>1. SetState(p, "committed") /\ StateOf(p) = "held" /\ "committed" \in States
        BY <2>2 DEF Dispatch, States
      <3>2. \A q \in Payments : StateOf(q)' = IF q = p THEN "committed" ELSE StateOf(q)
        BY <3>1, SetStateFacts
      <3>3. phase' = [phase EXCEPT ![p] = "committed"]
        BY <3>2
      <3> QED
        BY <2>2, <3>3 DEF Dispatch, Escrow!Next, Escrow!Commit, Escrow!Committed
    <2>3. ASSUME NEW p \in Payments, Accept(p) PROVE Escrow!Next
      <3>1. SetState(p, "spent") /\ StateOf(p) = "committed" /\ "spent" \in States
        BY <2>3 DEF Accept, States
      <3>2. \A q \in Payments : StateOf(q)' = IF q = p THEN "spent" ELSE StateOf(q)
        BY <3>1, SetStateFacts
      <3>3. phase' = [phase EXCEPT ![p] = "spent"]
        BY <3>2
      <3> QED
        BY <2>3, <3>3 DEF Accept, Escrow!Next, Escrow!Spend
    <2>4. ASSUME NEW p \in Payments, Release(p) PROVE Escrow!Next
      <3>1. SetState(p, "returned") /\ StateOf(p) \in {"held", "committed"} /\ "returned" \in States
        BY <2>4 DEF Release, States
      <3>2. \A q \in Payments : StateOf(q)' = IF q = p THEN "returned" ELSE StateOf(q)
        BY <3>1, SetStateFacts
      <3>3. phase' = [phase EXCEPT ![p] = "returned"]
        BY <3>2
      <3> QED
        BY <2>4, <3>1, <3>3 DEF Release, Escrow!Next, Escrow!Return
    <2>5. ASSUME NEW c \in Calls,
                 \/ \E t \in Times : Observe(c, t) /\ UNCHANGED record
                 \/ \E p \in Payments, t \in Times : Intake(c, p, t)
                 \/ (ObserverStep(c) \/ GiveUp(c) \/ Abort(c)) /\ UNCHANGED record
                 \/ PaymentStep(c) /\ ~CommitReservation(c)
          PROVE  UNCHANGED Escrow!vars
      <3>1. UNCHANGED <<reservations, journal>>
        BY <2>5 DEF record, Intake, PaymentStep, Validate, FindReservation, LockInvoice,
                    AssertKeysetEvidence, InsertReservation, InsertProof, AskCommit
      <3> QED
        BY <3>1, StaysTheSame
    <2>6. ASSUME NEW v \in Versions, UNCHANGED record PROVE UNCHANGED Escrow!vars
      BY <2>6, StaysTheSame DEF record
    <2>7. CASE UNCHANGED vars
      BY <2>7, StaysTheSame DEF vars, record
    <2> QED
      BY <2>1, <2>2, <2>3, <2>4, <2>5, <2>6, <2>7 DEF Next, PaymentStep
  <1> QED
    BY Inductive, <1>1, <1>2, PTL DEF Spec, ImplementsEscrow, Escrow!Spec

=============================================================================
