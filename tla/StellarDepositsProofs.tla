----------------------- MODULE StellarDepositsProofs -----------------------
(***************************************************************************)
(* The safety of the deposit scan, for any number of concurrent calls, any *)
(* quotes, page size and number of payments: the invariants of the run     *)
(* deposits, the strengthening they rest on, and OnlyForward.              *)
(***************************************************************************)
EXTENDS StellarDeposits, TLAPS

\* Operations of one transaction share its memo, and payers know only memos
\* they were given.
LedgerInOrder ==
    /\ Len(ledger) <= MaxPayments
    /\ \A n \in 1..Len(ledger) :
          /\ ledger[n].tx <= n
          /\ ledger[n].kind = "exact" => ledger[n].memo \in offered
          /\ \A m \in 1..Len(ledger) : ledger[m].tx = ledger[n].tx => ledger[m].memo = ledger[n].memo

\* The claims and the two replay indexes of one state say the same, and each
\* says it of the quote the payment names.
IndexedIn(L, s) ==
    /\ \A n \in Positions :
          s.operations[n] # NoQuote =>
              /\ n <= Len(L) /\ L[n].kind = "exact"
              /\ s.operations[n] = L[n].memo
              /\ s.claim[s.operations[n]] = n
              /\ s.transactions[L[n].tx] = s.operations[n]
    /\ \A q \in Quotes : s.claim[q] # Nowhere => s.operations[s.claim[q]] = q
    /\ \A t \in Positions :
          s.transactions[t] # NoQuote =>
              \E n \in Positions : s.operations[n] = s.transactions[t] /\ L[n].tx = t
Indexed(s) == IndexedIn(ledger, s)

\* Every exact payment up to n has its quote funded.
Covered(n, s) ==
    /\ n <= Len(ledger)
    /\ \A m \in 1..n : ledger[m].kind = "exact" => s.claim[ledger[m].memo] # Nowhere

Durable(s) == offered \subseteq s.quotes /\ \A q \in paid : s.claim[q] # Nowhere

Sound(s) == s \in Store /\ Indexed(s) /\ Covered(s.cursor, s) /\ Durable(s)

\* The journal takes nothing back that is in the memory.
Follows(s, m) ==
    /\ m.quotes \subseteq s.quotes /\ m.cursor <= s.cursor
    /\ \A q \in Quotes : m.claim[q] # Nowhere => s.claim[q] = m.claim[q]

\* What a scan has passed is funded in the memory it goes on to update, however
\* old its page is.
Fits(l, m) ==
    /\ l.pc # "idle" => l.q \in Quotes
    /\ l.pc \in {"fetching", "observing"} => Covered(l.at, m)
    /\ l.pc = "observing" => l.at <= l.to /\ l.to <= Len(ledger)

IInv ==
    /\ TypeOK /\ LedgerInOrder
    /\ Sound(mem) /\ Sound(disk) /\ Follows(disk, mem)
    /\ \A c \in Calls : Fits(call[c], mem)

CallState == [pc : {"idle", "reading", "fetching", "observing", "answering"},
              q : Quotes \cup {NoQuote},
              at : Positions \cup {Nowhere}, to : Positions \cup {Nowhere}]

-----------------------------------------------------------------------------
(* The operations of the state                                             *)

\* What an update may store.
Good(s) == Sound(s) /\ Follows(s, mem)

LEMMA PositionsAreNatural ==
    /\ Positions \subseteq Nat /\ Nowhere \notin Positions /\ Nowhere \in Nat
    /\ \A n \in Positions : n >= 1 /\ n <= MaxPayments
BY DepositsAssumption DEF Positions, Nowhere

\* A listed payment has its position, its transaction and, when it is exact, a
\* quote that is in every state.
LEMMA ListedPayment ==
    ASSUME IInv, NEW n \in 1..Len(ledger)
    PROVE  /\ n \in Positions /\ ledger[n] \in Payment /\ ledger[n].tx \in Positions
           /\ ledger[n].kind = "exact" =>
                 ledger[n].memo \in Quotes /\ ledger[n].memo \in mem.quotes /\ ledger[n].memo # NoQuote
<1>1. Len(ledger) \in Nat /\ Len(ledger) <= MaxPayments
  BY DEF IInv, TypeOK, LedgerInOrder
<1>2. n \in Positions
  BY <1>1, DepositsAssumption DEF Positions
<1>3. ledger[n] \in Payment
  BY DEF IInv, TypeOK
<1>4. QED
  BY <1>2, <1>3, DepositsAssumption DEF IInv, TypeOK, LedgerInOrder, Sound, Durable, Payment

\* What is covered stays so when the state moves on.
LEMMA CoveredStays ==
    ASSUME IInv, NEW m, NEW s, Follows(s, m), NEW n \in Nat, Covered(n, m)
    PROVE  Covered(n, s)
<1>1. Len(ledger) \in Nat
  BY DEF IInv, TypeOK
<1>2. \A k \in 1..n : k \in 1..Len(ledger)
  BY <1>1 DEF Covered
<1>3. QED
  BY <1>2, ListedPayment DEF Follows, Covered

\* A claim takes the payment, its transaction and the quote, all three free.
LEMMA ClaimIsSound ==
    ASSUME IInv, NEW n \in 1..Len(ledger), Claimable(mem, n)
    PROVE  /\ Good(EvaluatePayment(mem, n))
           /\ EvaluatePayment(mem, n).claim[ledger[n].memo] # Nowhere
           /\ EvaluatePayment(mem, n).cursor = mem.cursor
<1> DEFINE q == ledger[n].memo
           t == ledger[n].tx
           s == EvaluatePayment(mem, n)
<1>1. n \in Positions /\ t \in Positions /\ q \in Quotes /\ q # NoQuote /\ ledger[n].kind = "exact"
  BY ListedPayment DEF Claimable
<1>2. /\ mem.claim[q] = Nowhere /\ mem.operations[n] = NoQuote /\ mem.transactions[t] = NoQuote
      /\ Sound(mem) /\ mem \in Store
  BY DEF Claimable, IInv, Sound
<1>3. /\ s.quotes = mem.quotes /\ s.cursor = mem.cursor
      /\ s.claim = [mem.claim EXCEPT ![q] = n]
      /\ s.operations = [mem.operations EXCEPT ![n] = q]
      /\ s.transactions = [mem.transactions EXCEPT ![t] = q]
      /\ s \in Store
  BY <1>1, <1>2 DEF EvaluatePayment, Store
<1> HIDE DEF s
<1>4. \A x \in Quotes : s.claim[x] = IF x = q THEN n ELSE mem.claim[x]
  BY <1>2, <1>3 DEF Store
<1>5. \A m \in Positions : s.operations[m] = IF m = n THEN q ELSE mem.operations[m]
  BY <1>2, <1>3 DEF Store
<1>6. \A u \in Positions : s.transactions[u] = IF u = t THEN q ELSE mem.transactions[u]
  BY <1>2, <1>3 DEF Store
<1>7. Follows(s, mem)
  <2>1. mem.cursor \in Nat
    BY <1>2, PositionsAreNatural DEF Store
  <2>2. QED
    BY <1>2, <1>3, <1>4, <2>1 DEF Follows
<1>8. Indexed(s)
  <2>1. ASSUME NEW m \in Positions, s.operations[m] # NoQuote
        PROVE  /\ m <= Len(ledger) /\ ledger[m].kind = "exact"
               /\ s.operations[m] = ledger[m].memo
               /\ s.claim[s.operations[m]] = m
               /\ s.transactions[ledger[m].tx] = s.operations[m]
    <3>1. CASE m = n
      BY <1>1, <1>4, <1>5, <1>6, <3>1 DEF IInv, TypeOK
    <3>2. CASE m # n
      <4>1. s.operations[m] = mem.operations[m] /\ mem.operations[m] # NoQuote
        BY <1>5, <2>1, <3>2
      <4>2. /\ m <= Len(ledger) /\ ledger[m].kind = "exact"
            /\ mem.operations[m] = ledger[m].memo
            /\ mem.claim[mem.operations[m]] = m
            /\ mem.transactions[ledger[m].tx] = mem.operations[m]
        BY <1>2, <4>1 DEF Sound, Indexed, IndexedIn
      <4>3. mem.operations[m] \in Quotes /\ mem.operations[m] # q
        BY <1>2, <4>1, <4>2, PositionsAreNatural DEF Store
      <4>4. m \in 1..Len(ledger)
        BY <4>2, PositionsAreNatural DEF IInv, TypeOK
      <4>5. ledger[m].tx \in Positions /\ ledger[m].tx # t
        BY <1>2, <4>1, <4>2, <4>4, ListedPayment
      <4>6. QED
        BY <1>4, <1>6, <4>1, <4>2, <4>3, <4>5
    <3>3. QED
      BY <3>1, <3>2
  <2>2. ASSUME NEW x \in Quotes, s.claim[x] # Nowhere
        PROVE  s.operations[s.claim[x]] = x
    <3>1. CASE x = q
      BY <1>1, <1>4, <1>5, <3>1
    <3>2. CASE x # q
      <4>1. s.claim[x] = mem.claim[x] /\ mem.claim[x] \in Positions
        BY <1>2, <1>4, <2>2, <3>2 DEF Store
      <4>2. mem.operations[mem.claim[x]] = x
        BY <1>2, <2>2, <4>1 DEF Sound, Indexed, IndexedIn
      <4>3. mem.claim[x] # n
        BY <1>2, <4>2, DepositsAssumption
      <4>4. QED
        BY <1>5, <4>1, <4>2, <4>3
    <3>3. QED
      BY <3>1, <3>2
  <2>3. ASSUME NEW u \in Positions, s.transactions[u] # NoQuote
        PROVE  \E m \in Positions : s.operations[m] = s.transactions[u] /\ ledger[m].tx = u
    <3>1. CASE u = t
      BY <1>1, <1>5, <1>6, <3>1
    <3>2. CASE u # t
      <4>1. s.transactions[u] = mem.transactions[u]
        BY <1>6, <3>2
      <4>2. PICK m \in Positions : mem.operations[m] = mem.transactions[u] /\ ledger[m].tx = u
        BY <1>2, <2>3, <4>1 DEF Sound, Indexed, IndexedIn
      <4>3. m # n
        BY <1>2, <2>3, <4>1, <4>2
      <4>4. QED
        BY <1>5, <4>1, <4>2, <4>3
    <3>3. QED
      BY <3>1, <3>2
  <2>4. QED
    BY <2>1, <2>2, <2>3 DEF Indexed, IndexedIn
<1>9. Covered(s.cursor, s) /\ Durable(s)
  <2>1. mem.cursor \in Nat /\ Covered(mem.cursor, mem)
    BY <1>2, PositionsAreNatural DEF Sound, Store
  <2>2. Covered(s.cursor, s)
    BY <1>3, <1>7, <2>1, CoveredStays
  <2>3. Durable(s)
    BY <1>1, <1>2, <1>3, <1>4, PositionsAreNatural DEF Sound, Durable, IInv, TypeOK
  <2>4. QED
    BY <2>2, <2>3
<1>10. QED
  BY <1>1, <1>3, <1>4, <1>7, <1>8, <1>9, PositionsAreNatural DEF Good, Sound, s

\* A payment that cannot be claimed needs no claim: whatever is in its way has
\* funded its quote.
LEMMA UnclaimableIsFunded ==
    ASSUME IInv, NEW n \in 1..Len(ledger), ~Claimable(mem, n), ledger[n].kind = "exact"
    PROVE  mem.claim[ledger[n].memo] # Nowhere
<1> DEFINE q == ledger[n].memo
           t == ledger[n].tx
<1>1. n \in Positions /\ t \in Positions /\ q \in Quotes /\ q \in mem.quotes
  BY ListedPayment
<1>2. mem.claim[q] # Nowhere \/ mem.operations[n] # NoQuote \/ mem.transactions[t] # NoQuote
  BY <1>1 DEF Claimable
<1>3. Indexed(mem)
  BY DEF IInv, Sound
<1>4. CASE mem.operations[n] # NoQuote
  BY <1>1, <1>3, <1>4, PositionsAreNatural DEF Indexed, IndexedIn
<1>5. CASE mem.transactions[t] # NoQuote
  <2>1. PICK m \in Positions : mem.operations[m] = mem.transactions[t] /\ ledger[m].tx = t
    BY <1>1, <1>3, <1>5 DEF Indexed, IndexedIn
  <2>2. /\ m <= Len(ledger) /\ mem.operations[m] = ledger[m].memo
        /\ mem.claim[mem.operations[m]] = m
    BY <1>3, <1>5, <2>1 DEF Indexed, IndexedIn
  <2>3. m \in 1..Len(ledger)
    BY <2>2, PositionsAreNatural DEF IInv, TypeOK
  <2>4. ledger[m].memo = q
    BY <2>1, <2>3 DEF IInv, LedgerInOrder
  <2>5. QED
    BY <2>2, <2>4, PositionsAreNatural
<1>6. QED
  BY <1>2, <1>4, <1>5

\* An observation funds the payment or finds it funded, and covers one more.
LEMMA ObservationIsSound ==
    ASSUME IInv, NEW n \in Nat, Covered(n, mem), n + 1 <= Len(ledger)
    PROVE  Good(ObservePayment(mem, n + 1)) /\ Covered(n + 1, ObservePayment(mem, n + 1))
<1> DEFINE r == EvaluatePayment(mem, n + 1)
           s == ObservePayment(mem, n + 1)
<1>1. n + 1 \in 1..Len(ledger) /\ n + 1 \in Positions
  BY ListedPayment DEF IInv, TypeOK
<1>2. Good(mem) /\ mem.cursor \in Nat /\ Covered(mem.cursor, mem)
  <2>1. mem \in Store /\ Sound(mem)
    BY DEF IInv, Sound
  <2>2. mem.cursor \in Nat
    BY <2>1, PositionsAreNatural DEF Store
  <2>3. QED
    BY <2>1, <2>2 DEF Good, Follows, Sound
<1>3. /\ Good(r) /\ r.cursor = mem.cursor
      /\ ledger[n + 1].kind = "exact" => r.claim[ledger[n + 1].memo] # Nowhere
  <2>1. CASE Claimable(mem, n + 1)
    BY <1>1, <2>1, ClaimIsSound
  <2>2. CASE ~Claimable(mem, n + 1)
    BY <1>1, <1>2, <2>2, UnclaimableIsFunded DEF EvaluatePayment
  <2>3. QED
    BY <2>1, <2>2
<1> HIDE DEF r
<1>4. Covered(n + 1, r)
  <2>1. Covered(n, r)
    BY <1>3, CoveredStays DEF Good
  <2>2. \A m \in 1..(n + 1) : m \in 1..n \/ m = n + 1
    OBVIOUS
  <2>3. QED
    BY <1>3, <2>1, <2>2 DEF Covered
<1>5. CASE n + 1 <= mem.cursor
  <2>1. s = mem
    BY <1>5 DEF ObservePayment
  <2>2. Covered(n + 1, mem)
    BY <1>2, <1>5 DEF Covered, IInv, TypeOK
  <2>3. QED
    BY <1>2, <2>1, <2>2
<1>6. CASE ~(n + 1 <= mem.cursor)
  <2>1. s = [r EXCEPT !.cursor = n + 1]
    BY <1>6 DEF ObservePayment, r
  <2>2. /\ s \in Store /\ s.cursor = n + 1 /\ s.quotes = r.quotes /\ s.claim = r.claim
        /\ s.operations = r.operations /\ s.transactions = r.transactions
    BY <1>1, <1>3, <2>1 DEF Good, Sound, Store
  <2> HIDE DEF s
  <2>3. Follows(s, mem)
    BY <1>2, <1>3, <1>6, <2>2 DEF Good, Follows
  <2>4. Covered(n + 1, s) /\ Indexed(s) /\ Durable(s)
    BY <1>3, <1>4, <2>2 DEF Good, Sound, Covered, Indexed, IndexedIn, Durable
  <2>5. Sound(s)
    BY <2>2, <2>4 DEF Sound
  <2>6. QED
    BY <2>3, <2>4, <2>5 DEF Good, s
<1>7. QED
  BY <1>5, <1>6

\* The end of a page moves the cursor to what the scan has covered.
LEMMA AdvanceIsSound ==
    ASSUME IInv, NEW n \in Nat, Covered(n, mem)
    PROVE  Good(AdvanceCursor(mem, n))
<1> DEFINE s == AdvanceCursor(mem, n)
<1>1. mem \in Store /\ Sound(mem) /\ mem.cursor \in Nat
  BY PositionsAreNatural DEF IInv, Sound, Store
<1>2. CASE n > mem.cursor
  <2>1. n \in Positions
    BY <1>1, <1>2, DepositsAssumption DEF IInv, TypeOK, LedgerInOrder, Covered, Positions
  <2>2. /\ s \in Store /\ s.cursor = n /\ s.quotes = mem.quotes /\ s.claim = mem.claim
        /\ s.operations = mem.operations /\ s.transactions = mem.transactions
    BY <1>1, <1>2, <2>1 DEF AdvanceCursor, Store
  <2> HIDE DEF s
  <2>3. Follows(s, mem)
    BY <1>1, <1>2, <2>2 DEF Follows
  <2>4. Covered(n, s) /\ Indexed(s) /\ Durable(s)
    BY <1>1, <2>2 DEF Sound, Covered, Indexed, IndexedIn, Durable
  <2>5. QED
    BY <2>2, <2>3, <2>4 DEF Good, Sound, s
<1>3. CASE ~(n > mem.cursor)
  BY <1>1, <1>3 DEF AdvanceCursor, Good, Follows
<1>4. QED
  BY <1>2, <1>3

-----------------------------------------------------------------------------
(* The steps                                                               *)

\* What the step of a check has to show: the states it leaves and what the
\* calls hold of them.
LEMMA StatesMoveOn ==
    ASSUME IInv, UNCHANGED <<ledger, offered, paid>>,
           Sound(mem'), Sound(disk'), Follows(disk', mem'),
           call' \in [Calls -> CallState],
           \A c \in Calls : Fits(call'[c], mem') /\ call'[c].to <= Len(ledger)
    PROVE  IInv'
<1>1. TypeOK'
  BY DEF IInv, TypeOK, Sound, CallState
<1>2. LedgerInOrder'
  BY DEF IInv, LedgerInOrder
<1>3. Sound(mem)' /\ Sound(disk)'
  BY DEF Sound, Indexed, IndexedIn, Covered, Durable
<1>4. Follows(disk, mem)' /\ \A c \in Calls : Fits(call[c], mem)'
  BY DEF Follows, Fits, Covered
<1>5. QED
  BY <1>1, <1>2, <1>3, <1>4 DEF IInv

LEMMA FollowsItself ==
    ASSUME NEW s \in Store
    PROVE  Follows(s, s)
<1>1. s.cursor \in Nat
  BY PositionsAreNatural DEF Store
<1>2. QED
  BY <1>1 DEF Follows

\* What a call holds fits the state that an update of another call leaves.
LEMMA OthersFit ==
    ASSUME IInv, NEW s, Follows(s, mem)
    PROVE  \A c \in Calls : Fits(call[c], s) /\ call[c].to <= Len(ledger)
<1> SUFFICES ASSUME NEW c \in Calls
             PROVE  Fits(call[c], s) /\ call[c].to <= Len(ledger)
  OBVIOUS
<1>1. call[c].at \in Nat /\ call[c].to <= Len(ledger) /\ Fits(call[c], mem)
  BY PositionsAreNatural DEF IInv, TypeOK
<1>2. QED
  BY <1>1, CoveredStays DEF Fits

\* A journal update keeps the invariant whether it succeeds or fails before or
\* after the rename.
LEMMA UpdateKeeps ==
    ASSUME IInv, NEW c \in Calls, NEW s, NEW l \in CallState,
           Good(s), Fits(l, s), l.to <= Len(ledger),
           Update(c, s, l), UNCHANGED <<ledger, offered, paid>>
    PROVE  IInv'
<1>1. Idle \in CallState /\ call \in [Calls -> CallState]
  BY DEF Idle, CallState, IInv, TypeOK
<1>2. Follows(mem, mem) /\ Follows(s, s) /\ Follows(s, mem) /\ Sound(s)
  BY FollowsItself DEF Good, Sound, IInv
<1>3. CASE mem' = s /\ disk' = s /\ call' = [call EXCEPT ![c] = l]
  <2>1. call' \in [Calls -> CallState]
    BY <1>1, <1>3
  <2>2. \A d \in Calls : Fits(call'[d], s) /\ call'[d].to <= Len(ledger)
    BY <1>1, <1>2, <1>3, OthersFit
  <2>3. QED
    BY <1>2, <1>3, <2>1, <2>2, StatesMoveOn
<1>4. CASE mem' = mem /\ disk' \in {disk, s} /\ call' = [call EXCEPT ![c] = Idle]
  <2>1. call' \in [Calls -> CallState]
    BY <1>1, <1>4
  <2>2. Fits(Idle, mem) /\ Idle.to <= Len(ledger)
    BY DEF Idle, Fits, Nowhere, IInv, TypeOK
  <2>3. \A d \in Calls : Fits(call'[d], mem) /\ call'[d].to <= Len(ledger)
    BY <1>1, <1>2, <1>4, <2>2, OthersFit
  <2>4. Sound(mem) /\ Sound(disk) /\ Follows(disk, mem)
    BY DEF IInv
  <2>5. QED
    BY <1>2, <1>4, <2>1, <2>3, <2>4, StatesMoveOn
<1>5. QED
  BY <1>3, <1>4 DEF Update

\* A step of a call that writes nothing.
LEMMA CallMovesOn ==
    ASSUME IInv, NEW c \in Calls, NEW l \in CallState,
           Fits(l, mem), l.to <= Len(ledger),
           call' = [call EXCEPT ![c] = l], UNCHANGED <<ledger, mem, disk, offered, paid>>
    PROVE  IInv'
<1>1. call \in [Calls -> CallState] /\ Follows(mem, mem)
  BY FollowsItself DEF CallState, IInv, TypeOK, Sound
<1>2. call' \in [Calls -> CallState]
  BY <1>1
<1>3. \A d \in Calls : Fits(call'[d], mem) /\ call'[d].to <= Len(ledger)
  BY <1>1, OthersFit
<1>4. Sound(mem) /\ Sound(disk) /\ Follows(disk, mem)
  BY DEF IInv
<1>5. QED
  BY <1>2, <1>3, <1>4, StatesMoveOn

LEMMA CreateKeeps ==
    ASSUME IInv, NEW q \in Quotes, CreateQuote(q)
    PROVE  IInv'
<1> DEFINE s == [mem EXCEPT !.quotes = @ \cup {q}]
<1>1. mem \in Store /\ Sound(mem) /\ Sound(disk) /\ Follows(disk, mem)
  BY DEF IInv, Sound
<1>2. /\ s \in Store /\ s.quotes = mem.quotes \cup {q} /\ s.cursor = mem.cursor
      /\ s.claim = mem.claim /\ s.operations = mem.operations
      /\ s.transactions = mem.transactions
  BY <1>1 DEF Store
<1>3. \/ mem' = s /\ disk' = s /\ offered' = offered \cup {q}
      \/ mem' = mem /\ disk' \in {disk, s} /\ offered' = offered
  BY DEF CreateQuote
<1>4. UNCHANGED <<ledger, call, paid>>
  BY DEF CreateQuote
<1> HIDE DEF s
<1>5. Follows(s, mem) /\ Follows(s, s) /\ Sound(s)
  <2>1. Follows(s, mem)
    BY <1>1, <1>2, FollowsItself DEF Follows
  <2>2. Indexed(s) /\ Covered(s.cursor, s) /\ Durable(s)
    BY <1>1, <1>2 DEF Sound, Indexed, IndexedIn, Covered, Durable
  <2>3. QED
    BY <1>2, <2>1, <2>2, FollowsItself DEF Sound
<1>6. \A c \in Calls : Fits(call[c], s) /\ Fits(call[c], mem)
  BY <1>5, OthersFit DEF IInv
<1>7. /\ Sound(mem)' /\ Sound(disk)' /\ Follows(disk, mem)'
      /\ \A c \in Calls : Fits(call[c], mem)'
  <2>1. CASE mem' = s /\ disk' = s /\ offered' = offered \cup {q}
    <3>1. offered' \subseteq s.quotes
      BY <1>2, <1>5, <2>1 DEF Sound, Durable
    <3>2. Sound(mem)' /\ Sound(disk)'
      BY <1>4, <1>5, <2>1, <3>1 DEF Sound, Indexed, IndexedIn, Covered, Durable
    <3>3. Follows(disk, mem)' /\ \A c \in Calls : Fits(call[c], mem)'
      BY <1>4, <1>5, <1>6, <2>1 DEF Follows, Fits, Covered
    <3>4. QED
      BY <3>2, <3>3
  <2>2. CASE mem' = mem /\ disk' \in {disk, s} /\ offered' = offered
    BY <1>1, <1>4, <1>5, <1>6, <2>2 DEF Follows, Fits, Covered, Sound, Indexed, IndexedIn, Durable
  <2>3. QED
    BY <1>3, <2>1, <2>2
<1>8. TypeOK' /\ LedgerInOrder'
  BY <1>3, <1>4, <1>7 DEF IInv, TypeOK, LedgerInOrder, Sound
<1>9. QED
  BY <1>7, <1>8 DEF IInv

\* A new payment covers nothing and is named by nothing.
LEMMA PayKeeps ==
    ASSUME IInv, NEW memo \in Quotes \cup {NoQuote}, NEW kind \in Kinds, NEW tx \in Positions,
           Pay(memo, kind, tx)
    PROVE  IInv'
<1> DEFINE p == [memo |-> memo, tx |-> tx, kind |-> kind]
           k == Len(ledger) + 1
<1>1. /\ ledger' = Append(ledger, p) /\ UNCHANGED <<mem, disk, call, offered, paid>>
      /\ k <= MaxPayments
      /\ kind = "exact" => memo # NoQuote /\ memo \in offered
      /\ tx = k \/ (ledger # <<>> /\ tx = ledger[Len(ledger)].tx /\ memo = ledger[Len(ledger)].memo)
  BY DepositsAssumption DEF Pay, IInv, TypeOK
<1>2. ledger \in Seq(Payment) /\ p \in Payment /\ Len(ledger) \in Nat
  BY DEF IInv, TypeOK, Payment
<1>3. /\ ledger' \in Seq(Payment) /\ Len(ledger') = k /\ ledger'[k] = p
      /\ \A n \in 1..Len(ledger) : ledger'[n] = ledger[n]
  BY <1>1, <1>2
<1> HIDE DEF p
<1>4. LedgerInOrder'
  <2> DEFINE Mates(m, n) == ledger'[m].tx = ledger'[n].tx => ledger'[m].memo = ledger'[n].memo
  <2>1. \A n \in 1..Len(ledger) : ledger[n].tx <= n /\ ledger[n].tx \in Positions
    BY ListedPayment DEF IInv, LedgerInOrder
  <2>2. ledger'[k].tx = tx /\ ledger'[k].memo = memo /\ ledger'[k].kind = kind
    BY <1>3 DEF p
  <2>3. tx <= k
    BY <1>1, <1>2, <2>1, PositionsAreNatural
  <2>4. \A n \in 1..Len(ledger) : Mates(n, k) /\ Mates(k, n)
    <3>1. CASE tx = k
      BY <1>2, <1>3, <2>1, <2>2, <3>1, PositionsAreNatural
    <3>2. CASE ledger # <<>> /\ tx = ledger[Len(ledger)].tx /\ memo = ledger[Len(ledger)].memo
      BY <1>2, <1>3, <2>2, <3>2 DEF IInv, LedgerInOrder
    <3>3. QED
      BY <1>1, <3>1, <3>2
  <2>5. \A m, n \in 1..Len(ledger) : Mates(m, n)
    BY <1>3 DEF IInv, LedgerInOrder
  <2>6. \A n \in 1..k : n \in 1..Len(ledger) \/ n = k
    BY <1>2
  <2>7. \A m, n \in 1..k : Mates(m, n)
    BY <2>4, <2>5, <2>6
  <2>8. \A n \in 1..k : ledger'[n].tx <= n /\ (ledger'[n].kind = "exact" => ledger'[n].memo \in offered')
    BY <1>1, <1>3, <2>2, <2>3, <2>6 DEF IInv, LedgerInOrder
  <2>9. QED
    BY <1>1, <1>3, <2>7, <2>8 DEF LedgerInOrder
<1>5. \A s, n : n \in Nat /\ Covered(n, s) => Covered(n, s)'
  BY <1>2, <1>3 DEF Covered
<1>6. ASSUME NEW s, Sound(s)
      PROVE  s \in Store /\ IndexedIn(ledger', s) /\ (Covered(s.cursor, s))' /\ Durable(s)'
  <2>1. s \in Store /\ s.cursor \in Nat
    BY <1>6, PositionsAreNatural DEF Sound, Store
  <2>2. \A n \in Positions : n <= Len(ledger) => n \in 1..Len(ledger)
    BY <1>2, PositionsAreNatural
  <2>3. \A n \in Positions :
          s.operations[n] # NoQuote =>
              /\ n <= Len(ledger') /\ ledger'[n].kind = "exact"
              /\ s.operations[n] = ledger'[n].memo
              /\ s.claim[s.operations[n]] = n
              /\ s.transactions[ledger'[n].tx] = s.operations[n]
    <3> SUFFICES ASSUME NEW n \in Positions, s.operations[n] # NoQuote
                 PROVE  /\ n <= Len(ledger') /\ ledger'[n].kind = "exact"
                        /\ s.operations[n] = ledger'[n].memo
                        /\ s.claim[s.operations[n]] = n
                        /\ s.transactions[ledger'[n].tx] = s.operations[n]
      OBVIOUS
    <3>1. /\ n <= Len(ledger) /\ ledger[n].kind = "exact"
          /\ s.operations[n] = ledger[n].memo
          /\ s.claim[s.operations[n]] = n
          /\ s.transactions[ledger[n].tx] = s.operations[n]
      BY <1>6 DEF Sound, Indexed, IndexedIn
    <3>2. n \in 1..Len(ledger)
      BY <2>2, <3>1
    <3>3. ledger'[n] = ledger[n] /\ n <= Len(ledger')
      BY <1>2, <1>3, <3>2
    <3>4. QED
      BY <3>1, <3>3
  <2>4. ASSUME NEW t \in Positions, s.transactions[t] # NoQuote
        PROVE  \E n \in Positions : s.operations[n] = s.transactions[t] /\ ledger'[n].tx = t
    <3>1. PICK n \in Positions : s.operations[n] = s.transactions[t] /\ ledger[n].tx = t
      BY <1>6, <2>4 DEF Sound, Indexed, IndexedIn
    <3>2. n <= Len(ledger)
      BY <1>6, <2>4, <3>1 DEF Sound, Indexed, IndexedIn
    <3>3. QED
      BY <1>3, <2>2, <3>1, <3>2
  <2>5. IndexedIn(ledger', s)
    BY <1>6, <2>3, <2>4 DEF Sound, Indexed, IndexedIn
  <2>6. QED
    BY <1>1, <1>5, <1>6, <2>1, <2>5 DEF Sound, Durable
<1>7. Sound(mem)' /\ Sound(disk)'
  <2>1. Indexed(mem)' /\ Indexed(disk)'
    BY <1>1, <1>6 DEF IInv, Indexed
  <2>2. Covered(mem.cursor, mem)' /\ Covered(disk.cursor, disk)'
    BY <1>1, <1>6 DEF IInv, Covered
  <2>3. Durable(mem)' /\ Durable(disk)'
    BY <1>1, <1>6 DEF IInv, Durable
  <2>4. QED
    BY <1>1, <2>1, <2>2, <2>3 DEF IInv, Sound
<1>8. \A c \in Calls : Fits(call[c], mem)'
  <2> SUFFICES ASSUME NEW c \in Calls
               PROVE  Fits(call[c], mem)'
    OBVIOUS
  <2>1. call[c].at \in Nat /\ call[c].to \in Nat /\ Fits(call[c], mem)
    BY PositionsAreNatural DEF IInv, TypeOK
  <2>2. Covered(call[c].at, mem) => \A m \in 1..call[c].at : m \in 1..Len(ledger)
    BY <1>2, <2>1 DEF Covered
  <2>3. QED
    BY <1>1, <1>2, <1>3, <2>1, <2>2 DEF Fits, Covered
<1>9. TypeOK'
  <2>1. \A c \in Calls : call'[c].to <= Len(ledger')
    <3>1. \A c \in Calls : call[c].to \in Nat /\ call[c].to <= Len(ledger)
      BY PositionsAreNatural DEF IInv, TypeOK
    <3>2. QED
      BY <1>1, <1>2, <1>3, <3>1
  <2>2. QED
    BY <1>1, <1>3, <2>1 DEF IInv, TypeOK
<1>10. QED
  BY <1>1, <1>4, <1>7, <1>8, <1>9 DEF IInv, Follows

\* An answer as paid is given while the quote's claim is in memory, and so in
\* the journal.
LEMMA AnswerKeeps ==
    ASSUME IInv, NEW c \in Calls, Answer(c)
    PROVE  IInv'
<1> DEFINE q == call[c].q
<1>1. /\ UNCHANGED <<ledger, mem, disk, offered>> /\ call' = [call EXCEPT ![c] = Idle]
      /\ paid' = IF mem.claim[q] = Nowhere THEN paid ELSE paid \cup {q}
  BY DEF Answer
<1>2. q \in Quotes
  BY DEF Answer, IInv, Fits
<1>3. Durable(mem)' /\ Durable(disk)'
  <2>1. mem.claim[q] # Nowhere => disk.claim[q] # Nowhere
    BY <1>2 DEF IInv, Follows
  <2>2. QED
    BY <1>1, <2>1 DEF IInv, Sound, Durable
<1>4. Sound(mem)' /\ Sound(disk)'
  BY <1>1, <1>3 DEF IInv, Sound, Indexed, Covered
<1>5. \A d \in Calls : Fits(call[d], mem)'
  BY <1>1 DEF IInv, TypeOK, Fits, Covered, Idle
<1>6. TypeOK'
  BY <1>1, <1>2 DEF IInv, TypeOK, Idle, Nowhere
<1>7. QED
  BY <1>1, <1>4, <1>5, <1>6 DEF IInv, LedgerInOrder, Follows

\* The steps of one check.
LEMMA CallKeeps ==
    ASSUME IInv, NEW c \in Calls,
           \/ \E q \in Quotes : Check(c, q)
           \/ ReadCursor(c) \/ Fetch(c) \/ Observe(c) \/ FinishPage(c) \/ Answer(c) \/ Drop(c)
    PROVE  IInv'
<1>1. /\ call[c] \in CallState /\ Fits(call[c], mem) /\ call[c].to <= Len(ledger)
      /\ Len(ledger) \in Nat /\ Len(ledger) <= MaxPayments
      /\ mem \in Store /\ Sound(mem) /\ mem.cursor \in Nat
  <2>1. mem \in Store /\ Sound(mem)
    BY DEF IInv, Sound
  <2>2. mem.cursor \in Nat
    BY <2>1, PositionsAreNatural DEF Store
  <2>3. QED
    BY <2>1, <2>2 DEF IInv, TypeOK, LedgerInOrder, CallState
<1>2. call[c].at \in Nat /\ call[c].to \in Nat
  BY <1>1, PositionsAreNatural DEF CallState
<1>3. ASSUME NEW q \in Quotes, NEW pc \in {"reading", "answering"}
      PROVE  LET l == [Idle EXCEPT !.pc = pc, !.q = q] IN
             l \in CallState /\ Fits(l, mem) /\ l.to <= Len(ledger)
  <2> DEFINE l == [Idle EXCEPT !.pc = pc, !.q = q]
  <2>1. l \in CallState /\ l.pc = pc /\ l.q = q /\ l.to = 0
    BY DEF Idle, CallState, Nowhere
  <2>2. Fits(l, mem)
    BY <2>1 DEF Fits
  <2>3. QED
    BY <1>1, <2>1, <2>2
<1>4. ASSUME NEW q \in Quotes, Check(c, q)
      PROVE  IInv'
  <2> DEFINE l == [Idle EXCEPT !.pc = IF mem.claim[q] = Nowhere THEN "reading" ELSE "answering",
                               !.q = q]
  <2>1. l \in CallState /\ Fits(l, mem) /\ l.to <= Len(ledger)
    BY <1>3
  <2>2. call' = [call EXCEPT ![c] = l] /\ UNCHANGED <<ledger, mem, disk, offered, paid>>
    BY <1>4 DEF Check, Answering
  <2>3. QED
    BY <2>1, <2>2, CallMovesOn
<1>5. CASE ReadCursor(c)
  <2> DEFINE l == [call[c] EXCEPT !.pc = "fetching", !.at = mem.cursor]
  <2>1. l \in CallState /\ l.pc = "fetching" /\ l.at = mem.cursor
        /\ l.to = call[c].to /\ l.q = call[c].q
    BY <1>1 DEF CallState, Store
  <2>2. Fits(l, mem)
    BY <1>1, <1>5, <2>1 DEF ReadCursor, Fits, Sound
  <2>3. call' = [call EXCEPT ![c] = l] /\ UNCHANGED <<ledger, mem, disk, offered, paid>>
    BY <1>5 DEF ReadCursor, IInv, TypeOK
  <2>4. QED
    BY <1>1, <2>1, <2>2, <2>3, CallMovesOn
<1>6. CASE Fetch(c)
  <2> DEFINE n == PageEnd(call[c].at)
             l == [call[c] EXCEPT !.pc = "observing", !.to = n]
  <2>1. Covered(call[c].at, mem) /\ call[c].at <= Len(ledger) /\ call[c].q \in Quotes
    BY <1>1, <1>6 DEF Fetch, Fits, Covered
  <2>2. n \in Nat /\ call[c].at <= n /\ n <= Len(ledger) /\ n \in Positions \cup {Nowhere}
    BY <1>1, <1>2, <2>1, DepositsAssumption DEF PageEnd, Positions, Nowhere
  <2>3. UNCHANGED <<ledger, mem, disk, offered, paid>>
    BY <1>6 DEF Fetch
  <2>4. CASE n = call[c].at
    <3>1. call' = [call EXCEPT ![c] = Answering(call[c].q)]
      BY <1>6, <2>4 DEF Fetch
    <3>2. LET a == Answering(call[c].q) IN a \in CallState /\ Fits(a, mem) /\ a.to <= Len(ledger)
      BY <1>3, <2>1 DEF Answering
    <3>3. QED
      BY <2>3, <3>1, <3>2, CallMovesOn
  <2>5. CASE n # call[c].at
    <3>1. call' = [call EXCEPT ![c] = l]
      BY <1>6, <2>5 DEF Fetch
    <3>2. l \in CallState /\ l.pc = "observing" /\ l.at = call[c].at /\ l.to = n
          /\ l.q = call[c].q
      BY <1>1, <2>2 DEF CallState
    <3>3. Fits(l, mem)
      BY <2>1, <2>2, <3>2 DEF Fits
    <3>4. QED
      BY <2>2, <2>3, <3>1, <3>2, <3>3, CallMovesOn
  <2>6. QED
    BY <2>4, <2>5
<1>7. CASE Observe(c)
  <2> DEFINE n == call[c].at + 1
             l == [call[c] EXCEPT !.at = n]
             s == ObservePayment(mem, n)
  <2>1. /\ call[c].pc = "observing" /\ Covered(call[c].at, mem) /\ n <= call[c].to
        /\ n <= Len(ledger) /\ call[c].q \in Quotes
    BY <1>1, <1>2, <1>7 DEF Observe, Fits
  <2>2. n \in 1..Len(ledger) /\ n \in Positions
    BY <1>1, <1>2, <2>1, DepositsAssumption DEF Positions
  <2>3. l \in CallState /\ l.pc = "observing" /\ l.at = n /\ l.to = call[c].to /\ l.q = call[c].q
    BY <1>1, <2>1, <2>2 DEF CallState
  <2>4. UNCHANGED <<ledger, offered, paid>>
    BY <1>7 DEF Observe
  <2>5. CASE ledger[n].kind = "other"
    <3>1. \A m \in 1..n : m \in 1..call[c].at \/ m = n
      BY <1>2
    <3>2. Covered(n, mem)
      BY <2>1, <2>5, <3>1 DEF Covered
    <3>3. Fits(l, mem)
      BY <1>1, <2>1, <2>3, <3>2 DEF Fits
    <3>4. call' = [call EXCEPT ![c] = l] /\ UNCHANGED <<mem, disk>>
      BY <1>7, <2>5 DEF Observe, IInv, TypeOK
    <3>5. QED
      BY <1>1, <2>3, <2>4, <3>3, <3>4, CallMovesOn
  <2>6. CASE ledger[n].kind # "other"
    <3>1. Good(s) /\ Covered(n, s)
      BY <1>2, <2>1, ObservationIsSound
    <3>2. Update(c, s, l)
      BY <1>7, <2>6 DEF Observe
    <3> HIDE DEF s
    <3>3. Fits(l, s)
      BY <1>1, <2>1, <2>3, <3>1 DEF Fits
    <3>4. QED
      BY <1>1, <2>3, <2>4, <3>1, <3>2, <3>3, UpdateKeeps
  <2>7. QED
    BY <2>5, <2>6
<1>8. CASE FinishPage(c)
  <2> DEFINE s == AdvanceCursor(mem, call[c].to)
             l == Answering(call[c].q)
  <2>1. Covered(call[c].to, mem) /\ call[c].q \in Quotes
    BY <1>1, <1>8 DEF FinishPage, Fits
  <2>2. Good(s) /\ Update(c, s, l) /\ UNCHANGED <<ledger, offered, paid>>
    BY <1>2, <1>8, <2>1, AdvanceIsSound DEF FinishPage
  <2> HIDE DEF s
  <2>3. l \in CallState /\ l.to <= Len(ledger) /\ Fits(l, s)
    <3>1. l \in CallState /\ l.pc = "answering" /\ l.q = call[c].q /\ l.to = 0
      BY <2>1 DEF Answering, Idle, CallState, Nowhere
    <3>2. QED
      BY <1>1, <2>1, <3>1 DEF Fits
  <2> HIDE DEF l
  <2>4. QED
    BY <2>2, <2>3, UpdateKeeps
<1>9. CASE Drop(c)
  <2>1. Idle \in CallState /\ Fits(Idle, mem) /\ Idle.to <= Len(ledger)
    BY <1>1 DEF Idle, CallState, Fits, Nowhere
  <2>2. QED
    BY <1>9, <2>1, CallMovesOn DEF Drop
<1>10. CASE Answer(c)
  BY <1>10, AnswerKeeps
<1>11. QED
  BY <1>4, <1>5, <1>6, <1>7, <1>8, <1>9, <1>10

\* A restart loses nothing: the journal follows the memory.
LEMMA SurroundingsKeep ==
    ASSUME IInv, OtherWrite \/ Crash
    PROVE  IInv'
<1>1. UNCHANGED <<ledger, offered, paid>>
  BY DEF OtherWrite, Crash
<1>2. /\ Sound(mem) /\ Sound(disk) /\ Follows(disk, mem)
      /\ Follows(mem, mem) /\ Follows(disk, disk) /\ call \in [Calls -> CallState]
  BY FollowsItself DEF IInv, TypeOK, CallState, Sound
<1>3. CASE OtherWrite
  <2>1. \A c \in Calls : Fits(call[c], mem) /\ call[c].to <= Len(ledger)
    BY <1>2, OthersFit
  <2>2. QED
    BY <1>1, <1>2, <1>3, <2>1, StatesMoveOn DEF OtherWrite
<1>4. CASE Crash
  <2>1. Idle \in CallState /\ Fits(Idle, disk) /\ Idle.to <= Len(ledger)
    BY DEF Idle, CallState, Fits, Nowhere, IInv, TypeOK
  <2>2. mem' = disk /\ disk' = disk /\ call' = [c \in Calls |-> Idle]
    BY <1>4 DEF Crash
  <2>3. QED
    BY <1>1, <1>2, <2>1, <2>2, StatesMoveOn
<1>5. QED
  BY <1>3, <1>4

LEMMA StepKeeps == ASSUME IInv, [Next]_vars PROVE IInv'
<1>1. CASE UNCHANGED vars
  BY <1>1 DEF vars, IInv, TypeOK, LedgerInOrder, Sound, Indexed, Covered, Durable, Follows, Fits
<1>2. CASE \E q \in Quotes : CreateQuote(q)
  BY <1>2, CreateKeeps
<1>3. ASSUME NEW c \in Calls,
             \/ \E q \in Quotes : Check(c, q)
             \/ ReadCursor(c) \/ Fetch(c) \/ Observe(c) \/ FinishPage(c) \/ Answer(c) \/ Drop(c)
      PROVE  IInv'
  BY <1>3, CallKeeps
<1>4. CASE \E memo \in Quotes \cup {NoQuote}, kind \in Kinds, tx \in Positions : Pay(memo, kind, tx)
  BY <1>4, PayKeeps
<1>5. CASE OtherWrite \/ Crash
  BY <1>5, SurroundingsKeep
<1>6. QED
  BY <1>1, <1>2, <1>3, <1>4, <1>5 DEF Next

-----------------------------------------------------------------------------
(* The theorems                                                            *)

\* Everything below is a part of one inductive invariant: what a scan holds is
\* funded in memory, and the journal takes nothing back.
THEOREM Inductive == Spec => []IInv
<1>1. Init => IInv
  <2> SUFFICES ASSUME Init PROVE IInv
    OBVIOUS
  <2>1. ledger = <<>> /\ Len(ledger) = 0 /\ ledger \in Seq(Payment)
    BY DEF Init
  <2>2. mem = EmptyStore /\ disk = EmptyStore /\ EmptyStore \in Store
    BY DEF Init, EmptyStore, Store, Nowhere
  <2>3. call = [c \in Calls |-> Idle] /\ Idle \in CallState
    BY DEF Init, Idle, CallState, Nowhere
  <2>4. Sound(EmptyStore) /\ Follows(EmptyStore, EmptyStore)
    BY <2>1, <2>2, FollowsItself
       DEF Init, EmptyStore, Sound, Indexed, IndexedIn, Covered, Durable, Nowhere
  <2>5. \A c \in Calls : Fits(call[c], mem) /\ call[c].to = 0
    BY <2>3 DEF Fits, Idle, Nowhere
  <2>6. TypeOK
    BY <2>1, <2>2, <2>3, <2>5 DEF Init, TypeOK, CallState
  <2>7. LedgerInOrder
    BY <2>1, DepositsAssumption DEF LedgerInOrder
  <2>8. QED
    BY <2>2, <2>4, <2>5, <2>6, <2>7 DEF IInv
<1>2. IInv /\ [Next]_vars => IInv'
  BY StepKeeps
<1>3. QED
  BY <1>1, <1>2, PTL DEF Spec

\* TypeOK, the types and the bounds of the pages.
THEOREM TypeCorrect == Spec => []TypeOK
<1>1. IInv => TypeOK
  BY DEF IInv
<1>2. QED
  BY <1>1, Inductive, PTL

\* OneDepositPerQuote: a deposit funds one quote, a quote is funded by one
\* deposit, and the indexes that say so agree, in memory and in the journal.
THEOREM DepositsFundOnce == Spec => []OneDepositPerQuote
<1>1. IInv => OneDepositPerQuote
  BY DEF IInv, Sound, Indexed, IndexedIn, OneDepositPerQuote
<1>2. QED
  BY <1>1, Inductive, PTL

\* NothingSkipped: the cursor has passed no exact deposit that is not funded.
THEOREM CursorSkipsNothing == Spec => []NothingSkipped
<1>1. IInv => NothingSkipped
  <2> SUFFICES ASSUME IInv, NEW s \in {mem, disk}, NEW n \in Positions, n <= s.cursor
               PROVE  n <= Len(ledger) /\ (ledger[n].kind = "exact" => s.claim[ledger[n].memo] # Nowhere)
    BY DEF NothingSkipped
  <2>1. Covered(s.cursor, s) /\ s.cursor \in Nat
    BY PositionsAreNatural DEF IInv, Sound, Store
  <2>2. n \in 1..s.cursor /\ Len(ledger) \in Nat
    BY <2>1, PositionsAreNatural DEF IInv, TypeOK
  <2>3. QED
    BY <2>1, <2>2 DEF Covered
<1>2. QED
  BY <1>1, Inductive, PTL

\* AnswersAreDurable: no crash and no failed write takes back what was answered.
THEOREM AnswersSurvive == Spec => []AnswersAreDurable
<1>1. IInv => AnswersAreDurable
  BY DEF IInv, Sound, Durable, AnswersAreDurable
<1>2. QED
  BY <1>1, Inductive, PTL

\* What every step does to the memory.
LEMMA MemoryFollows == ASSUME IInv, [Next]_vars PROVE Follows(mem', mem)
<1>1. Follows(mem, mem) /\ Follows(disk, mem) /\ mem \in Store
  BY FollowsItself DEF IInv, Sound
<1>2. CASE mem' \in {mem, disk}
  BY <1>1, <1>2
<1>3. ASSUME NEW q \in Quotes, CreateQuote(q), mem' # mem
      PROVE  Follows(mem', mem)
  <2>1. mem' = [mem EXCEPT !.quotes = @ \cup {q}]
    BY <1>3 DEF CreateQuote
  <2>2. mem'.quotes = mem.quotes \cup {q} /\ mem'.claim = mem.claim /\ mem'.cursor = mem.cursor
    BY <1>1, <2>1 DEF Store
  <2>3. QED
    BY <1>1, <2>2 DEF Follows
<1>4. ASSUME NEW c \in Calls, Observe(c) \/ FinishPage(c), mem' # mem
      PROVE  Follows(mem', mem)
  <2>1. /\ call[c].at \in Nat /\ call[c].to \in Nat /\ Fits(call[c], mem) /\ Len(ledger) \in Nat
    <3>1. call[c] \in CallState
      BY DEF IInv, TypeOK, CallState
    <3>2. call[c].at \in Nat /\ call[c].to \in Nat
      BY <3>1, PositionsAreNatural DEF CallState
    <3>3. QED
      BY <3>2 DEF IInv, TypeOK
  <2>2. CASE Observe(c)
    <3>1. /\ Covered(call[c].at, mem) /\ call[c].at + 1 <= Len(ledger)
          /\ mem' = ObservePayment(mem, call[c].at + 1)
      BY <1>4, <2>1, <2>2 DEF Observe, Update, Fits
    <3>2. QED
      BY <2>1, <3>1, ObservationIsSound DEF Good
  <2>3. CASE FinishPage(c)
    <3>1. Covered(call[c].to, mem) /\ mem' = AdvanceCursor(mem, call[c].to)
      BY <1>4, <2>1, <2>3 DEF FinishPage, Update, Fits
    <3>2. QED
      BY <2>1, <3>1, AdvanceIsSound DEF Good
  <2>4. QED
    BY <1>4, <2>2, <2>3
<1>5. CASE \E memo \in Quotes \cup {NoQuote}, kind \in Kinds, tx \in Positions : Pay(memo, kind, tx)
  BY <1>2, <1>5 DEF Pay
<1>6. CASE OtherWrite \/ Crash \/ UNCHANGED vars
  BY <1>2, <1>6 DEF OtherWrite, Crash, vars
<1>7. CASE \E c \in Calls : \/ \E q \in Quotes : Check(c, q)
                            \/ ReadCursor(c) \/ Fetch(c) \/ Answer(c) \/ Drop(c)
  BY <1>2, <1>7 DEF Check, ReadCursor, Fetch, Answer, Drop
<1>8. QED
  BY <1>2, <1>3, <1>4, <1>5, <1>6, <1>7 DEF Next

\* OnlyForward: neither the cursor nor a claim goes back, over restarts too.
THEOREM NothingGoesBack == Spec => OnlyForward
<1>1. IInv /\ [Next]_vars =>
        [/\ mem.cursor <= mem'.cursor
         /\ \A q \in Quotes : mem.claim[q] # Nowhere => mem'.claim[q] = mem.claim[q]]_vars
  BY MemoryFollows DEF Follows
<1>2. QED
  BY <1>1, Inductive, PTL DEF Spec, OnlyForward

=============================================================================
