------------------------ MODULE MerchantLedgerProofs ------------------------
(***************************************************************************)
(* What MerchantLedger promises of every amount, account and fee.          *)
(***************************************************************************)
EXTENDS MerchantLedger, FiniteSetTheorems, TLAPS

\* The invoices, payments and rows the theorems are about: amounts are safe
\* integers, times and fees are natural numbers.
Invoice == [merchant : STRING, amount : 0..MaxAmount, createdAt : Nat, expiresAt : Nat]
Account == [kind : STRING, of : STRING]
Payment == [operator : STRING, mode : Modes, account : Account, fee : Nat,
            acceptedAt : Nat, effectiveAt : Nat]
Row     == [merchant : STRING, mode : Modes, account : Account, acceptedAt : Nat,
            effectiveAt : Nat, gross : Nat, fee : Nat, net : Nat]
Entry   == [side : {"debit", "credit"}, account : Account, amount : Nat]

-----------------------------------------------------------------------------

\* The accounts of an entry are of different kinds, so no posting counts twice.
LEMMA AccountsDiffer ==
    ASSUME NEW o, NEW a, NEW m
    PROVE  /\ OperatorEcash(o) # MerchantPayable(m) /\ OperatorEcash(o) # FeeRevenue
           /\ SettlementAsset(a) # MerchantPayable(m) /\ SettlementAsset(a) # FeeRevenue
           /\ MerchantPayable(m) # FeeRevenue
BY DEF OperatorEcash, SettlementAsset, MerchantPayable, FeeRevenue

\* An account that fits a payment is the operator's ecash or an asset.
LEMMA FittingKind ==
    ASSUME NEW o, NEW mode, NEW account, AccountFits(account, o, mode)
    PROVE  account.kind \in {"operator_ecash", "settlement_asset"}
BY DEF AccountFits, OperatorEcash

\* Which postings of a created entry are the asset's, the merchant's and the fee.
HasParts(postings, m, fee) ==
    /\ AssetDebits(postings) = {1} /\ Debits(postings) = {1}
    /\ Credits(postings, MerchantPayable(m)) = {2}
    /\ Credits(postings, FeeRevenue) = IF fee = 0 THEN {} ELSE {3}
    /\ Len(postings) = IF fee = 0 THEN 2 ELSE 3
    /\ DOMAIN postings = 1..Len(postings)

\* Every created entry has these parts.
LEMMA PartsOfEntry ==
    ASSUME NEW m, NEW account, account.kind \in {"operator_ecash", "settlement_asset"},
           NEW gross, NEW fee, gross \in Nat, fee \in Nat
    PROVE  HasParts(Postings(m, account, gross, fee), m, fee)
<1> DEFINE postings == Postings(m, account, gross, fee)
<1>1. MerchantPayable(m) # FeeRevenue
  BY AccountsDiffer
<1>2. CASE fee = 0
  <2>1. postings = <<Posting("debit", account, gross),
                     Posting("credit", MerchantPayable(m), gross - fee)>>
    BY <1>2 DEF Postings
  <2> HIDE DEF postings
  <2>2. Len(postings) = 2 /\ DOMAIN postings = {1, 2}
    BY <2>1
  <2>3. /\ postings[1] = Posting("debit", account, gross)
        /\ postings[2] = Posting("credit", MerchantPayable(m), gross - fee)
    BY <2>1
  <2>4. QED
    BY <1>1, <1>2, <2>2, <2>3 DEF Debits, AssetDebits, Credits, HasParts, Posting, postings
<1>3. CASE fee # 0
  <2>1. postings = <<Posting("debit", account, gross),
                     Posting("credit", MerchantPayable(m), gross - fee),
                     Posting("credit", FeeRevenue, fee)>>
    BY <1>3 DEF Postings
  <2> HIDE DEF postings
  <2>2. Len(postings) = 3 /\ DOMAIN postings = {1, 2, 3}
    BY <2>1
  <2>3. /\ postings[1] = Posting("debit", account, gross)
        /\ postings[2] = Posting("credit", MerchantPayable(m), gross - fee)
        /\ postings[3] = Posting("credit", FeeRevenue, fee)
    BY <2>1
  <2>4. QED
    BY <1>1, <1>3, <2>2, <2>3 DEF Debits, AssetDebits, Credits, HasParts, Posting, postings
<1>4. QED
  BY <1>2, <1>3

\* The sides of a created entry both add up to the gross amount.
LEMMA SidesOfEntry ==
    ASSUME NEW m, NEW account, NEW gross \in Nat, NEW fee \in Nat
    PROVE  /\ Total(Postings(m, account, gross, fee), "debit") = gross
           /\ Total(Postings(m, account, gross, fee), "credit") = gross
<1> DEFINE postings == Postings(m, account, gross, fee)
<1>1. CASE fee = 0
  <2>1. postings = <<Posting("debit", account, gross),
                     Posting("credit", MerchantPayable(m), gross - fee)>>
    BY <1>1 DEF Postings
  <2> HIDE DEF postings
  <2>2. DOMAIN postings = {1, 2}
    BY <2>1
  <2>3. /\ postings[1].side = "debit" /\ postings[1].amount = gross
        /\ postings[2].side = "credit" /\ postings[2].amount = gross - fee
    BY <2>1 DEF Posting
  <2>4. QED
    BY <1>1, <2>2, <2>3 DEF Total, Amount, postings
<1>2. CASE fee # 0
  <2>1. postings = <<Posting("debit", account, gross),
                     Posting("credit", MerchantPayable(m), gross - fee),
                     Posting("credit", FeeRevenue, fee)>>
    BY <1>2 DEF Postings
  <2> HIDE DEF postings
  <2>2. DOMAIN postings = {1, 2, 3}
    BY <2>1
  <2>3. /\ postings[1].side = "debit" /\ postings[1].amount = gross
        /\ postings[2].side = "credit" /\ postings[2].amount = gross - fee
        /\ postings[3].side = "credit" /\ postings[3].amount = fee
    BY <2>1 DEF Posting
  <2>4. QED
    BY <1>2, <2>2, <2>3 DEF Total, Amount, postings
<1>3. QED
  BY <1>1, <1>2

\* The postings of an entry one by one.
LEMMA EachPosting ==
    ASSUME NEW m, NEW account, NEW gross \in Nat, NEW fee \in Nat,
           NEW n \in DOMAIN Postings(m, account, gross, fee)
    PROVE  LET posting == Postings(m, account, gross, fee)[n]
           IN  \/ n = 1 /\ posting = Posting("debit", account, gross)
               \/ n = 2 /\ posting = Posting("credit", MerchantPayable(m), gross - fee)
               \/ n = 3 /\ fee # 0 /\ posting = Posting("credit", FeeRevenue, fee)
BY DEF Postings

-----------------------------------------------------------------------------

\* acceptInvoicePaymentV1 and createInvoicePaymentJournalV1: an acceptable
\* payment of any amount always has a balanced, well-formed journal entry.
THEOREM AcceptedPaymentsBalance ==
    \A i \in Invoice, p \in Payment : EntriesBalance(i, p)
<1> SUFFICES ASSUME NEW i \in Invoice, NEW p \in Payment, MayAccept(i, p)
             PROVE  IsJournalEntry(PostingsOf(i, p), i, p)
  BY DEF EntriesBalance
<1> DEFINE postings == Postings(i.merchant, p.account, i.amount, p.fee)
<1>1. /\ i.amount \in 1..MaxAmount /\ p.fee \in Nat /\ p.fee < i.amount
      /\ AccountFits(p.account, p.operator, p.mode)
  BY LedgerAssumption DEF MayAccept, ValidInvoice, Invoice, Payment
<1>2. p.account.kind \in {"operator_ecash", "settlement_asset"}
  BY <1>1, FittingKind
<1>3. i.amount \in Nat
  BY <1>1, LedgerAssumption
<1>4. HasParts(postings, i.merchant, p.fee)
  BY <1>1, <1>2, <1>3, PartsOfEntry
<1>5. Total(postings, "debit") = i.amount /\ Total(postings, "credit") = i.amount
  BY <1>1, <1>3, SidesOfEntry
<1>6. \A n \in DOMAIN postings : postings[n].amount \in 1..MaxAmount
  <2> SUFFICES ASSUME NEW n \in DOMAIN postings
               PROVE  postings[n].amount \in 1..MaxAmount
    OBVIOUS
  <2>1. \/ postings[n].amount = i.amount
        \/ postings[n].amount = i.amount - p.fee
        \/ p.fee # 0 /\ postings[n].amount = p.fee
    BY <1>1, <1>3, EachPosting DEF Posting
  <2>2. QED
    BY <1>1, <2>1, LedgerAssumption
<1>7. postings[1].account = p.account
  BY DEF Postings, Posting
<1>8. IsPaymentEntry(postings, i, p)
  <2> HIDE DEF postings
  <2>1. /\ Cardinality({1}) = 1 /\ Cardinality({2}) = 1 /\ Cardinality({3}) = 1
        /\ Cardinality({}) = 0
    BY FS_Singleton, FS_EmptySet
  <2>2. QED
    BY <1>1, <1>4, <1>7, <2>1 DEF HasParts, IsPaymentEntry
<1>9. QED
  <2> HIDE DEF postings
  <2>1. PostingsOf(i, p) = postings
    BY DEF PostingsOf, postings
  <2>2. QED
    BY <1>1, <1>4, <1>5, <1>6, <1>8, <2>1, LedgerAssumption DEF HasParts, IsJournalEntry

\* persistAcceptedPayment: what the acquirer books passes every CHECK and the
\* deferred trigger cashmesh_validate_merchant_payment_journal.
THEOREM BookedPaymentsAreStored ==
    \A i \in Invoice, p \in Payment : EntriesAreStored(i, p)
<1> SUFFICES ASSUME NEW i \in Invoice, NEW p \in Payment, MayBook(i, p)
             PROVE  Stored(JournalRow(i, p), PostingsOf(i, p))
  BY DEF EntriesAreStored
<1> DEFINE postings == Postings(i.merchant, p.account, i.amount, p.fee)
           row == JournalRow(i, p)
<1>1. /\ i.amount \in 1..MaxAmount /\ p.fee \in Nat /\ p.fee < i.amount
      /\ p.mode = "immediate_conversion" /\ p.account = SettlementAsset(Usdc)
      /\ p.acceptedAt \in Nat /\ p.effectiveAt \in Nat /\ p.effectiveAt >= p.acceptedAt
  BY LedgerAssumption DEF MayBook, MayAccept, ValidInvoice, Invoice, Payment
<1>2. p.account.kind \in {"operator_ecash", "settlement_asset"}
  BY <1>1 DEF SettlementAsset
<1>3. i.amount \in Nat
  BY <1>1, LedgerAssumption
<1>4. /\ row.mode = p.mode /\ row.account = p.account /\ row.merchant = i.merchant
      /\ row.acceptedAt = p.acceptedAt /\ row.effectiveAt = p.effectiveAt
      /\ row.gross = i.amount /\ row.fee = p.fee /\ row.net = i.amount - p.fee
  BY DEF JournalRow
<1>5. RowAllowed(row)
  <2> HIDE DEF row
  <2>1. QED
    BY <1>1, <1>4, LedgerAssumption DEF RowAllowed
<1>6. \A n \in DOMAIN postings : PostingAllowed(postings[n])
  <2> SUFFICES ASSUME NEW n \in DOMAIN postings
               PROVE  PostingAllowed(postings[n])
    OBVIOUS
  <2>1. \/ postings[n] = Posting("debit", p.account, i.amount)
        \/ postings[n] = Posting("credit", MerchantPayable(i.merchant), i.amount - p.fee)
        \/ p.fee # 0 /\ postings[n] = Posting("credit", FeeRevenue, p.fee)
    BY <1>1, <1>3, EachPosting
  <2>2. i.amount - p.fee \in 1..MaxAmount /\ (p.fee # 0 => p.fee \in 1..MaxAmount)
    BY <1>1, LedgerAssumption
  <2> HIDE DEF postings
  <2>3. QED
    BY <1>1, <1>2, <2>1, <2>2 DEF PostingAllowed, Posting, MerchantPayable
<1>7. PostingsComplete(row, postings)
  <2>1. HasParts(postings, i.merchant, p.fee)
    BY <1>1, <1>2, <1>3, PartsOfEntry
  <2>2. Total(postings, "debit") = i.amount /\ Total(postings, "credit") = i.amount
    BY <1>1, <1>3, SidesOfEntry
  <2>3. /\ postings[1] = Posting("debit", p.account, i.amount)
        /\ postings[2] = Posting("credit", MerchantPayable(i.merchant), i.amount - p.fee)
        /\ p.fee # 0 => postings[3] = Posting("credit", FeeRevenue, p.fee)
    BY <1>1 DEF Postings
  <2>4. Cardinality({1}) = 1
    BY FS_Singleton
  <2> HIDE DEF row, postings
  <2>5. Cardinality(Debits(postings)) = 1
    BY <2>1, <2>4 DEF HasParts
  <2>6. /\ 1 \in DOMAIN postings /\ 2 \in DOMAIN postings
        /\ 3 \in DOMAIN postings <=> p.fee # 0
    BY <1>1, <2>1 DEF HasParts
  <2>7. StandsAt(postings, 3, Posting("credit", FeeRevenue, row.fee)) <=> row.fee # 0
    BY <1>4, <2>3, <2>6 DEF StandsAt
  <2>8. QED
    BY <1>4, <2>1, <2>2, <2>3, <2>5, <2>6, <2>7 DEF HasParts, PostingsComplete, StandsAt
<1>8. QED
  BY <1>5, <1>6, <1>7 DEF Stored, PostingsOf

\* cashmesh_validate_merchant_payment_journal: no rows but those the domain
\* code creates pass the CHECKs and the deferred trigger.
THEOREM StoredPaymentsAreCreated ==
    \A row \in Row, postings \in Seq(Entry) : StoredEntriesAreCreated(row, postings)
<1> SUFFICES ASSUME NEW row \in Row, NEW postings \in Seq(Entry), Stored(row, postings)
             PROVE  postings = Postings(row.merchant, row.account, row.gross, row.fee)
  BY DEF StoredEntriesAreCreated
<1>1. /\ row.net = row.gross - row.fee /\ row.fee \in Nat
      /\ PostingsComplete(row, postings)
  BY DEF Stored, RowAllowed, Row
<1>2. /\ postings[1] = Posting("debit", row.account, row.gross)
      /\ postings[2] = Posting("credit", MerchantPayable(row.merchant), row.gross - row.fee)
      /\ row.fee # 0 => postings[3] = Posting("credit", FeeRevenue, row.fee)
      /\ Len(postings) = IF row.fee = 0 THEN 2 ELSE 3
  BY <1>1 DEF PostingsComplete, StandsAt
<1>3. DOMAIN postings = 1..Len(postings) /\ postings = [n \in 1..Len(postings) |-> postings[n]]
  OBVIOUS
<1>4. CASE row.fee = 0
  <2>1. postings = <<postings[1], postings[2]>>
    BY <1>2, <1>3, <1>4
  <2>2. QED
    BY <1>1, <1>2, <1>4, <2>1 DEF Postings
<1>5. CASE row.fee # 0
  <2>1. postings = <<postings[1], postings[2], postings[3]>>
    BY <1>2, <1>3, <1>5
  <2>2. QED
    BY <1>1, <1>2, <1>5, <2>1 DEF Postings
<1>6. QED
  BY <1>4, <1>5

=============================================================================
