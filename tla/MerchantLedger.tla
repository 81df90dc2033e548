--------------------------- MODULE MerchantLedger ---------------------------
(***************************************************************************)
(* How an accepted payment of an invoice is booked: the journal entry that *)
(* the domain code creates, the rows the acquirer stores for it, and what  *)
(* the database demands of such rows when their transaction commits.       *)
(*                                                                         *)
(* The rows of the postings are the postings, at positions from 0, which   *)
(* are the indices from 1 here; there are at most three.                   *)
(***************************************************************************)
EXTENDS PaymentRequests, FiniteSets

CONSTANTS
    MaxAmount,        \* the largest safe integer, of JavaScript and of the CHECKs
    Usdc              \* the one settlement asset

ASSUME LedgerAssumption == MaxAmount \in Nat \ {0}

-----------------------------------------------------------------------------
(* Accounts                                                                *)

OperatorEcash(operator)   == [kind |-> "operator_ecash", of |-> operator]
SettlementAsset(asset)    == [kind |-> "settlement_asset", of |-> asset]
MerchantPayable(merchant) == [kind |-> "merchant_payable", of |-> merchant]
FeeRevenue                == [kind |-> "fee_revenue", of |-> "nobody"]

AccountFits(account, operator, mode) ==
    \/ mode = "trusted_hold" /\ account = OperatorEcash(operator)
    \/ mode = "immediate_conversion" /\ account.kind = "settlement_asset"

-----------------------------------------------------------------------------
(* What the domain code creates                                            *)

AcceptedInTime(i, t) == t >= i.createdAt /\ t < i.expiresAt

MayAccept(i, p) ==
    /\ ValidInvoice(i)
    /\ AcceptedInTime(i, p.acceptedAt) /\ p.effectiveAt >= p.acceptedAt
    /\ AccountFits(p.account, p.operator, p.mode)
    /\ p.fee < i.amount

Posting(side, account, amount) == [side |-> side, account |-> account, amount |-> amount]

Postings(merchant, account, gross, fee) ==
    LET asset  == Posting("debit", account, gross)
        payee  == Posting("credit", MerchantPayable(merchant), gross - fee)
    IN  IF fee > 0 THEN <<asset, payee, Posting("credit", FeeRevenue, fee)>>
        ELSE <<asset, payee>>

PostingsOf(i, p) == Postings(i.merchant, p.account, i.amount, p.fee)

Amount(postings, n, side) ==
    IF n \in DOMAIN postings /\ postings[n].side = side THEN postings[n].amount ELSE 0

Total(postings, side) ==
    Amount(postings, 1, side) + Amount(postings, 2, side) + Amount(postings, 3, side)

Debits(postings) == {n \in DOMAIN postings : postings[n].side = "debit"}
AssetDebits(postings) ==
    {n \in Debits(postings) : postings[n].account.kind \in {"operator_ecash", "settlement_asset"}}
Credits(postings, account) ==
    {n \in DOMAIN postings : postings[n].side = "credit" /\ postings[n].account = account}

\* One debit of the asset, one credit of the merchant, perhaps one fee, and
\* nothing else.
IsPaymentEntry(postings, i, p) ==
    LET assets == AssetDebits(postings)
        payees == Credits(postings, MerchantPayable(i.merchant))
        fees   == Credits(postings, FeeRevenue)
    IN  /\ Cardinality(assets) = 1 /\ Cardinality(payees) = 1 /\ Cardinality(fees) <= 1
        /\ Len(postings) = Cardinality(assets) + Cardinality(payees) + Cardinality(fees)
        /\ \A n \in assets : AccountFits(postings[n].account, p.operator, p.mode)

IsJournalEntry(postings, i, p) ==
    /\ Len(postings) >= 2
    /\ \A n \in DOMAIN postings : postings[n].amount \in 1..MaxAmount
    /\ Total(postings, "debit") <= MaxAmount
    /\ Total(postings, "debit") = Total(postings, "credit")
    /\ IsPaymentEntry(postings, i, p)

-----------------------------------------------------------------------------
(* What the acquirer stores, and what the database demands                 *)

JournalRow(i, p) ==
    [merchant |-> i.merchant, mode |-> p.mode, account |-> p.account,
     acceptedAt |-> p.acceptedAt, effectiveAt |-> p.effectiveAt,
     gross |-> i.amount, fee |-> p.fee, net |-> i.amount - p.fee]

\* The acquirer accepts payments that are converted, into the one asset.
MayBook(i, p) ==
    MayAccept(i, p) /\ p.mode = "immediate_conversion" /\ p.account = SettlementAsset(Usdc)

RowAllowed(row) ==
    /\ row.mode = "immediate_conversion" /\ row.account = SettlementAsset(Usdc)
    /\ row.acceptedAt >= 0 /\ row.acceptedAt <= row.effectiveAt
    /\ row.gross \in 1..MaxAmount
    /\ row.fee \in 0..(row.gross - 1)
    /\ row.net = row.gross - row.fee

PostingAllowed(posting) ==
    /\ posting.side \in {"debit", "credit"}
    /\ posting.account.kind \in {"operator_ecash", "settlement_asset", "merchant_payable"}
       \/ posting.account = FeeRevenue
    /\ posting.amount \in 1..MaxAmount

StandsAt(postings, n, posting) == n \in DOMAIN postings /\ postings[n] = posting

\* The deferred trigger, which counts the rows and adds them up.
PostingsComplete(row, postings) ==
    /\ Len(postings) = IF row.fee = 0 THEN 2 ELSE 3
    /\ Cardinality(Debits(postings)) = 1
    /\ Total(postings, "debit") = row.gross /\ Total(postings, "credit") = row.gross
    /\ StandsAt(postings, 1, Posting("debit", row.account, row.gross))
    /\ StandsAt(postings, 2, Posting("credit", MerchantPayable(row.merchant), row.net))
    /\ StandsAt(postings, 3, Posting("credit", FeeRevenue, row.fee)) <=> row.fee # 0

Stored(row, postings) ==
    /\ RowAllowed(row)
    /\ \A n \in DOMAIN postings : PostingAllowed(postings[n])
    /\ PostingsComplete(row, postings)

-----------------------------------------------------------------------------
(* Properties                                                              *)

\* createInvoicePaymentJournalV1 never fails on a payment that
\* acceptInvoicePaymentV1 lets through: the entry it makes is one.
EntriesBalance(i, p) == MayAccept(i, p) => IsJournalEntry(PostingsOf(i, p), i, p)

\* The checks and the deferred trigger of the database never reject what the
\* acquirer books, whose payment would be stuck at its last step.
EntriesAreStored(i, p) == MayBook(i, p) => Stored(JournalRow(i, p), PostingsOf(i, p))

\* What the database lets commit is the entry the domain code creates, and no
\* other set of postings.
StoredEntriesAreCreated(row, postings) ==
    Stored(row, postings) => postings = Postings(row.merchant, row.account, row.gross, row.fee)

=============================================================================
