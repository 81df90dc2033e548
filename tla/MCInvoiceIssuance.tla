------------------------- MODULE MCInvoiceIssuance -------------------------
(***************************************************************************)
(* An instance of InvoiceIssuance: requests of two merchants, made to      *)
(* processes of deployments that differ in routes or in destination.       *)
(***************************************************************************)
EXTENDS InvoiceIssuance, TLC

CONSTANTS k1, k2, m1, m2, o1, o2

KeysOfMerchants == k1 :> m1 @@ k2 :> m2

\* Mint 2 is configured in a spelling of its own.
Spellings == {"mint1", "mint2", "MINT2"}
Canonical == [u \in Spellings |-> IF u = "MINT2" THEN "mint2" ELSE u]

\* The mode asked of a convertible operator is not the one it gets.
Both ==
    <<[operator |-> o1, url |-> "MINT2", tier |-> "convertible", mode |-> "trusted_hold"],
      [operator |-> o2, url |-> "mint1", tier |-> "trusted", mode |-> "immediate_conversion"]>>
One ==
    <<[operator |-> o1, url |-> "mint1", tier |-> "trusted", mode |-> "default"]>>

ConfigOf ==
    [old     |-> [routes |-> Both, destination |-> "G1", transport |-> "t1"],
     rotated |-> [routes |-> One,  destination |-> "G1", transport |-> "t2"],
     moved   |-> [routes |-> One,  destination |-> "G2", transport |-> "t2"]]

\* Bounded inputs of the ledger's functions.
SmallInvoices == [merchant : {m1, m2}, amount : 1..3, createdAt : {0}, expiresAt : {1}]
SmallAccounts == {OperatorEcash(o1), OperatorEcash(o2), SettlementAsset(Usdc),
                  MerchantPayable(m1), MerchantPayable(m2), FeeRevenue}
SmallPayments == [operator : {o1}, mode : Modes, account : SmallAccounts, fee : 0..3,
                  acceptedAt : {0}, effectiveAt : {0, 1}]
SmallPostings == [side : {"debit", "credit"}, account : SmallAccounts, amount : 1..3]
SmallRows     == [merchant : {m1, m2}, mode : Modes, account : {SettlementAsset(Usdc)},
                  acceptedAt : {0}, effectiveAt : {0}, gross : 1..3, fee : 0..3, net : 1..3]

\* The three properties of MerchantLedger, on them.
ASSUME LedgerAgrees ==
    /\ \A i \in SmallInvoices, p \in SmallPayments : EntriesBalance(i, p) /\ EntriesAreStored(i, p)
    /\ \A row \in {r \in SmallRows : RowAllowed(r)} :
          \A postings \in [1..2 -> SmallPostings] \cup [1..3 -> SmallPostings] :
             StoredEntriesAreCreated(row, postings)

Late    == [amount |-> 1, expiresAt |-> 2]
Early   == [amount |-> 1, expiresAt |-> 1]
TwoBodies == {Late, Early}

=============================================================================
