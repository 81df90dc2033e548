SPECIFICATION BoundedSpec
CONSTANTS
    p1 = p1
    p2 = p2
    f1 = f1
    f2 = f2
    i1 = i1
    i2 = i2
    NoPayment = NoPayment
    Payments <- TwoPayments
    Invoices = {i1, i2}
    Proofs = {f1}
    InvoiceOf <- OwnInvoice
    ProofsOf <- SharedProof
    InvoiceExpiry <- InvoiceExpiry2
    QuoteExpiry <- QuoteExpiry1
    Times = {0, 1}
    QuoteTTL = 2
    EventIds = {1, 2, 3, 4}
    AttentionReasons = {"operator_state_unknown"}
    MaxEvents = 3
    MaxQuotes = 2
    MaxSnapshots = 1
    SetupTimes = {0}
CHECK_DEADLOCK FALSE
INVARIANTS
    TypeOK
    NoSharedProof
    CustodyUntilTerminal
PROPERTIES
    ImplementsEscrow
