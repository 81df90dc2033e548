SPECIFICATION BoundedSpec
CONSTANTS
    p1 = p1
    p2 = p2
    f1 = f1
    f2 = f2
    i1 = i1
    i2 = i2
    NoPayment = NoPayment
    Payments <- OnePayment
    Invoices = {i1}
    Proofs = {f1, f2}
    InvoiceOf <- OneInvoice
    ProofsOf <- BothProofs
    InvoiceExpiry <- InvoiceExpiry2
    QuoteExpiry <- QuoteExpiry1
    Times = {0, 1, 2}
    QuoteTTL = 2
    EventIds = {1, 2, 3}
    AttentionReasons = {"operator_state_unknown"}
    MaxEvents = 3
    MaxQuotes = 3
    MaxSnapshots = 2
    SetupTimes = {0}
CHECK_DEADLOCK FALSE
INVARIANTS
    ReleaseIsProven
    ConsumedIsProven
PROPERTIES
    TerminalIsFrozen
