SPECIFICATION SpecAll
CONSTANTS
    p1 = p1
    f1 = f1
    f2 = f2
    i1 = i1
    NoPayment = NoPayment
    Payments = {p1}
    Invoices = {i1}
    Proofs = {f1}
    InvoiceOf <- OneInvoice
    ProofsOf <- OneProof
    InvoiceExpiry <- InvoiceWindow
    QuoteExpiry <- QuoteWindow
    QuoteTTL = 900
    MaxTime = 3
    Times <- Clock
    EventIds <- Identifiers
    AttentionReasons = {"operator_state_unknown"}
    MaxEvents = 3
    Dispatchers = {d1}
    Recoverers = {r1}
CHECK_DEADLOCK FALSE
INVARIANT
    LaterQuotesKeepRecovery
