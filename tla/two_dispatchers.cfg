SPECIFICATION SpecAll
CONSTANTS
    p1 = p1
    f1 = f1
    f2 = f2
    i1 = i1
    NoPayment = NoPayment
    Payments = {p1}
    Invoices = {i1}
    Proofs = {f1, f2}
    InvoiceOf <- OneInvoice
    ProofsOf <- BothProofs
    InvoiceExpiry <- InvoiceWindow
    QuoteExpiry <- QuoteWindow
    QuoteTTL = 900
    MaxTime = 3
    Times <- Clock
    EventIds <- Identifiers
    AttentionReasons = {"operator_state_unknown"}
    MaxEvents = 3
    Dispatchers = {d1, d2}
    Recoverers = {r1}
SYMMETRY Interchangeable
CHECK_DEADLOCK FALSE
INVARIANTS
    OneAuthorizedPost
    CreditIsReal
