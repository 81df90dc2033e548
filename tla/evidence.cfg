SPECIFICATION Spec
CONSTANTS
    p1 = p1
    p2 = p2
    i1 = i1
    i2 = i2
    Nothing = Nothing
    NoPayment = NoPayment
    Calls = {c1, c2}
    Keysets = {1, 2}
    Versions <- Published
    Times = {0, 1}
    Payments = {p1, p2}
    Invoices = {i1, i2}
    InvoiceOf <- Invoiced
    WindowOf <- Windows
    AmountOf <- Amounts
    Proofs = {1, 2}
    Submitted <- Orders
    KeysetOf <- OfKeyset
    MaxAge = 1
SYMMETRY Slots
CHECK_DEADLOCK FALSE
INVARIANTS
    TypeOK
    EvidenceStands
    NoWaitCycle
PROPERTIES
    ImplementsEscrow
