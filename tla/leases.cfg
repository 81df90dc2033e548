SPECIFICATION FairSpec
CONSTANTS
    Payments = {p1}
    Workers = {w1, w2}
    NoPayment = NoPayment
    InitialDelay = 1
    LeaseSeconds = 2
    MaxAttempts = 3
    RetryBase = 1
    RetryMax = 2
    MaxLeases = 5
INVARIANTS
    TypeOK
    LeaseExclusive
    OwnerFinishes
    BoundedContact
PROPERTIES
    StoppedStays
    NoJobForgotten
