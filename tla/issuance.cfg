SPECIFICATION FairSpec
CONSTANTS
    k1 = k1
    k2 = k2
    m1 = m1
    m2 = m2
    o1 = o1
    o2 = o2
    Nothing = Nothing
    MaxAmount = 3
    Usdc = usdc
    Operators = {o1, o2}
    Urls <- Spellings
    CanonicalUrl <- Canonical
    Calls = {c1, c2}
    Keys = {k1, k2}
    MerchantOf <- KeysOfMerchants
    Ids = {i1, i2}
    Bodies <- TwoBodies
    Deployments = {"old", "rotated"}
    Config <- ConfigOf
    Times = {0, 1}
    IdAttempts = 2
CHECK_DEADLOCK FALSE
INVARIANTS
    TypeOK
    NoInvalidRecord
PROPERTIES
    ImplementsIssueOnce
    EveryCallEnds
