SPECIFICATION FairSpec
CONSTANTS
    Calls = {c1, c2}
    Envelopes = {e1, e2}
    NoEnvelope = NoEnvelope
INVARIANTS
    TypeOK
    SentIsDurable
    FailedIsSafe
    PaidIsReal
    AnswersStand
PROPERTIES
    PaidIsLearned
