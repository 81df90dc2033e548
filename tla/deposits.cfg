SPECIFICATION Spec
CONSTANTS
    Calls = {c1, c2}
    Quotes = {q1, q2}
    NoQuote = NoQuote
    PageSize = 2
    MaxPayments = 3
SYMMETRY Interchangeable
INVARIANTS
    TypeOK
    OneDepositPerQuote
    NothingSkipped
    AnswersAreDurable
PROPERTIES
    OnlyForward
