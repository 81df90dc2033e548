SPECIFICATION FairSpec
CONSTANTS
    Calls = {c1, c2}
    Quotes = {q1}
    NoQuote = NoQuote
    PageSize = 1
    MaxPayments = 2
PROPERTIES
    DepositIsCredited
