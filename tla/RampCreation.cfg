SPECIFICATION Spec
CONSTANTS
  Requests = {r1, r2, r3}
  Ids = {id1, id2}
  qon = qon
  qoff = qoff
  NoQuote = NoQuote
  Quotes <- MCQuotes
  QuoteKind <- MCQuoteKind
  MaxFaults = 1
INVARIANTS OfframpQuoteOnce AccountsHaveRamps
PROPERTY DuplicateIsJustified
SYMMETRY MCSymmetry
CHECK_DEADLOCK FALSE
