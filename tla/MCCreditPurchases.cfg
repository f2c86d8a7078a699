CONSTANTS
  w1 = w1
  w2 = w2
  Workers = {w1, w2}
  Full = 1
  MaxFaults = 1
SPECIFICATION OneDecidesSpec
INVARIANTS
  CreditSettles
  ReversalSettles
PROPERTIES
  BooksAsLedger
  EndsAsStripeHasIt
CHECK_DEADLOCK FALSE
