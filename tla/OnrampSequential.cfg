SPECIFICATION FairSpec
CONSTANTS
  Handlers = {h1}
  Reports = {}
  Jobs = {"expire", "get", "mark", "provision"}
  Pairs = {"absent", "open"}
  MaxFaults = 1
INVARIANT PairFundedOnce
PROPERTIES FundsAreHeld CreditIsPaidOut SentIsCompleted
CHECK_DEADLOCK FALSE
