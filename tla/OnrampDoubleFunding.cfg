SPECIFICATION Spec
CONSTANTS
  Handlers = {h1, h2}
  Reports = {}
  Jobs = {"get"}
  Pairs = {"open"}
  MaxFaults = 0
INVARIANTS PairFundedOnce
SYMMETRY MCSymmetry
CHECK_DEADLOCK FALSE
