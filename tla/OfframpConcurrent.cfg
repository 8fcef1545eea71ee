SPECIFICATION Spec
CONSTANTS
  Handlers = {h1, h2}
  Deposits = {d1, d2}
  Amount <- MCAmount
  Total <- MCTotal
  Expected = 4
  Tolerance = 2
  MaxPayout = 2
  MaxFaults = 1
  FeeChecks = {"pending"}
  Jobs = {"expire", "cancel", "retry", "reissue"}
INVARIANTS OneLivePayout PayoutIsFunded
PROPERTY ImplementsContract
SYMMETRY MCSymmetry
CHECK_DEADLOCK FALSE
