SPECIFICATION Spec
CONSTANTS
  Handlers = {h1, h2}
  Deposits = {d1}
  Amount <- MCAmount
  Total <- MCTotal
  Expected = 4
  Tolerance = 3
  MaxPayout = 1
  MaxFaults = 0
  FeeChecks = {"pending"}
  Jobs = {"expire"}
PROPERTY FundedNeverFails
CHECK_DEADLOCK FALSE
