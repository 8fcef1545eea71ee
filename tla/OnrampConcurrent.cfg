SPECIFICATION Spec
CONSTANTS
  Handlers = {h1, h2}
  Reports = {"onramp.fiat_received", "onramp.failed", "onramp.completed"}
  Jobs = {"expire", "get"}
  Pairs = {"absent", "open"}
  MaxFaults = 1
INVARIANTS SendIsFunded CompletedIsSent
SYMMETRY MCSymmetry
CHECK_DEADLOCK FALSE
