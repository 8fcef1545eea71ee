SPECIFICATION Spec
CONSTANTS
  Handlers = {h1, h2}
  Ids = {a1}
  Values = {"v1", "v2"}
  Inputs <- MCInputs
  OldOnes <- MCOldOnes
  Requirements <- MCRequirements
  MaxUpdates = 2
  MaxFaults = 1
  Followed = {3}
  MaxAttempts = 1
INVARIANTS DestinationIsCanonical PayoutAccountIsVetted
SYMMETRY MCSymmetry
CHECK_DEADLOCK FALSE
