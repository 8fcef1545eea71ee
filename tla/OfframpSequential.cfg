SPECIFICATION FairSpec
CONSTANTS
  Handlers = {h1}
  Deposits = {d1, d2}
  Amount <- MCAmount
  Total <- MCTotal
  Expected = 4
  Tolerance = 2
  MaxPayout = 2
  MaxFaults = 1
  FeeChecks = {"pending", "skipped"}
  Jobs = {"expire", "cancel", "retry", "reissue", "mark", "fee", "provisioned_account.failed"}
INVARIANTS FailureIsOnRecord FeeIsRecorded PointersAgree RefundOrPayout
PROPERTIES CreditWins PaidIsCompleted
CHECK_DEADLOCK FALSE
