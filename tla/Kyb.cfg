SPECIFICATION Spec
CONSTANTS
  Handlers = {h1, h2}
  RequestIds = {"q1"}
  Emails = {e1, e2}
  Rails = {"USD"}
  Decisions <- MCDecisions
  MaxFaults = 1
  MaxSignUps = 2
  MaxSubmissions = 1
  Followed = {3}
  MaxAttempts = 3
INVARIANTS UserIsToldOnce SubmissionShows LogIsHonest
SYMMETRY MCSymmetry
CHECK_DEADLOCK FALSE
