SPECIFICATION Spec
CONSTANTS
  Handlers = {h1, h2}
  Ids = {a1}
  RequestIds = {q1}
  Users = {u1, u2}
  NamedUsers = {u1}
  ImportUsers = {u2}
  MaxFaults = 1
  Followed = {3}
  MaxAttempts = 1
INVARIANTS ReadyIsReal ReplayIsOwn
PROPERTY ActivationLands

CHECK_DEADLOCK FALSE
