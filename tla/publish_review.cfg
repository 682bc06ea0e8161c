SPECIFICATION Spec
CONSTANTS
  Pieces = {p1}
  Accounts = {a1}
  Delegates = {}
  Workers = {w1}
  Clients = {c1, c2}
  Ops = {"schedule", "approve", "archive", "collect"}
  StopControls = {"publishingPaused"}
  Rejections = {"permanent", "auth"}
  MaxTime = 0
  Horizon = 0
  PublishAttempts = 2
  MaxStalls = 1
  FaultKinds = {"call", "database", "answer"}
  MaxFaults = 1
  None = None
SYMMETRY Symmetry
INVARIANTS PostedOnlyIfApproved StopLeakBounded
CHECK_DEADLOCK FALSE
