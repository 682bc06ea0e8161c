SPECIFICATION Spec
CONSTANTS
  Pieces = {p1}
  Accounts = {a1, a2}
  Delegates = {}
  Workers = {w1, w2}
  Clients = {c1}
  Ops = {"schedule", "archive"}
  StopControls = {}
  Rejections = {"retryable", "permanent"}
  MaxTime = 0
  Horizon = 0
  PublishAttempts = 2
  MaxStalls = 1
  FaultKinds = {}
  MaxFaults = 0
  None = None
SYMMETRY Symmetry
INVARIANTS OneExecutorPerJob QuietStopsAreFinal
PROPERTIES PublishedRowIsFinal
CHECK_DEADLOCK FALSE
