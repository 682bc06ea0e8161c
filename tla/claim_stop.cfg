SPECIFICATION Spec
CONSTANTS
  Pieces = {p1}
  Accounts = {a1}
  Delegates = {}
  Workers = {w1}
  Clients = {c1}
  Ops = {"schedule"}
  StopControls = {"publishingPaused"}
  Rejections = {"retryable"}
  MaxTime = 0
  Horizon = 0
  PublishAttempts = 2
  MaxStalls = 1
  FaultKinds = {}
  MaxFaults = 0
  None = None

PROPERTIES NothingIsSentUnderAStop
CHECK_DEADLOCK FALSE
