SPECIFICATION FairSpec
CONSTANTS
  Pieces = {p1}
  Accounts = {a1}
  Delegates = {}
  Workers = {w1}
  Clients = {c1}
  Ops = {"schedule", "archive"}
  StopControls = {"killSwitch"}
  Rejections = {"retryable","auth"}
  MaxTime = 0
  Horizon = 0
  PublishAttempts = 2
  MaxStalls = 1
  FaultKinds = {"wipe", "crash", "answer"}
  MaxFaults = 1
  None = None

PROPERTIES RowIsSettled
