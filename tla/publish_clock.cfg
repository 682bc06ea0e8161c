SPECIFICATION FairSpec
CONSTANTS
  Pieces = {p1}
  Accounts = {a1}
  Delegates = {a1}
  Workers = {w1}
  Clients = {c1}
  Ops = {"schedule"}
  StopControls = {}
  Rejections = {"permanent"}
  MaxTime = 1
  Horizon = 0
  PublishAttempts = 1
  MaxStalls = 1
  FaultKinds = {"wipe"}
  MaxFaults = 1
  None = None

PROPERTIES RowIsSettled
CHECK_DEADLOCK FALSE
