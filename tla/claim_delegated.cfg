SPECIFICATION FairSpec
CONSTANTS
  Pieces = {p1}
  Accounts = {a1}
  Delegates = {a1}
  Workers = {w1}
  Clients = {c1}
  Ops = {"schedule"}
  StopControls = {}
  Rejections = {}
  MaxTime = 1
  Horizon = 0
  PublishAttempts = 2
  MaxStalls = 1
  FaultKinds = {}
  MaxFaults = 0
  None = None

PROPERTIES DelegatedIsHandedOver
CHECK_DEADLOCK FALSE
