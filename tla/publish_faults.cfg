SPECIFICATION Spec
CONSTANTS
  Pieces = {p1}
  Accounts = {a1}
  Delegates = {}
  Workers = {w1, w2}
  Clients = {c1}
  Ops = {"schedule", "collect"}
  StopControls = {}
  Rejections = {"retryable"}
  MaxTime = 0
  Horizon = 0
  PublishAttempts = 2
  MaxStalls = 1
  FaultKinds = {"crash", "wipe", "lock", "answer", "database"}
  MaxFaults = 2
  None = None
SYMMETRY Symmetry
INVARIANTS TypeOK PostsWithinFaults AttemptBudget PostsAreCounted PublishedIsPosted
CHECK_DEADLOCK FALSE
