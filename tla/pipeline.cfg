SPECIFICATION InstanceSpec
CONSTANTS
  Topics = {t1, t2}
  Pieces = {p1, p2}
  Findings <- MCFindings
  Demands = {0, 1, 2}
  Agents = {"researcher"}
  Editors = {e1, e2}
  Faults = {"crash", "database"}
  MaxFaults = 1
  None = None
SYMMETRY Symmetry
INVARIANTS TypeOK WrittenOnStandingResearch OneScheduledPiecePerTopic
  StopLetsOneStageFinish ResearchIsAnswered QuietArchiveIsFinal
PROPERTIES UnattendedIsStrict ApprovedIsNotLeftBehind
