SPECIFICATION OfficeSpec
CONSTANTS
  Generations = {g1, g2, g3, g4, g5}
  NoToken = NoToken
  MaxAccountFaults = 1
  Callers = {c1, c2}
  DailyLimit = 3
  MonthlyLimit = 5
  MaxCost = 2
  MaxAttempts = 2
  MaxLost = 2
  Admins = {a1, a2}
  AgentKeys = {k1, k2}
  LlmReady = FALSE
  Nobody = Nobody
  QueueConfigs <- SmallConfigs
  HandTimes = {7}
  GenerationResults = {"APPROVED", "FLAGGED"}
  Weightings <- MCWeightings
  Histories <- MCHistories
  Mixes <- MCMixes
  MaxCycles = 4
  Stories <- MCStories
  Hooks <- MCHooks
  Alike <- MCAlike
  Drafts <- MCDrafts
  Verdicts <- MCVerdicts
  Recall = 1
  MaxTopics = 2
  Connected <- MCConnected
  Carousels <- MCCarousels
  Reels <- MCReels
  NoPiece = NoPiece
  Numbers = {3}
  MaxRecords = 2
  MaxCalls = 2
  MaxPolls = 2
  MaxClock = 3
  Tick = 10
  PostInputs <- MCPostInputs
INVARIANTS
  OfficeTypeOK
  PostsAreComplete
  NeverPublicEarly
  DisconnectIsFinal
  ConnectedHasCredentials
  StoredCredentialsWork
  SpendStaysNearLimits
  ControlsStand
  FullQueueGetsOneTick
  WeightsStayADistribution
  NothingIsRepeated
  ClaimsAreTraceable
  PieceFitsItsPlatforms
  SummaryShowsNoInventedNumber
PROPERTIES
  KeepsCallPromise
  CallReturns
  FalseAlarmsAreHealed
  DeadCredentialsAreNoticed
  StepsAreSmall
CHECK_DEADLOCK FALSE
