SPECIFICATION BacklogSpec
CONSTANTS
  QueueConfigs <- DefaultConfigs
  HandTimes = {}
  GenerationResults = {"APPROVED"}
PROPERTY BacklogIsBuilt
