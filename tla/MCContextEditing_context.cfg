CONSTANTS
  Sessions = {main}
  Weights = {1, 3}
  SummaryTokens = 1
  MessageThreshold = 3
  TokenThreshold = 5
  Targets = 2
  Configs <- MCConfigs
  Cooldown = 2
  MaxMessages = 7
  MaxFaults = 1
SPECIFICATION FairSpec
INVARIANT HiddenIsTold
PROPERTIES
  CompactsNewMessages
  EveryTurnRuns
