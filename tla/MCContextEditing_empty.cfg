CONSTANTS
  Sessions = {main}
  Weights = {1, 3}
  SummaryTokens = 1
  MessageThreshold = 2
  TokenThreshold = 4
  Targets = 2
  Configs <- MCConfigs
  Cooldown = 2
  MaxMessages = 5
  MaxFaults = 1
SPECIFICATION Spec
INVARIANT NothingForgotten
