CONSTANTS
  small = small
  large = large
  dear = dear
  Models = {small, large, dear}
  Catalogs <- MCCatalogs
  Requests <- MCRequests
  Needs <- MCNeeds
  UserChains <- MCUserChains
  HistorySize = 3
  AmbiguousWithin = 2
  MaxAttempts = 2
  ProfileConfigs <- MCProfileConfigs
SPECIFICATION Spec
INVARIANTS
  MomentumInReach
  ChainIsBest
  EcoNotDearer
