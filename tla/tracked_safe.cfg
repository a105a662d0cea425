SPECIFICATION FairSpec
CONSTANTS
  PRs <- MCPRs
  Own <- MCOwn
  GroupOrder <- MCGroupOrder
  Configs <- MCConfigs
  Wild = Wild
  None = None
  Torn = Torn
  SearchLimit = 2
  TTL = 1
  MaxChanges = 2
  MaxFaults = 1
PROPERTIES BoundedlyStale CompleteUnlessBroken SettledIsShown
