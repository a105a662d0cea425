CONSTANTS
  p1 = p1
  p2 = p2
  jira = jira
  tree = tree
  K = K
  L = L
  Refs <- MCRefs
  PullRequests <- MCPullRequests
  Keys <- MCKeys
  Collections <- MCCollections
  IdBound = 7
SPECIFICATION Spec
INVARIANTS TypeOK ActiveIdsUnique
PROPERTIES IdKeepsMeaning ClearTasksKeepIds
