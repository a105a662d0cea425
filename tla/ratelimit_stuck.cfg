CONSTANTS
  MaxTime = 5
  CacheTTL = 2
  Backoff = 3
  Limit <- MCLimit
  Window <- MCWindow
  Minimum <- MCMinimum
  Cost <- MCCost
  Price <- MCPrice
  Answers <- MCAnswers
  Groups = 2
  Vanished = 1
CHECK_DEADLOCK FALSE
SPECIFICATION FairSpec
PROPERTY CollectionEnds
