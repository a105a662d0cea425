SPECIFICATION FairSpec
CONSTANTS
  r1 = r1
  r2 = r2
  Requests <- TwoRequests
  Things = {"own", "activity"}
  Droppable = {"activity"}
  Calmed = {"own"}
  Urgency <- MCUrgency
  Configs <- MCConfigs
  Broken = Broken
  MaxChanges = 2
  MaxAcks = 2
  MaxFaults = 1
INVARIANTS TypeOK CountsMatchItems
PROPERTIES AnnouncedOnce Converges
