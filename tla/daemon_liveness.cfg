CONSTANTS
  Handlers = {h1}
  Loop = loop
  Refs = {r1}
  Droppable = {r1}
  Methods = {"tasks", "refresh", "reset", "ack"}
  DiskFaults = TRUE
  Free = Free
  NoFile = NoFile
  Empty = Empty
  Torn = Torn
SPECIFICATION FairSpec
PROPERTIES RequestsAnswered PeriodicRefresh
