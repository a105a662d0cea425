CONSTANTS
  h1 = h1
  h2 = h2
  Handlers <- TwoHandlers
  Loop = loop
  Refs = {r1}
  Droppable = {}
  Methods = {"tasks", "refresh", "reset", "ack"}
  DiskFaults = FALSE
  Free = Free
  NoFile = NoFile
  Empty = Empty
  Torn = Torn
SYMMETRY HandlerSymmetry
SPECIFICATION HSpec
INVARIANTS TypeOK ResetIsolated QuietSources
PROPERTY OnlyLateAcksAreLost
