CONSTANTS
  h1 = h1
  h2 = h2
  Handlers <- TwoHandlers
  Loop = loop
  Refs = {r1}
  Droppable = {}
  Methods = {"refresh", "reset", "ack"}
  DiskFaults = TRUE
  Free = Free
  NoFile = NoFile
  Empty = Empty
  Torn = Torn
SYMMETRY HandlerSymmetry
SPECIFICATION FSpec
INVARIANTS DiskNeverTorn QuietDiskCurrent ResetForgetsDisk
PROPERTY DurableRefinement
