CONSTANTS
  c1 = c1
  c2 = c2
  h1 = h1
  h2 = h2
  None = None
  Calls = {c1, c2}
  Handlers = {h1, h2}
  MaxPieces = 1
  PipeSize = 1
  MaxInbox = 1
  Cancels = {}
  FaultSets = {{"abandon", "report_overtakes", "engine_stalls", "engine_dies"}}
SPECIFICATION FairSpec
PROPERTY DeliveryEnds
CHECK_DEADLOCK FALSE
