CONSTANTS
  c1 = c1
  c2 = c2
  h1 = h1
  h2 = h2
  None = None
  Calls = {c1, c2}
  Handlers = {h1, h2}
  MaxPieces = 2
  PipeSize = 2
  MaxInbox = 2
  Cancels = {"own"}
  FaultSets = {{}}
SPECIFICATION Spec
SYMMETRY Symmetry
PROPERTY CancelStopsAudio
CHECK_DEADLOCK FALSE
