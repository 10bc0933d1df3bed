CONSTANTS
  c1 = c1
  c2 = c2
  h1 = h1
  h2 = h2
  None = None
  Calls = {c1, c2}
  Handlers = {h1, h2}
  MaxPieces = 2
  PipeSize = 1
  MaxInbox = 1
  Cancels = {"own", "early"}
  FaultSets = {{"abandon", "report_overtakes"}, {"utterance_fails", "engine_dies", "report_overtakes"}, {"engine_stalls", "report_overtakes"}, {"utterance_fails", "engine_dies", "engine_stalls"}}
SPECIFICATION Spec
SYMMETRY Symmetry
INVARIANT OwnUnlessGivenUp
INVARIANT AnsweredWhole
PROPERTY DrivesEngine
CHECK_DEADLOCK FALSE
