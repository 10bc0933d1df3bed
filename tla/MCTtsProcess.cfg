CONSTANTS
  Chunk = 3
  Lookahead = 2
  Overlap = 1
  MinTokens = 1
  MaxTokens = 11
  Spare = 1
  TokenCap = 3
  MelCap = 2
  Fragile = {"llm", "flow", "hift"}
  ChunkTokens = 3
  PromptTokens = 6
  TokenCache = 8
  RecentFrames = 12
  ContextFrames = 3
  BucketFrames = {5, 6, 9}
  SteadyBuckets = {11, 15}
  TokenCounts = {1, 3, 4, 6, 8, 9, 10, 14}
  MaxUtterances = 2
  PromptText = 2
  PromptSpeech = 3
  Contexts = {6, 7, 8, 9, 10, 11, 12, 20, 27, 28, 29, 40, 46, 47, 48, 49, 50, 200}
  Masks = {"all", "some"}
  SynthTexts <- MCSynthTexts
  MaxSpoken = 2
SPECIFICATION MCSpec
INVARIANT SpokenAsCut
INVARIANT FlowContinuous
INVARIANT TextPrepared
INVARIANT ProcessOwned
PROPERTY ThreadsReport
CHECK_DEADLOCK FALSE
