CONSTANTS
  N = 2
  Quota = 2
  Limit = 3
  PerRun = 2
  Originals <- MCOriginals
  Heard <- MCHeard
  Exit = "exit"
  Keep = 1
  Passes = 2
  Locks <- MCLocks
  Answers <- MCAnswers
  MaxSource = 2
  MaxDerived = 2
  MaxItems = 4
  BatchSizes = {1, 3}
  Accums = {1, 2}
  Epochs = 3
  Warmups = {0, 6, 100}
  Scores = {1, 2, NaN}
  NaN = NaN
  MaxRuns = 2
  TorchFiles = {"weights", "config"}
  Generated = {"config"}
  BucketSets <- MCBuckets
  MaxRevision = 2
  MaxExports = 2
  Documents <- MCDocuments
  Disks <- MCDisks
  Pinned <- MCPinned
  CommandLines <- MCCommandLines
  MaxReplaced = 1
  Configs <- MCConfigs
  Apartment <- MCApartment
  IotDevices <- MCIot
  Excluded = {"play"}
  PerScenario = 2
  Rooms <- MCRooms
  MinSeen = 2
  Subset = 1
  Pipelines <- MCPipelines
  EvalSlices <- MCSlices
  Earlier <- MCEarlier
  Results <- MCResults
  MinSlice = 2
  Tolerance = 3
  Alpha = 20
  MaxAttempts = 2
  EventFiles <- MCEventFiles
  HashOf <- MCHashOf
  TestShare = 6
  ScoredAs <- MCScoredAs
  Thresholds <- MCThresholds
  MinIrrelevant = 0
  MinExecuted = 1
  MissesAllowed <- MCMisses
  FalseAllowed <- MCMisses
  MaxEdits = 1
  CompiledSets <- MCCompiled
  PlacementTexts <- MCPlacementTexts
  DefaultParts <- MCPlacement
  CopiesThatFit = 3
  BenchRecords <- MCBenchRecords
  GateFirst = "action"
  GateThen <- MCGateThen
  BenchBuckets = {128, 256}
  SetCounts = {1, 2, 3}
  HowMany = 3
  HomeItems <- MCHomeItems
  TeamItems <- MCTeamItems
  Pairs = 2
  BoundHome = 2
  Cases <- MCCases
  CaseHomes <- MCCaseHomes
  Models <- MCModels
  Backends = {"base", "ort"}
  Says <- MCSays
  ScenarioSets <- MCScenarioSets
  SplitHomes <- MCSplitHomes
  Inventory <- MCInventory
  FramesPerContext = 1
  Utterances <- MCUtterances
  MaxCast = 3
  History = 3
  SliceSpecs <- MCSliceSpecs
  Authored <- MCAuthored
  KnownUsers = {"an old request"}
  Setups <- MCSetups
SPECIFICATION MCSpec
INVARIANT MoneyWellSpent
INVARIANT DataSound
INVARIANT TrainingSound
INVARIANT FilesOfOneModel
INVARIANT LaunchedAsTold
INVARIANT ImportedSound
INVARIANT RunMeansIt
INVARIANT EvaluationsHonest
INVARIANT NpuLoadSound
INVARIANT MeasuredHonestly
INVARIANT ScriptedSound
CHECK_DEADLOCK FALSE
