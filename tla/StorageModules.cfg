SPECIFICATION Spec
CONSTANTS
  a1 = a1
  a2 = a2
  a3 = a3
  a4 = a4
  Addresses <- MCAddresses
  Contributors <- MCContributors
  None = None
  MaxTime = 2
  ShardSize = 2
  MaxShards = 3
  Blocks = {1, 2}
  TxCounts = {0, 1, 2}
  MaxTxs = 1
  Bonds = {0, 1}
  MinBond = 1
  ExitDelay = 1
  TokenIds = {1, 2}
  BatchAmounts <- MCBatchAmounts
  Batches <- MCBatches
  MaxBatch = 2
  MaxTotal = 4
  PrimaryGoal = 1
  Milestones = {1, 2, 3}
  MaxStretch = 2
  MaxRoadmap = 1
  MaxTextLen = 1
  MaxRaised = 3
  Campaigns = {"k1", "k2"}
  Minimum <- MCMinimum
  MaxFanOut = 2
  FanOutAmounts = {0, 1, 2}
  Purse = 3
  CacheKeys = {"x", "y"}
  EntrySizes = {0, 1, 2}
  MaxCacheSize = 2
  LazyItems = 2
  CachedValues = {0, 1}
  MaxPuts = 4
  MaxChunks = 3
  MaxChunkSize = 2
  ChunkSizes = {0, 2, 3}
  WordBits = 2
  CpuCap = 1
  MemoryCap = 1
  Works = {0, 1}
  MaxWork = 2
  RateLimit = 2
  WindowLen = 2
  Quota = 1
  RateSettings = {0, 1, 2}
  MaxSetting = 1
  BurstThreshold = 1
  FailureThreshold = 2
  AutoPauseThreshold = 2
  CountMax = 3
  WhaleAmounts = {0, 1, 2}
  WhaleShare = 1
  WhaleScale = 2
  AmountMax = 3
  MaxAlarms = 5
  MaxPattern = 2
  MaxThreatLog = 2
  AccessActions = {"CONTRIBUTE", "WITHDRAW"}
  ThreatLevels = {1, 4}
  MetricMax = 1
  Hour = 2
  RapidCount = 1
  MaxObserved = 3
  MaxBatchSize = 2
  MaxDedupEntries = 2
  WriteValues = {0, 1}
  TopicHeads = {"h", "k"}
  TopicTails = {"s", "t"}
  MaxOptimised = 3
  ShadowGoals = {1, 3}
  ShadowAmounts <- MCShadowAmounts
  ShadowMax = 9
  ShadowScale = 4
  MaxApplied = 4
SYMMETRY Symmetry
INVARIANTS
  ShardInv RecordsTypeOK ExitBacked SplitBooks
  MilestoneSound MonitorsExact CopiesExact
PROPERTIES
  KeepsLog ChallengedNeverPaid OwnersFinal
  BatchWhole
CHECK_DEADLOCK FALSE
