SPECIFICATION Spec
CONSTANTS
  a1 = a1
  a2 = a2
  a3 = a3
  Addresses <- MCAddresses
  None = None
  MaxTime = 2
  Roles <- TwoRoles
  TransferDelay = 1
  MaxMembers = 2
  FeeRates = {2, 3}
  MaxFee = 2
  Hashes = {0, 1}
  ZeroHash = 0
  MinTtl = 1
  MaxTtl = 1
  Ttls = {0, 1, 2}
  Targets = {"t1", "t2", "t3"}
  MaxTrusted = 2
  SignerLists <- MCSignerLists
  Thresholds = {0, 1, 2, 3}
  MinSigners = 1
  MaxSigners = 2
  ApprovalExpiry = 0
  Collections = {"dao", "club"}
  GateMinimums = {0, 1}
  MaxHolding = 1
  CurrentSchema = 2
  MaxSchema = 4
  ImplHashes = {0, 1, 2}
  ZeroImpl = 0
  MinPassingScore = 80
  Validity = 1
  Scores = {79, 80}
  MaxModules = 2
  MaxLessons = 4
  MaxEntries = 3
  VulnIds = {"v", "w"}
  CaseIds = {"p", "q"}
  Incidences <- MCIncidences
  MaxCases = 2
  MaxRuns = 2
  Crates = {"w", "x", "y", "z"}
  OversizedNames = {"z"}
  Releases = {1, 2}
  SecurityLevels = {1, 4}
  PolicyLevel = 3
  Policies <- MCPolicies
  MaxApproved = 2
  MaxRules = 2
  MaxBlocked = 2
  MaxEdits = 4
  Operands <- MCOperands
  MaxOperands = 3
  Naturals3 = {0, 1, 2, 8, 9, 20, 21, 30}
  MaxItems = 2
  MaxSlice = 2
  MaxTiers = 2
  MaxBatchSize = 2
  FullScale = 4
  IntMax = 100
  PageMax = 20
  MaxEvents = 8
  HalfKey = 1024
  YearLength = 1
  MaxOperations = 9
SYMMETRY Symmetry
PROPERTY LastAdminStays
CHECK_DEADLOCK FALSE
