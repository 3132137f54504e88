SPECIFICATION Spec
CONSTANTS
  c1 = c1
  c2 = c2
  c3 = c3
  Contributors = {c1, c2, c3}
  Creator = creator
  Platform = platform
  Self = self
  None = None
  Configs <- SafetyConfigs
  Amounts = {0, 1, 2}
  InitialWallet = 3
  MinDeadlineOffset = 1
  BpsScale = 4
  MaxContributors = 2
  MaxNftMintBatch = 1
  MaxAmount = 5
  MaxTime = 2
  ProductMax = 12
  FeeCap = 1
  OverflowMark = 4
  MaxRoadmapItems = 1
  LookupBatch = 2
  OffsetRange <- MCOffsets
  GoalRange <- MCGoals
  EndingSoon = 1
  MaxCampaignGoal = 3
  MaxDuration = 1
SYMMETRY Symmetry
INVARIANTS
  IndInv BooksBalance RefundsCovered ListsComplete WalletsWhole
  OutcomeMatchesGoal MintedAtMostOnce BonusEventExact
  ViewsConsistent AuditsAgree HelpersAgree
PROPERTIES
  StoppedFreezesTokens CollectAllOrNothing OutflowsAuthorised KeepsEscrow
CHECK_DEADLOCK FALSE
