SPECIFICATION FairSpec
CONSTANTS
  c1 = c1
  c2 = c2
  c3 = c3
  Contributors = {c1, c2}
  Creator = creator
  Platform = platform
  Self = self
  None = None
  Configs <- LiveConfigs
  Amounts = {1, 2}
  InitialWallet = 2
  MinDeadlineOffset = 1
  BpsScale = 2
  MaxContributors = 2
  MaxNftMintBatch = 1
  MaxAmount = 8
  MaxTime = 2
PROPERTIES
  EventuallyDecided RefundsArrive CreatorPaid
CHECK_DEADLOCK FALSE
