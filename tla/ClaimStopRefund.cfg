SPECIFICATION Spec
CONSTANTS
  c1 = c1
  c2 = c2
  c3 = c3
  Contributors = {c1, c2}
  Creator = creator
  Platform = platform
  Self = self
  None = None
  Configs <- ClaimConfigs
  Amounts = {1, 2}
  InitialWallet = 3
  MinDeadlineOffset = 1
  BpsScale = 4
  MaxContributors = 2
  MaxNftMintBatch = 1
  MaxAmount = 12
  MaxTime = 2
INVARIANT RefundableAfterStop
CHECK_DEADLOCK FALSE
