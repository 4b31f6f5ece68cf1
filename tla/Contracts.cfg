CONSTANTS
  x1 = x1
  x2 = x2
  y1 = y1
  y2 = y2
  SwapIds = {1, 2}
  Parties = {"alice"}
  Secrets = {s1, s2}
  s1 = s1
  s2 = s2
  Digests <- MCDigests
  Sha256 <- MCSha256
  Amounts = {1000}
  Fees = {0, 300}
  Times <- MCTimes
  NoParty = "nobody"
  NoSecret = NoSecret
  NoDigest = NoDigest
  Pools = {x1, x2}
  Providers = {y1, y2}
  PoolAmounts <- MCPoolAmounts
  MinOuts <- MCMinOuts
  PoolFees = {30, 10001}
  MaxPoolCalls = 4
  NoPool = NoPool
  Merchants = {x1, x2}
  OrchestrationIds = {y1, y2}
  DepositAmounts <- MCDeposits
  MaxVaultCalls = 5
  NoCheckpoint = NoCheckpoint
  SagaIds = {"g1"}
  MaxSteps = 2
  Timeouts = {0, 1}
  SagaTimes = {0, 1, 2}
  NoSaga = NoSaga
SYMMETRY Symmetry
SPECIFICATION SumSpec
INVARIANTS
  TypesOK
  SettlementIsConsistent
  SharesMatchSupply
  LockedCoversPending
  StatusTellsWhatRan
PROPERTIES
  KeepsPromise
  ProductNeverFalls
  RemovalTakesItsShare
  QuietRollbackIsNeutral
CHECK_DEADLOCK FALSE
