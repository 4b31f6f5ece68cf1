CONSTANTS
  SwapIds = {1}
  Parties = {"alice"}
  Secrets = {s1, s2}
  s1 = s1
  s2 = s2
  Digests <- MCDigests
  Sha256 <- MCSha256
  Amounts = {1000}
  Fees = {0}
  Times = {0, 1, 2, 3}
  NoParty = "nobody"
  NoSecret = NoSecret
  NoDigest = NoDigest
  Requests = {1, 2}
  MaxRetries = 3
  Ids = {p1, p2}
  p1 = p1
  p2 = p2
  Runs = {r1, r2}
  r1 = r1
  r2 = r2
  NoAmount = NoAmount
  NoMemo = NoMemo
  DemoTx = DemoTx
  Window = 1
  MaxTxs = 2
  MaxFailures = 1
  ManualFallback = FALSE
  MayCrash = FALSE
  Subscriptions = {"s"}
  ApiCalls = {"a"}
  JobIds = {1, 2}
  NoJob = NoJob
  Attempts = 2
  BillingLastDay = 2
  UpdateStatuses = {"ACTIVE"}
  MaxApiCalls = 3
  Events = {e1}
  e1 = e1
  HookJobIds = {1, 2, 3, 4}
  NoHookJob = NoHookJob
  HookRetries = 2
  HookAttempts = 3
  MaxFaults = 2
  MaxReplays = 1
  Notices = {n1, n2}
  n1 = n1
  n2 = n2
  NoticeRetries = 2
  MailAttempts = 2
  MaxOperatorCalls = 1
  MaxBreaks = 1
SPECIFICATION JobsSpec
INVARIANTS
  TypesOK
  RowsAreBacked
  RecordedWasDone
  NothingSentTwiceUnlessBroken
PROPERTIES
  PaidEventually
  RevivedOnlyByStaleSaves
  WorkEnds
CHECK_DEADLOCK FALSE
