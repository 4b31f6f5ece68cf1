CONSTANTS
  x1 = x1
  x2 = x2
  y1 = y1
  y2 = y2
  PageRows = {"r1"}
  Fetches = {"g1", "g2"}
  Clicks = {y1, y2}
  MaxInputs = 3
  Disputes = {x1, x2}
  EvidenceFetches = {"e1", "e2"}
  Uploads = {y1, y2}
  Updates = {"w1"}
  MaxDialogInputs = 5
  ApiKeys = {"k1", "k2", "k3"}
  KeyRequests = {y1, y2}
  MaxKeyClicks = 5
  Funds = 3
  WithdrawalLimit = 2
  MaxWithdrawals = 4
  Fields = {x1, x2}
  MaxEdits = 3
  MaxTimers = 2
  LivePayments = {x1, x2}
  LiveFetches = {y1, y2}
  MaxVisits = 2
  MaxConnections = 2
  MaxRefreshes = 3
  OrderAmounts = {"", "0", "5", "7"}
  MaxTyped = 3
  MaxSubmits = 4
  Entities = {x1, x2, y1, y2}
  MaxEdges = 4
  MaxBehind = 1
  MaxLength = 3
SYMMETRY Symmetry
SPECIFICATION SumSpec
INVARIANTS
  TypesOK
  MoneyGoesOutOnce
  WatchersFollowPages
  SearchesAreExact
PROPERTIES
  ScreensFollowServers
CHECK_DEADLOCK FALSE
