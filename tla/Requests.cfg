CONSTANTS
  x1 = x1
  x2 = x2
  y1 = y1
  y2 = y2
  Recipients = {x1, x2}
  Distributions = {"d1", "d2"}
  Milestones = {"m1"}
  SplitMaxRetries = 1
  SplitRequests = {y1, y2}
  MaxSplitCalls = 5
  RefundIds = {"f1"}
  EvidenceIds = {x1, x2}
  RefundRequests = {y1, y2}
  MaxRefundCalls = 5
  Conversions = {x1, x2}
  ConversionRequests = {y1, y2}
  ConversionRetries = 2
  DailyLimit = 1
  MaxConversionCalls = 4
  MaxDays = 2
  PriceRequests = {y1, y2}
  Prices = {1, 2, 5}
  CacheTTL = 2
  FetchTime = 2
  MaxQuoteTime = 4
  RouteAmounts = {100, 200}
  BridgeFees = {0, 5, 12, 36}
  Swaps = {1, 2, 3}
  Approvers = {"a1", "a2", "a3"}
  RequiredApprovals = 2
  BatchIds = {1, 2}
  Period = 4
  MaxDelay = 1
  MaxOracleTime = 14
  PlanIds = {"basic", "pro"}
  PlanAmounts = {20, 50, 100}
  PlanCalls = {y1, y2}
  InvoiceIds = {1, 2, 3}
  DaysInPeriod = 1
  MaxPlanCalls = 3
  UsageIds = {"u1", "u2", "u3"}
  Meters = {y1, y2}
  Quantities = {1, 2, 3}
  UsageLimit = 3
  LastPeriod = 2
SYMMETRY Symmetry
SPECIFICATION SumSpec
INVARIANTS
  TypesOK
  SplitsKeepBooks
  RefundsKeepBooks
  ConversionsKeepBooks
  PricesAreSound
  BatchesAreApproved
PROPERTIES
  BillsFollowPlans
CHECK_DEADLOCK FALSE
