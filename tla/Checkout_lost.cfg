CONSTANTS
  p1 = p1
  p2 = p2
  r1 = r1
  r2 = r2
  a1 = a1
  a2 = a2
  Ids = {p1, p2}
  Amounts = {a1}
  Runs = {r1}
  NoAmount = NoAmount
  NoMemo = NoMemo
  DemoTx = DemoTx
  Window = 1
  MaxTxs = 1
  MaxFailures = 0
  ManualFallback = FALSE
  MayCrash = FALSE
SPECIFICATION Spec
INVARIANTS
  CreatedIsListed
CHECK_DEADLOCK FALSE
