CONSTANTS
  p1 = p1
  p2 = p2
  r1 = r1
  r2 = r2
  a1 = a1
  a2 = a2
  Ids = {p1, p2}
  Amounts = {a1}
  Runs = {r1, r2}
  NoAmount = NoAmount
  NoMemo = NoMemo
  DemoTx = DemoTx
  Window = 1
  MaxTxs = 2
  MaxFailures = 1
  ManualFallback = TRUE
  MayCrash = TRUE
SPECIFICATION Spec
SYMMETRY IdSymmetry
INVARIANTS
  PaidIsBacked
  CopiesAreSound
CHECK_DEADLOCK FALSE
