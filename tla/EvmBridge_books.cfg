CONSTANTS
  SwapIds = {1, 2}
  Accounts = {"alice", "bob"}
  Owner = "owner"
  Refusers = {"bob"}
  Tokens = {"usdc"}
  Native = "native"
  Secrets = {"s1"}
  Digests = {"d1"}
  Amounts = {100}
  Fees = {500, 12000}
  MaxFee = 1000
  MaxFirstFee = 20000
  Times = {0, 1}
  MaxHeld = 300
  NoAccount = "nobody"
  NoSecret = "unrevealed"
  NoDigest = "unset"
SPECIFICATION Spec
INVARIANTS
  BooksWithinHoldings
  OpenSwapsCovered
PROPERTIES
  BeyondNeverShrinks
  SettlesOnce
CHECK_DEADLOCK FALSE
