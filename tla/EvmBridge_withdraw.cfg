CONSTANTS
  SwapIds = {1, 2}
  Accounts = {"alice"}
  Owner = "owner"
  Refusers = {"bob"}
  Tokens = {"usdc"}
  Native = "native"
  Secrets = {"s1"}
  Digests = {"d1"}
  Amounts = {100, 200}
  Fees = {0, 500, 1000}
  MaxFee = 1000
  MaxFirstFee = 20000
  Times = {0, 1, 2}
  MaxHeld = 400
  NoAccount = "nobody"
  NoSecret = "unrevealed"
  NoDigest = "unset"
SPECIFICATION Spec
PROPERTIES
  WithdrawalLeavesPrincipal
CHECK_DEADLOCK FALSE
