CONSTANTS
  SwapIds = {1}
  Parties = {"alice"}
  Secrets = {s1, s2}
  s1 = s1
  s2 = s2
  Digests <- MCDigests
  Sha256 <- MCSha256
  Amounts = {1000}
  Fees = {0}
  Times = {0, 1, 2}
  NoParty = "nobody"
  NoSecret = NoSecret
  NoDigest = NoDigest
  Requests = {1, 2}
  MaxRetries = 3
SPECIFICATION Spec
INVARIANTS
  ExpiredMeansFailed
CHECK_DEADLOCK FALSE
