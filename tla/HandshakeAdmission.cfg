SPECIFICATION FairSpec
CONSTANTS
  Sources = {s1, s2, s3}
  Entries = 2
  TokenCost = 1
  Burst = 1
  UnderLoadAfterTime = 2
  CookieRefreshTime = 3
  RetryEvery = 2
  MaxLosses = 1
INVARIANTS
  BucketsAreIdeal
PROPERTY
  HandshakeAdmitted
