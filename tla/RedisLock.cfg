\* Durations in thirds of 20 seconds: 60s and 20s, and 5s rounded up.
CONSTANTS
  i1 = i1
  i2 = i2
  g1 = g1
  g2 = g2
  g3 = g3
  Instances = {i1, i2}
  Goroutines = {g1, g2, g3}
  Home <- MCHome
  Tokens = {t1, t2}
  NoToken = NoToken
  Nobody = Nobody
  TTL = 9
  RenewInterval = 3
  OpTimeout = 1
SPECIFICATION FairSpec
INVARIANTS
  MutexUnlessOverdue
  RefresherHasHolder
PROPERTIES
  ReleaseSparesOtherInstances
  ImplementsLease
  AbandonedKeyExpires
