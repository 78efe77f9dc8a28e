\* Durations in units of 5 seconds: 60s, 20s and 5s.
CONSTANTS
  i1 = i1
  i2 = i2
  g1 = g1
  g2 = g2
  g3 = g3
  Instances = {i1, i2}
  Goroutines = {g1, g2, g3}
  Home <- MCHome
  Tokens = {t1, t2}
  NoToken = NoToken
  Nobody = Nobody
  TTL = 12
  RenewInterval = 4
  OpTimeout = 1
SPECIFICATION Spec
SYMMETRY Symmetry
PROPERTY
  ReleaseSparesOthers
