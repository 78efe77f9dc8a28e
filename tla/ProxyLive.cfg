\* Two routes, the monitor and the check of their load.
CONSTANTS
  d1 = d1
  d2 = d2
  n1 = n1
  n2 = n2
  Domains = {d1, d2}
  Names = {n1, n2}
  Configs <- TwoRoutes
  Providing = {TRUE}
  ReadFaults = FALSE
  MaxLoads = 1
  MaxGen = 2
SPECIFICATION FairSpec
PROPERTIES
  EventuallyFresh
