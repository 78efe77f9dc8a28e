\* Two loads out of four configurations.
CONSTANTS
  Configs <- RequestConfigs
  MaxLoads = 2
  Names <- NameSet
  Lower <- LowerCase
  Garbage = {"?"}
  Frontends = {"tcp", "http"}
  Asked <- AskedHosts
  Clients <- ClientSet
  Statuses = {200, 404}
  None = None
SPECIFICATION FairSpec
INVARIANTS
  TypeOK
  
  CountedAsSent
  UpstreamsInformed
PROPERTIES
  LookupIsCurrent
  RedirectsEnd
