\* Two loads, accepted or refused, with and without a certificate provider.
CONSTANTS
  d1 = d1
  d2 = d2
  n1 = n1
  n2 = n2
  Domains = {d1, d2}
  Names = {n1}
  Configs <- CertConfigs
  Providing = {TRUE, FALSE}
  ReadFaults = TRUE
  MaxLoads = 2
  MaxGen = 2
SPECIFICATION Spec
INVARIANTS
  StatusMatchesCert
PROPERTIES
  ReloadKeepsServing
  ValidCertKept
  ImplementsTable
