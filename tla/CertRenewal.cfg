\* One name, an ACME and a self-signed supplier, ARI and must-staple.
CONSTANTS
  Workers = {w1, w2}
  Names = {n1}
  Suppliers = {acme, self}
  AcmeSuppliers = {acme}
  Legacy = Legacy
  NoCert = NoCert
  Corrupt = Corrupt
  Nobody = Nobody
  ShouldStaple = TRUE
  Lifetime = 3
  StapleLife = 2
  MinValidity = 1
  MinStaple = 1
  AriOffsets = {1, 2}
  RetryAfter = 1
  MayLapse = FALSE
  MaxTime = 4
  MaxSerial = 3
SPECIFICATION Spec
SYMMETRY WorkerSymmetry
INVARIANTS
  HandedOutIsStored
PROPERTIES
  NoStaleIssue
  
  UsesLeases
