\* Two names whose saves prune each other's entries; leases may lapse.
CONSTANTS
  Workers = {w1, w2}
  Names = {n1, n2}
  Suppliers = {self}
  AcmeSuppliers = {}
  Legacy = Legacy
  NoCert = NoCert
  Corrupt = Corrupt
  Nobody = Nobody
  ShouldStaple = FALSE
  Lifetime = 2
  StapleLife = 1
  MinValidity = 1
  MinStaple = 0
  AriOffsets = {}
  RetryAfter = 1
  MayLapse = TRUE
  MaxTime = 3
  MaxSerial = 2
SPECIFICATION Spec
SYMMETRY WorkerAndNameSymmetry
PROPERTIES
  PruneSparesValid
  NoRegression
