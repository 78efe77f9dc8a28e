\* Two goroutines and one spelling.
CONSTANTS
  ab = ab
  ba = ba
  other = other
  n1 = n1
  n2 = n2
  Workers = {w1, w2}
  Spellings = {ab}
  NamesOf <- MCNamesOf
  None = None
  Torn = Torn
  MaxSerial = 2
  MaxMutex = 2
SPECIFICATION Spec
SYMMETRY Symmetry
CHECK_DEADLOCK FALSE
INVARIANTS
  ExcludesPerCertificate
