\* Two goroutines, two spellings of one list of names and another one.
CONSTANTS
  ab = ab
  ba = ba
  other = other
  n1 = n1
  n2 = n2
  Workers = {w1, w2}
  Spellings = {ab, ba, other}
  NamesOf <- MCNamesOf
  None = None
  Torn = Torn
  MaxSerial = 2
  MaxMutex = 3
SPECIFICATION Spec
SYMMETRY Symmetry
CHECK_DEADLOCK FALSE
INVARIANTS
  TypeOK
  ExcludesPerSpelling
  FileMatchesMemory
