\* Three processes, two ACME directories.
CONSTANTS
  Directories = {staging, production}
  Preferences <- PreferenceSet
  MaxStarts = 3
  MaxLabel = 2
  MaxName = 4
SPECIFICATION FairStartup
CHECK_DEADLOCK FALSE
INVARIANTS
  OrdersWithSavedAccount
  
  NamesHaveLabels
  
  
PROPERTIES
  AccountKept
  StartCompletes
