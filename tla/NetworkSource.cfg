\* Three configurations and four faults.
CONSTANTS
  Bad = Bad
  MaxConfigs = 3
  MaxFaults = 4
  MaxStream = 2
SPECIFICATION FairSpec
CHECK_DEADLOCK FALSE
INVARIANTS
  NoTimeoutOnceConfigured
  GivesUpAfterTwo
PROPERTIES
  EventuallyCurrent
  StopEnds
