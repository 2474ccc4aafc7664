CONSTANTS
  N = 3
  NoByte = NoByte
  MaxBytes = 3
SPECIFICATION FairSpec
CHECK_DEADLOCK FALSE
PROPERTY ControllerDrained
