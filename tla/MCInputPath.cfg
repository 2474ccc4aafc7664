CONSTANTS
  N = 3
  NoByte = NoByte
  MaxBytes = 5
SPECIFICATION FairSpec
CHECK_DEADLOCK FALSE
INVARIANTS TypeOK LockDiscipline NothingLost BufferedInOrder AtMostTwice NeverAstray
PROPERTY EveryByteAnswered
