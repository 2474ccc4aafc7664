CONSTANTS
  N = 4
  Bytes = {0, 1, 2}
  NoByte = NoByte
SPECIFICATION Spec
INVARIANT TypeOK
PROPERTY QueueRefinement
