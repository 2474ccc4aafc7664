CONSTANTS
  HeapStart = 3
  HeapSize = 36
  NodeSize = 4
  NodeAlign = 2
  BlockSizes = {4, 8}
  Layouts <- MCLargeLayouts
SPECIFICATION Spec
CHECK_DEADLOCK FALSE
INVARIANT NoLeak
