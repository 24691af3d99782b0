CONSTANTS
  N = 5
  KernelImage = {4}
  Heap = {5}
  File <- MCFile
  MemFrames <- MCMemFrames
  Program = {"cat", "hello"}
  ImageStart = 20
  ImageSize <- MCImageSize
  StackPages = 2
  KStackPages = 2
  PoolPages = 1
  MaxPools = 1
  Breaks = {12, 20, 23}
  Addresses = {2, 4, 12, 20, 124}
  Lengths = {1, 2}
  MaxCalls = 3
SPECIFICATION Spec
INVARIANTS
  KernelMapKept
  ProgramComplete
  FramesExclusive
  BreakBacked
\* The model stops where the kernel goes astray.
CHECK_DEADLOCK FALSE
