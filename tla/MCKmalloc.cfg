CONSTANTS
  FrameUnits = 4
  POOL_SIZE = 2
  MemFrames <- MCMemFrames
  MaxRequest = 4
SPECIFICATION Spec
INVARIANTS
  BlocksTilePools
  WritesFit
  StuckOnlyWithoutFrames
PROPERTY
  HeldBlocksKept
\* malloc that never returns stops the machine.
CHECK_DEADLOCK FALSE
