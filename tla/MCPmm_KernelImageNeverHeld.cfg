CONSTANTS
  FrameSize = 4
  LowMemory = 4
  MaxCount = 3
  Layouts <- MCLayouts
SPECIFICATION Spec
INVARIANT
  KernelImageNeverHeld
