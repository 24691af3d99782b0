CONSTANTS
  Width = 3
  Height = 2
  U32 = 65536
  Motions <- MCMotions
  Configs <- MCConfigs
  MaxOut = 2
SPECIFICATION Spec
INVARIANTS
  StaysInStep
  NoByteStranded
PROPERTIES
  MovesAsReported
  BytesGetRead
\* With early input the controller's interrupts may end up disabled.
CHECK_DEADLOCK FALSE
