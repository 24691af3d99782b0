CONSTANTS
  Width = 3
  Height = 2
  U32 = 65536
  Motions <- OneMotion
  Configs <- MCConfigs
  MaxOut = 2
SPECIFICATION FairSpec
PROPERTY
  Resynchronises
CHECK_DEADLOCK FALSE
