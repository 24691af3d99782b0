CONSTANTS
  FS_MAX_FILES = 3
  FS_MAX_FDS = 4
  BootFiles <- MCBootFiles
  Path = "readme"
  BufSize = 2
  Leftover <- MCLeftover
SPECIFICATION FsFairSpec
INVARIANTS
  CatPrintsFile
PROPERTY
  CatEnds
\* A fault halts the machine.
CHECK_DEADLOCK FALSE
