CONSTANTS
  MaxTasks = 6
  MaxKernelTasks = 3
SPECIFICATION FairSpec
INVARIANTS
  TypeOK
  StacksSeparate
  ReturnsWhenItExits
PROPERTIES
  DeadStaysDead
  ProgramRunReturns
\* The machine stops at an exception, and the model when its ids run out.
CHECK_DEADLOCK FALSE
