CONSTANTS
  IntMod = 16
  LongMod = 256
  Nibbles = 2
  PageSize = 4
  MAX_MODULES = 2
  Width = 3
  Height = 2
  U32 = 16
  GlyphW = 2
  GlyphH = 2
  LibCalls <- MCLibCalls
  FormatCalls <- MCFormatCalls
  SerialCalls <- MCSerialCalls
  BufferCalls <- MCBufferCalls
  LoadCalls <- MCLoadCalls
  StackCalls <- MCStackCalls
  RunCalls <- MCRunCalls
  TableCalls <- MCTableCalls
  TrapCalls <- MCTrapCalls
  DrawCalls <- MCDrawCalls
SPECIFICATION Spec
INVARIANTS
  StringsAgree
  Formatted
  ImageLoaded
  StackChained
  RunFindsModule
  TablesRead
  InterruptedResumes
  DrawsInside
\* A call returns.
CHECK_DEADLOCK FALSE
