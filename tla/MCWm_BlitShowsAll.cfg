CONSTANTS
  Width = 4
  Height = 3
  U32 = 16
  Modes <- WideRows
  TITLE_BAR_H = 1
  WINDOW_BORDER = 1
  TASKBAR_H = 1
  Close <- MCClose
  WM_MAX_WINDOWS = 2
  Windows <- MCWindows
SPECIFICATION Spec
PROPERTY BlitShowsAll
