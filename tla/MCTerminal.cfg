CONSTANTS
  TERM_MAXLINES = 5
  TERM_COLS = 4
  Cols = 3
  Rows = 2
  Letter = {"a"}
  Greeting <- MCGreeting
  Prompt <- MCPrompt
  Outputs <- MCOutputs
SPECIFICATION TermSpec
INVARIANTS
  EchoShowsCommand
PROPERTY
  ScrollbackKept
\* A command that fills its buffer stops the machine.
CHECK_DEADLOCK FALSE
