SPECIFICATION Spec
CONSTANTS
  MaxCalls = 3
  Inputs <- MCInputs
INVARIANTS
  TerminalLines
  DiesOfLongLines
CHECK_DEADLOCK FALSE
