SPECIFICATION Spec
CONSTANTS
  BUFFER_SIZE = 3
  LINE_SIZE = 4
  Inputs <- MCInputs
INVARIANTS
  CommandsAreLines
PROPERTIES
  FgetsImplements
CHECK_DEADLOCK FALSE
