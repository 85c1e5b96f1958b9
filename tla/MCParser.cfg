SPECIFICATION Spec
CONSTANTS
  MAX_ARGUMENTS = 2
  Inputs <- MCInputs
INVARIANTS
  ParsedAsWritten
CHECK_DEADLOCK FALSE
