SPECIFICATION Spec
CONSTANTS
  ENVIRON_DATA_SIZE = 2
  MaxLines = 3
  Lines <- MCLines
INVARIANTS
  FaultsIffOverlong
  VectorsEnd
  ValuesMapped
  VariablesKept
